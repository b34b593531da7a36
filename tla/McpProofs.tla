------------------------------ MODULE McpProofs ------------------------------
(***************************************************************************)
(* Proofs about Mcp, for every number of clients and connections.          *)
(*                                                                         *)
(* The argument: what is queued for the server decides the session that it *)
(* will have when it has read the queue, and mooproxy always knows the key *)
(* of that one (ServerInv).  For this, a client with whom there is a       *)
(* session must not send another handshake (ClientInv).                    *)
(***************************************************************************)
EXTENDS Mcp, SequenceTheorems, TLAPS

USE BoundsAssumption, NullAssumption

-----------------------------------------------------------------------------
(* The elements of a queue.                                                *)

Elements(q) == {q[i] : i \in 1 .. Len(q)}

\* No two messages of the queue are handshakes.
OneReply(q) ==
    \A i, j \in 1 .. Len(q) : q[i].type = "mcp" /\ q[j].type = "mcp" => i = j

LEMMA MessageTypes ==
    /\ Handshake \in Message
    /\ \A k \in Key : Reply(k) \in Message /\ Can(k) \in Message /\ Reset(k) \in Message
  BY DEF Handshake, Reply, Can, Reset, Message, Key

LEMMA ElementsEmpty == Elements(<<>>) = {}
  BY DEF Elements

LEMMA ElementsAppend ==
    ASSUME NEW q \in Seq(Message), NEW m \in Message
    PROVE  Append(q, m) \in Seq(Message) /\ Elements(Append(q, m)) = Elements(q) \union {m}
<1>1. Len(q) \in Nat
  BY LenProperties
<1>2. /\ Append(q, m) \in Seq(Message) /\ Len(Append(q, m)) = Len(q) + 1
      /\ \A i \in 1 .. Len(q) : Append(q, m)[i] = q[i]
      /\ Append(q, m)[Len(q) + 1] = m
  BY AppendProperties
<1>3. QED
  BY <1>1, <1>2 DEF Elements

LEMMA ElementsTail ==
    ASSUME NEW q \in Seq(Message), q # <<>>
    PROVE  /\ Head(q) \in Message /\ Tail(q) \in Seq(Message)
           /\ Elements(q) = {Head(q)} \union Elements(Tail(q))
<1>1. Len(q) \in Nat \ {0} /\ Head(q) = q[1]
  BY EmptySeq
<1>2. /\ Head(q) \in Message /\ Tail(q) \in Seq(Message) /\ Len(Tail(q)) = Len(q) - 1
      /\ \A i \in 1 .. Len(Tail(q)) : Tail(q)[i] = q[i + 1]
  BY HeadTailProperties
<1>3. Elements(q) \subseteq {Head(q)} \union Elements(Tail(q))
  <2> SUFFICES ASSUME NEW i \in 1 .. Len(q)
               PROVE  q[i] \in {Head(q)} \union Elements(Tail(q))
    BY DEF Elements
  <2>1. CASE i = 1
    BY <1>1, <2>1
  <2>2. CASE i # 1
    <3>1. i - 1 \in 1 .. Len(Tail(q))
      BY <1>1, <1>2, <2>2
    <3>2. Tail(q)[i - 1] = q[i]
      BY <1>1, <1>2, <3>1
    <3>3. QED
      BY <3>1, <3>2 DEF Elements
  <2>3. QED
    BY <2>1, <2>2
<1>4. {Head(q)} \union Elements(Tail(q)) \subseteq Elements(q)
  <2>1. q[1] \in Elements(q)
    BY <1>1 DEF Elements
  <2>2. \A i \in 1 .. Len(Tail(q)) : i + 1 \in 1 .. Len(q)
    BY <1>1, <1>2
  <2>3. QED
    BY <1>1, <1>2, <2>1, <2>2 DEF Elements
<1>5. QED
  BY <1>2, <1>3, <1>4

LEMMA ElementsConcat ==
    ASSUME NEW q \in Seq(Message), NEW r \in Seq(Message)
    PROVE  q \o r \in Seq(Message) /\ Elements(q \o r) = Elements(q) \union Elements(r)
<1>1. Len(q) \in Nat /\ Len(r) \in Nat
  BY LenProperties
<1>2. /\ q \o r \in Seq(Message) /\ Len(q \o r) = Len(q) + Len(r)
      /\ \A i \in 1 .. Len(q) + Len(r) :
            (q \o r)[i] = IF i <= Len(q) THEN q[i] ELSE r[i - Len(q)]
  BY ConcatProperties
<1>3. \A i \in 1 .. Len(q) : i \in 1 .. Len(q \o r) /\ (q \o r)[i] = q[i]
  BY <1>1, <1>2
<1>4. \A i \in 1 .. Len(r) :
         i + Len(q) \in 1 .. Len(q \o r) /\ (q \o r)[i + Len(q)] = r[i]
  BY <1>1, <1>2
<1>5. \A i \in 1 .. Len(q \o r) : i \in 1 .. Len(q) \/ i - Len(q) \in 1 .. Len(r)
  BY <1>1, <1>2
<1>6. Elements(q \o r) \subseteq Elements(q) \union Elements(r)
  <2> SUFFICES ASSUME NEW i \in 1 .. Len(q \o r)
               PROVE  (q \o r)[i] \in Elements(q) \union Elements(r)
    BY DEF Elements
  <2>1. CASE i <= Len(q)
    BY <1>1, <1>2, <2>1 DEF Elements
  <2>2. CASE ~(i <= Len(q))
    <3>1. i - Len(q) \in 1 .. Len(r) /\ (q \o r)[i] = r[i - Len(q)]
      BY <1>1, <1>2, <2>2
    <3>2. QED
      BY <3>1 DEF Elements
  <2>3. QED
    BY <2>1, <2>2
<1>7. Elements(q) \union Elements(r) \subseteq Elements(q \o r)
  BY <1>3, <1>4 DEF Elements
<1>8. QED
  BY <1>2, <1>6, <1>7

\* Two messages more are one and one more.
LEMMA PairIsAppends ==
    ASSUME NEW q \in Seq(Message), NEW a \in Message, NEW b \in Message
    PROVE  q \o <<a, b>> = Append(Append(q, a), b)
<1> DEFINE s == <<a>>
           t == <<b>>
           p == Append(q, a)
<1>1. s \in Seq(Message) /\ t \in Seq(Message) /\ Len(s) = 1 /\ Len(t) = 1 /\ p \in Seq(Message)
  BY ElementsAppend
<1>2. s \o t = <<a, b>>
  <2>1. /\ s \o t \in Seq(Message) /\ Len(s \o t) = 2
        /\ \A i \in 1 .. 2 : (s \o t)[i] = IF i <= 1 THEN s[i] ELSE t[i - 1]
    BY <1>1, ConcatProperties
  <2>2. \A i \in 1 .. 2 : (s \o t)[i] = <<a, b>>[i]
    BY <2>1
  <2>3. <<a, b>> \in Seq(Message) /\ Len(<<a, b>>) = 2
    OBVIOUS
  <2>4. QED
    BY <2>1, <2>2, <2>3, SeqEqual
<1>3. p = q \o s
  BY AppendIsConcat
<1>4. Append(p, b) = p \o t
  <2> HIDE DEF p
  <2>1. QED
    BY <1>1, AppendIsConcat
<1>5. (q \o s) \o t = q \o (s \o t)
  <2> HIDE DEF s, t
  <2>1. QED
    BY <1>1, ConcatAssociative
<1>6. QED
  BY <1>2, <1>3, <1>4, <1>5, Zenon

LEMMA ElementsPair ==
    ASSUME NEW q \in Seq(Message), NEW a \in Message, NEW b \in Message
    PROVE  /\ q \o <<a, b>> \in Seq(Message)
           /\ Elements(q \o <<a, b>>) = Elements(q) \union {a, b}
<1> DEFINE p == Append(q, a)
<1>1. p \in Seq(Message) /\ Elements(p) = Elements(q) \union {a}
  BY ElementsAppend
<1>2. Append(p, b) \in Seq(Message) /\ Elements(Append(p, b)) = Elements(p) \union {b}
  <2> HIDE DEF p
  <2>1. QED
    BY <1>1, ElementsAppend
<1>3. Elements(p) \union {b} = Elements(q) \union {a, b}
  BY <1>1
<1>4. q \o <<a, b>> = Append(p, b)
  BY PairIsAppends
<1>5. QED
  BY <1>2, <1>3, <1>4, Zenon

\* One or two messages more.
LEMMA ElementsMore ==
    ASSUME NEW q \in Seq(Message), NEW a \in Message, NEW b \in Message
    PROVE  /\ q \o <<a>> = Append(q, a) /\ q \o <<a, b>> = Append(Append(q, a), b)
           /\ q \o <<a>> \in Seq(Message) /\ q \o <<a, b>> \in Seq(Message)
           /\ Elements(q \o <<a>>) = Elements(q) \union {a}
           /\ Elements(q \o <<a, b>>) = Elements(q) \union {a, b}
<1>1. q \o <<a>> = Append(q, a)
  BY AppendIsConcat
<1>2. Append(q, a) \in Seq(Message) /\ Elements(Append(q, a)) = Elements(q) \union {a}
  BY ElementsAppend
<1>3. Elements(q \o <<a>>) = Elements(q) \union {a} /\ q \o <<a>> \in Seq(Message)
  BY <1>1, <1>2, Zenon
<1>4. q \o <<a, b>> = Append(Append(q, a), b)
  BY PairIsAppends
<1>5. q \o <<a, b>> \in Seq(Message) /\ Elements(q \o <<a, b>>) = Elements(q) \union {a, b}
  BY ElementsPair, Zenon
<1>6. QED
  BY <1>1, <1>3, <1>4, <1>5

LEMMA ElementsBeyond ==
    ASSUME NEW q \in Seq(Message), NEW n \in 0 .. Len(q)
    PROVE  Beyond(q, n) \in Seq(Message) /\ Elements(Beyond(q, n)) \subseteq Elements(q)
<1>1. n \in Nat /\ Len(q) \in Nat /\ n <= Len(q)
  BY LenProperties
<1>2. \A i \in n + 1 .. Len(q) : q[i] \in Message
  BY <1>1, ElementOfSeq
<1>3. /\ SubSeq(q, n + 1, Len(q)) \in Seq(Message)
      /\ Len(SubSeq(q, n + 1, Len(q))) = IF n + 1 <= Len(q) THEN Len(q) - (n + 1) + 1 ELSE 0
      /\ \A i \in 1 .. Len(q) - (n + 1) + 1 : SubSeq(q, n + 1, Len(q))[i] = q[(n + 1) + i - 1]
  BY <1>1, <1>2, SubSeqProperties
<1>4. ASSUME NEW i \in 1 .. Len(SubSeq(q, n + 1, Len(q)))
      PROVE  SubSeq(q, n + 1, Len(q))[i] \in Elements(q)
  <2>1. n + i \in 1 .. Len(q) /\ SubSeq(q, n + 1, Len(q))[i] = q[n + i]
    BY <1>1, <1>3
  <2>2. QED
    BY <2>1 DEF Elements
<1>5. QED
  BY <1>3, <1>4 DEF Beyond, Elements

-----------------------------------------------------------------------------
(* What the server makes of a queue.                                       *)

Session == [key : Key, knows : BOOLEAN]
NoSession == [key |-> NULL, knows |-> FALSE]

\* Is the message a reset that the server will obey?
Effective(s, m) == m.type = "reset" /\ m.key = s.key /\ s.knows

\* The session of the server after a message, as in ServerReads.
After(s, m) ==
    IF m.type = "mcp" /\ s.key = NULL THEN [key |-> m.key, knows |-> FALSE]
    ELSE IF m.type = "can" /\ m.key = s.key THEN [key |-> s.key, knows |-> TRUE]
    ELSE IF Effective(s, m) THEN NoSession
    ELSE s

\* f lists the sessions that the server goes through, from s.
TraceOf(f, q, s) ==
    /\ f \in [0 .. Len(q) -> Session]
    /\ f[0] = s
    /\ \A i \in 1 .. Len(q) : f[i] = After(f[i - 1], q[i])
EffectiveIn(f, q) == \E i \in 1 .. Len(q) : Effective(f[i - 1], q[i])

\* With the queue q, the session s becomes e; by an effective reset, if p.
Reaches(q, s, e, p) ==
    \E f : TraceOf(f, q, s) /\ f[Len(q)] = e /\ (p => EffectiveIn(f, q))

LEMMA AfterType ==
    ASSUME NEW s \in Session, NEW m \in Message
    PROVE  After(s, m) \in Session
  BY DEF After, Session, Message, NoSession, Key

LEMMA ReachesEmpty ==
    ASSUME NEW s \in Session, NEW e, NEW p
    PROVE  /\ Reaches(<<>>, s, s, FALSE)
           /\ Reaches(<<>>, s, e, p) => e = s /\ (p => FALSE)
<1>1. Reaches(<<>>, s, s, FALSE)
  <2>1. Len(<<>>) = 0 /\ TraceOf([i \in 0 .. 0 |-> s], <<>>, s)
    BY DEF TraceOf
  <2>2. QED
    BY <2>1 DEF Reaches
<1>2. Reaches(<<>>, s, e, p) => e = s /\ (p => FALSE)
  BY DEF Reaches, TraceOf, EffectiveIn
<1>3. QED
  BY <1>1, <1>2

LEMMA ReachesAppend ==
    ASSUME NEW q \in Seq(Message), NEW m \in Message, NEW s, NEW e, NEW p \in BOOLEAN,
           Reaches(q, s, e, p)
    PROVE  Reaches(Append(q, m), s, After(e, m), p \/ Effective(e, m))
<1>1. PICK f : TraceOf(f, q, s) /\ f[Len(q)] = e /\ (p => EffectiveIn(f, q))
  BY DEF Reaches
<1> DEFINE n == Len(q)
           g == [i \in 0 .. n + 1 |-> IF i <= n THEN f[i] ELSE After(e, m)]
<1>2. /\ n \in Nat /\ Len(Append(q, m)) = n + 1
      /\ \A i \in 1 .. n : Append(q, m)[i] = q[i]
      /\ Append(q, m)[n + 1] = m
  BY LenProperties, AppendProperties
<1>3. f \in [0 .. n -> Session] /\ f[0] = s /\ \A i \in 1 .. n : f[i] = After(f[i - 1], q[i])
  BY <1>1 DEF TraceOf
<1>4. e \in Session /\ After(e, m) \in Session
  BY <1>1, <1>2, <1>3, AfterType
<1>5. /\ g \in [0 .. n + 1 -> Session] /\ g[0] = s /\ g[n] = e /\ g[n + 1] = After(e, m)
      /\ \A i \in 1 .. n : g[i] = f[i] /\ g[i - 1] = f[i - 1]
  BY <1>1, <1>2, <1>3, <1>4
<1> HIDE DEF g, n
<1>6. ASSUME NEW i \in 1 .. n + 1
      PROVE  g[i] = After(g[i - 1], Append(q, m)[i])
  <2>1. CASE i = n + 1
    <3>1. i - 1 = n
      BY <1>2, <2>1
    <3>2. QED
      BY <3>1, <1>2, <1>5, <2>1
  <2>2. CASE i # n + 1
    <3>1. i \in 1 .. n
      BY <1>2, <2>2
    <3>2. QED
      BY <3>1, <1>2, <1>3, <1>5
  <2>3. QED
    BY <2>1, <2>2
<1>7. TraceOf(g, Append(q, m), s)
  BY <1>2, <1>5, <1>6 DEF TraceOf
<1>8. p => EffectiveIn(g, Append(q, m))
  <2> SUFFICES ASSUME p PROVE EffectiveIn(g, Append(q, m))
    OBVIOUS
  <2>1. PICK i \in 1 .. n : Effective(f[i - 1], q[i])
    BY <1>1 DEF EffectiveIn, n
  <2>2. i \in 1 .. Len(Append(q, m)) /\ Effective(g[i - 1], Append(q, m)[i])
    BY <1>2, <1>5, <2>1
  <2>3. QED
    BY <2>2 DEF EffectiveIn
<1>9. Effective(e, m) => EffectiveIn(g, Append(q, m))
  <2> SUFFICES ASSUME Effective(e, m) PROVE EffectiveIn(g, Append(q, m))
    OBVIOUS
  <2>1. n + 1 \in 1 .. Len(Append(q, m)) /\ (n + 1) - 1 = n
    BY <1>2
  <2>2. Effective(g[(n + 1) - 1], Append(q, m)[n + 1])
    BY <1>2, <1>5, <2>1
  <2>3. QED
    BY <2>1, <2>2 DEF EffectiveIn
<1>10. QED
  BY <1>2, <1>5, <1>7, <1>8, <1>9 DEF Reaches

LEMMA ReachesTail ==
    ASSUME NEW q \in Seq(Message), q # <<>>, NEW s, NEW e, NEW p \in BOOLEAN,
           Reaches(q, s, e, p)
    PROVE  Reaches(Tail(q), After(s, Head(q)), e, p /\ ~Effective(s, Head(q)))
<1>1. PICK f : TraceOf(f, q, s) /\ f[Len(q)] = e /\ (p => EffectiveIn(f, q))
  BY DEF Reaches
<1> DEFINE n == Len(q) - 1
           g == [i \in 0 .. n |-> f[i + 1]]
<1>2. /\ n \in Nat /\ Len(q) = n + 1 /\ Len(Tail(q)) = n /\ Head(q) = q[1]
      /\ \A i \in 1 .. n : Tail(q)[i] = q[i + 1]
  BY EmptySeq, HeadTailProperties
<1> HIDE DEF n
<1>3. /\ f \in [0 .. n + 1 -> Session] /\ f[0] = s
      /\ \A i \in 1 .. n + 1 : f[i] = After(f[i - 1], q[i])
  BY <1>1, <1>2 DEF TraceOf
<1>4. g \in [0 .. n -> Session] /\ g[0] = f[1] /\ g[n] = f[n + 1]
  BY <1>2, <1>3
<1>5. f[1] = After(s, Head(q))
  <2>1. 1 \in 1 .. n + 1 /\ 1 - 1 = 0
    BY <1>2
  <2>2. QED
    BY <2>1, <1>2, <1>3
<1>6. ASSUME NEW i \in 1 .. n
      PROVE  g[i] = After(g[i - 1], Tail(q)[i])
  <2>1. i + 1 \in 1 .. n + 1 /\ (i + 1) - 1 = i /\ i - 1 \in 0 .. n /\ (i - 1) + 1 = i /\ i \in 0 .. n
    BY <1>2
  <2>2. QED
    BY <2>1, <1>2, <1>3
<1>7. TraceOf(g, Tail(q), After(s, Head(q)))
  <2> HIDE DEF g
  <2>1. QED
    BY <1>2, <1>4, <1>5, <1>6 DEF TraceOf
<1>8. p /\ ~Effective(s, Head(q)) => EffectiveIn(g, Tail(q))
  <2> SUFFICES ASSUME p, ~Effective(s, Head(q)) PROVE EffectiveIn(g, Tail(q))
    OBVIOUS
  <2>1. PICK i \in 1 .. n + 1 : Effective(f[i - 1], q[i])
    BY <1>1, <1>2 DEF EffectiveIn
  <2>2. i # 1
    BY <1>2, <1>3, <2>1
  <2>3. i - 1 \in 1 .. n /\ (i - 1) + 1 = i /\ (i - 1) - 1 \in 0 .. n /\ ((i - 1) - 1) + 1 = i - 1
    BY <1>2, <2>2
  <2>4. g[(i - 1) - 1] = f[i - 1] /\ Tail(q)[i - 1] = q[i]
    BY <1>2, <2>3
  <2> HIDE DEF g
  <2>5. QED
    BY <1>2, <2>1, <2>3, <2>4 DEF EffectiveIn
<1>9. QED
  <2> HIDE DEF g
  <2>1. QED
    BY <1>1, <1>2, <1>4, <1>7, <1>8 DEF Reaches

-----------------------------------------------------------------------------
(* Every variable has its type.                                            *)

LEMMA QueuedType ==
    ASSUME NEW q \in Seq(Message), NEW up \in BOOLEAN, NEW r \in Seq(Message)
    PROVE  /\ Queued(q, up, r) \in Seq(Message)
           /\ Elements(Queued(q, up, r)) \subseteq Elements(q) \union Elements(r)
           /\ ~up => Queued(q, up, r) = <<>>
  BY ElementsConcat, ElementsEmpty, EmptySeq DEF Queued

LEMMA OneMessage ==
    ASSUME NEW a \in Message, NEW b \in Message
    PROVE  /\ <<a>> \in Seq(Message) /\ Elements(<<a>>) = {a}
           /\ <<a, b>> \in Seq(Message) /\ Elements(<<a, b>>) = {a, b}
<1>1. <<a>> \in Seq(Message) /\ <<a, b>> \in Seq(Message)
  OBVIOUS
<1>2. /\ Len(<<a>>) = 1 /\ <<a>>[1] = a
      /\ Len(<<a, b>>) = 2 /\ <<a, b>>[1] = a /\ <<a, b>>[2] = b
  OBVIOUS
<1>3. 1 .. 1 = {1} /\ 1 .. 2 = {1, 2}
  OBVIOUS
<1>4. Elements(<<a>>) = {a}
  BY <1>2, <1>3 DEF Elements
<1>5. Elements(<<a, b>>) = {a, b}
  BY <1>2, <1>3 DEF Elements
<1>6. QED
  BY <1>1, <1>4, <1>5

LEMMA QueuedOne ==
    ASSUME NEW q \in Seq(Message), NEW up \in BOOLEAN, NEW a \in Message
    PROVE  /\ Queued(q, up, <<a>>) \in Seq(Message)
           /\ Elements(Queued(q, up, <<a>>)) \subseteq Elements(q) \union {a}
           /\ ~up => Queued(q, up, <<a>>) = <<>>
<1> DEFINE r == <<a>>
<1>1. r \in Seq(Message) /\ Elements(r) = {a}
  BY OneMessage
<1>2. /\ Queued(q, up, r) \in Seq(Message)
      /\ Elements(Queued(q, up, r)) \subseteq Elements(q) \union {a}
      /\ ~up => Queued(q, up, r) = <<>>
  <2> HIDE DEF r
  <2>1. QED
    BY <1>1, QueuedType
<1>3. QED
  BY <1>2, Zenon

LEMMA QueuedTwo ==
    ASSUME NEW q \in Seq(Message), NEW up \in BOOLEAN, NEW a \in Message, NEW b \in Message
    PROVE  /\ Queued(q, up, <<a, b>>) \in Seq(Message)
           /\ Elements(Queued(q, up, <<a, b>>)) \subseteq Elements(q) \union {a, b}
           /\ ~up => Queued(q, up, <<a, b>>) = <<>>
<1> DEFINE r == <<a, b>>
<1>1. r \in Seq(Message) /\ Elements(r) = {a, b}
  BY OneMessage
<1>2. /\ Queued(q, up, r) \in Seq(Message)
      /\ Elements(Queued(q, up, r)) \subseteq Elements(q) \union {a, b}
      /\ ~up => Queued(q, up, r) = <<>>
  <2> HIDE DEF r
  <2>1. QED
    BY <1>1, QueuedType
<1>3. QED
  BY <1>2, Zenon

LEMMA ResetMessagesType ==
    ASSUME mcp_key \in Key
    PROVE  /\ ResetMessages \in Seq(Message)
           /\ Elements(ResetMessages) \subseteq {Can(mcp_key), Reset(mcp_key)}
<1>1. Can(mcp_key) \in Message /\ Reset(mcp_key) \in Message
  BY MessageTypes
<1>2. CASE mcp_negotiated
  BY <1>1, <1>2, OneMessage DEF ResetMessages
<1>3. CASE ~mcp_negotiated
  BY <1>1, <1>3, OneMessage DEF ResetMessages
<1>4. QED
  BY <1>2, <1>3

LEMMA ClientConnectsType ==
    ASSUME TypeOK, NEW left \in Seq(Message), ClientConnects(left), inherited' \in BOOLEAN
    PROVE  TypeOK'
<1>1. /\ Handshake \in Message /\ <<>> \in Seq(Message) /\ <<Handshake>> \in Seq(Message)
      /\ left \o <<Handshake>> \in Seq(Message) /\ left \o <<>> \in Seq(Message)
  BY MessageTypes, OneMessage, ElementsConcat, EmptySeq
<1>2. to_server \o ResetMessages \in Seq(Message)
  BY ResetMessagesType, ElementsConcat DEF TypeOK
<1>3. to_client' \in Seq(Message) /\ to_server' \in Seq(Message)
  BY <1>1, <1>2 DEF TypeOK, ClientConnects
<1>4. mcp_key' \in Key /\ mcp_negotiated' \in BOOLEAN /\ mcp_initmsg' \in BOOLEAN
  BY DEF TypeOK, ClientConnects, mcp, Forget, Key
<1>5. ~server_up => to_server' = to_server
  BY DEF ClientConnects
<1>6. clients' \in 0 .. MaxClients
  BY DEF ClientConnects, TypeOK
<1>7. QED
  BY <1>1, <1>3, <1>4, <1>5, <1>6 DEF TypeOK, ClientConnects, Key

LEMMA ServerLineType == ASSUME TypeOK, ServerLine PROVE TypeOK'
<1> DEFINE message == Head(from_server)
<1>1. message \in Message /\ Tail(from_server) \in Seq(Message)
  BY ElementsTail DEF TypeOK, ServerLine
<1>2. to_client' = Queued(to_client, client_up, <<message>>)
  BY DEF ServerLine
<1> HIDE DEF message
<1>3. to_client \in Seq(Message) /\ client_up \in BOOLEAN
  BY DEF TypeOK
<1>4. /\ Queued(to_client, client_up, <<message>>) \in Seq(Message)
      /\ ~client_up => Queued(to_client, client_up, <<message>>) = <<>>
  BY <1>1, <1>3, QueuedOne, Zenon
<1>5. to_client' \in Seq(Message) /\ (~client_up => to_client' = <<>>)
  BY <1>2, <1>4
<1>6. QED
  BY <1>1, <1>5 DEF TypeOK, ServerLine, counts

LEMMA ClientLineType == ASSUME TypeOK, ClientLine PROVE TypeOK'
<1> DEFINE message == Head(from_client)
<1>1. message \in Message /\ Tail(from_client) \in Seq(Message)
  BY ElementsTail DEF TypeOK, ClientLine
<1>2. Can(mcp_key) \in Message
  BY MessageTypes DEF TypeOK
<1> HIDE DEF message
<1>4. ClientNegotiates(message) \/ ClientRelayed(message)
  BY DEF ClientLine, message
<1>5. /\ to_server' \in Seq(Message) /\ to_client' \in Seq(Message)
      /\ ~server_up => to_server' = <<>>
  <2>0. to_server \in Seq(Message) /\ server_up \in BOOLEAN
    BY DEF TypeOK
  <2>1. /\ Queued(to_server, server_up, <<message>>) \in Seq(Message)
        /\ ~server_up => Queued(to_server, server_up, <<message>>) = <<>>
    BY <2>0, <1>1, QueuedOne, Zenon
  <2>2. /\ Queued(to_server, server_up, <<message, Can(mcp_key)>>) \in Seq(Message)
        /\ ~server_up => Queued(to_server, server_up, <<message, Can(mcp_key)>>) = <<>>
    <3> DEFINE r == <<message, Can(mcp_key)>>
    <3>1. r \in Seq(Message)
      BY <1>1, <1>2, OneMessage
    <3> HIDE DEF r
    <3>2. /\ Queued(to_server, server_up, r) \in Seq(Message)
          /\ ~server_up => Queued(to_server, server_up, r) = <<>>
      BY <2>0, <3>1, QueuedType
    <3>3. QED
      BY <3>2, Zenon DEF r
  <2>3. Append(to_client, Can(mcp_key)) \in Seq(Message)
    BY <1>2, ElementsAppend DEF TypeOK
  <2>4. QED
    BY <1>4, <2>1, <2>2, <2>3 DEF ClientNegotiates, ClientRelayed, TypeOK
<1>6. mcp_key' \in Key /\ mcp_negotiated' \in BOOLEAN
  BY <1>1, <1>4 DEF ClientNegotiates, ClientRelayed, KeyAfter, TypeOK, Message
<1>7. QED
  BY <1>1, <1>5, <1>6 DEF TypeOK, ClientLine, counts

LEMMA ServerConnectsType == ASSUME TypeOK, ServerConnects PROVE TypeOK'
<1>1. <<Handshake>> \in Seq(Message)
  BY MessageTypes, OneMessage
<1>2. /\ Queued(to_client, client_up, ResetMessages) \in Seq(Message)
      /\ ~client_up => Queued(to_client, client_up, ResetMessages) = <<>>
  BY ResetMessagesType, QueuedType DEF TypeOK
<1>3. to_client' \in Seq(Message) /\ (~client_up => to_client' = <<>>)
  BY <1>2 DEF ServerConnects, TypeOK
<1>4. connects' \in 0 .. MaxConnects
  BY DEF ServerConnects, TypeOK
<1>5. QED
  BY <1>1, <1>3, <1>4 DEF TypeOK, ServerConnects, Forget, Key

LEMMA ServerReadsType == ASSUME TypeOK, ServerReads PROVE TypeOK'
<1>1. Head(to_server) \in Message /\ Tail(to_server) \in Seq(Message)
  BY ElementsTail DEF TypeOK, ServerReads
<1>2. Append(from_server, Handshake) \in Seq(Message)
  BY MessageTypes, ElementsAppend DEF TypeOK
<1>3. QED
  BY <1>1, <1>2 DEF TypeOK, ServerReads, Message, Key, mcp, clientside, counts

LEMMA ClientReadsType == ASSUME TypeOK, ClientReads PROVE TypeOK'
<1>1. Head(to_client) \in Message /\ Tail(to_client) \in Seq(Message)
  BY ElementsTail DEF TypeOK, ClientReads
<1>2. keys + 1 \in Nat /\ keys + 1 \in Key
  BY DEF TypeOK, Key
<1>3. Reply(keys + 1) \in Message /\ Can(keys + 1) \in Message
  BY <1>2, MessageTypes
<1>4. from_client \o <<Reply(keys + 1), Can(keys + 1)>> \in Seq(Message)
  BY <1>3, ElementsMore DEF TypeOK
<1>5. /\ from_client' \in Seq(Message) /\ keys' \in Nat
      /\ client_key' \in Key /\ client_knows' \in BOOLEAN
  BY <1>2, <1>4 DEF TypeOK, ClientReads, Key
<1>6. QED
  BY <1>1, <1>5 DEF TypeOK, ClientReads, mcp, serverside, counts

LEMMA InitType == Init => TypeOK
<1>1. <<>> \in Seq(Message)
  BY EmptySeq
<1>2. 0 \in 0 .. MaxConnects /\ 0 \in 0 .. MaxClients /\ 0 \in 0 .. MaxResets /\ 0 \in Nat
  OBVIOUS
<1>3. NULL \in Key
  BY DEF Key
<1> SUFFICES ASSUME Init PROVE TypeOK
  OBVIOUS
<1>4. /\ mcp_negotiated \in BOOLEAN /\ mcp_initmsg \in BOOLEAN /\ inherited \in BOOLEAN
      /\ server_up \in BOOLEAN /\ client_up \in BOOLEAN
      /\ server_knows \in BOOLEAN /\ client_knows \in BOOLEAN
  BY DEF Init
<1>5. QED
  BY <1>1, <1>2, <1>3, <1>4 DEF Init, TypeOK

LEMMA TypeStep == TypeOK /\ [Next]_vars => TypeOK'
<1> SUFFICES ASSUME TypeOK, [Next]_vars PROVE TypeOK'
  OBVIOUS
<1>1. CASE ServerLine
  BY <1>1, ServerLineType
<1>2. CASE ClientLine
  BY <1>2, ClientLineType
<1>3. CASE ServerConnects
  BY <1>3, ServerConnectsType
<1>4. CASE ServerLost
  BY <1>4, EmptySeq DEF TypeOK, ServerLost, mcp, clientside, counts, Key
<1>5. CASE NewClient
  BY <1>5, EmptySeq, ClientConnectsType DEF NewClient, TypeOK
<1>6. CASE TakeOver
  BY <1>6, ElementsBeyond, ClientConnectsType DEF TakeOver, TypeOK
<1>7. CASE ClientLost
  BY <1>7, EmptySeq DEF TypeOK, ClientLost, mcp, serverside, counts, Key
<1>8. CASE ServerReads
  BY <1>8, ServerReadsType
<1>9. CASE ClientReads
  BY <1>9, ClientReadsType
<1>10. CASE UNCHANGED vars
  BY <1>10 DEF vars, mcp, serverside, clientside, counts, TypeOK
<1>11. QED
  BY <1>1, <1>2, <1>3, <1>4, <1>5, <1>6, <1>7, <1>8, <1>9, <1>10
     DEF Next, Relay, Connections, Peers

\* Every variable of the MCP sessions always has its type, and no message
\* is kept for a peer that is not there.
THEOREM TypeCorrect == Spec => []TypeOK
<1>1. Init => TypeOK
  BY InitType
<1>2. TypeOK /\ [Next]_vars => TypeOK'
  BY TypeStep
<1>3. QED
  BY <1>1, <1>2, PTL DEF Spec

-----------------------------------------------------------------------------
(* The client answers one handshake, and not in a session of mooproxy's.   *)

\* Keys are handed out in order.
KeysUsed ==
    /\ mcp_key # NULL => mcp_key <= keys
    /\ client_key # NULL => client_key <= keys

FromServerInv == \A m \in Elements(from_server) : m.type = "mcp"

\* The answer to a handshake has the client's key, which is new to mooproxy.
FromClientInv ==
    /\ \A m \in Elements(from_client) :
          /\ m.type \in {"mcp", "can"} /\ m.key \in Nat /\ m.key <= keys
          /\ m.type = "mcp" => m.key = client_key /\ m.key # mcp_key
    /\ OneReply(from_client)

\* A reset is for a session that mooproxy has done with.
ToClientInv ==
    \A m \in Elements(to_client) : m.type = "reset" =>
        /\ m.key \in Nat /\ m.key <= keys /\ m.key # mcp_key
        /\ \A r \in Elements(from_client) : r.type = "mcp" => r.key # m.key

SameKey == server_up /\ client_up /\ mcp_key # NULL => client_key = mcp_key

ClientInv == KeysUsed /\ FromServerInv /\ FromClientInv /\ ToClientInv /\ SameKey

LEMMA OneReplyTail ==
    ASSUME NEW q \in Seq(Message), q # <<>>, OneReply(q)
    PROVE  /\ OneReply(Tail(q))
           /\ Head(q).type = "mcp" => \A m \in Elements(Tail(q)) : m.type # "mcp"
<1>1. /\ Len(q) \in Nat \ {0} /\ Head(q) = q[1] /\ Len(Tail(q)) = Len(q) - 1
      /\ \A i \in 1 .. Len(Tail(q)) : Tail(q)[i] = q[i + 1]
  BY EmptySeq, HeadTailProperties
<1>2. \A i \in 1 .. Len(Tail(q)) : i + 1 \in 1 .. Len(q) /\ i + 1 # 1
  BY <1>1
<1>3. OneReply(Tail(q))
  <2> SUFFICES ASSUME NEW i \in 1 .. Len(Tail(q)), NEW j \in 1 .. Len(Tail(q)),
                      Tail(q)[i].type = "mcp", Tail(q)[j].type = "mcp"
               PROVE  i = j
    BY DEF OneReply
  <2>1. i + 1 = j + 1
    BY <1>1, <1>2 DEF OneReply
  <2>2. QED
    BY <1>1, <2>1
<1>4. ASSUME Head(q).type = "mcp", NEW m \in Elements(Tail(q))
      PROVE  m.type # "mcp"
  <2>1. PICK i \in 1 .. Len(Tail(q)) : m = Tail(q)[i]
    BY DEF Elements
  <2>2. 1 \in 1 .. Len(q) /\ i + 1 \in 1 .. Len(q) /\ i + 1 # 1 /\ m = q[i + 1]
    BY <1>1, <1>2, <2>1
  <2>3. QED
    BY <1>1, <1>4, <2>2 DEF OneReply
<1>5. QED
  BY <1>3, <1>4

LEMMA OneReplyMore ==
    ASSUME NEW q \in Seq(Message), NEW a \in Message, NEW b \in Message,
           \A m \in Elements(q) : m.type # "mcp", b.type # "mcp"
    PROVE  OneReply(q \o <<a, b>>)
<1>1. Len(q) \in Nat /\ \A i \in 1 .. Len(q) : q[i].type # "mcp"
  BY LenProperties DEF Elements
<1> DEFINE r == <<a, b>>
<1>2. r \in Seq(Message) /\ Len(r) = 2 /\ r[1] = a /\ r[2] = b
  BY OneMessage
<1> HIDE DEF r
<1>3. /\ Len(q \o r) = Len(q) + 2
      /\ \A i \in 1 .. Len(q) + 2 : (q \o r)[i] = IF i <= Len(q) THEN q[i] ELSE r[i - Len(q)]
  <2>1. /\ Len(q \o r) = Len(q) + Len(r)
        /\ \A i \in 1 .. Len(q) + Len(r) :
              (q \o r)[i] = IF i <= Len(q) THEN q[i] ELSE r[i - Len(q)]
    BY <1>2, ConcatProperties
  <2>2. QED
    BY <1>2, <2>1
<1>4. ASSUME NEW i \in 1 .. Len(q) + 2, (q \o r)[i].type = "mcp"
      PROVE  i = Len(q) + 1
  <2>1. CASE i <= Len(q)
    BY <1>1, <1>3, <1>4, <2>1
  <2>2. CASE i = Len(q) + 2
    <3>1. ~(i <= Len(q)) /\ i - Len(q) = 2
      BY <1>1, <2>2
    <3>2. (q \o r)[i] = b
      BY <1>2, <1>3, <3>1
    <3>3. QED
      BY <1>4, <3>2
  <2>3. QED
    BY <1>1, <2>1, <2>2
<1>5. OneReply(q \o r)
  BY <1>1, <1>3, <1>4 DEF OneReply
<1>6. QED
  BY <1>5, Zenon DEF r

LEMMA OneReplyEmpty == OneReply(<<>>)
  BY DEF OneReply

LEMMA ServerLineClient ==
    ASSUME TypeOK, ClientInv, ServerLine
    PROVE  ClientInv'
<1> DEFINE message == Head(from_server)
<1>1. /\ message \in Message /\ Elements(from_server) = {message} \union Elements(Tail(from_server))
      /\ from_server' = Tail(from_server)
  BY ElementsTail DEF TypeOK, ServerLine
<1>2. to_client' = Queued(to_client, client_up, <<message>>)
  BY DEF ServerLine
<1>3. message.type = "mcp"
  BY <1>1 DEF ClientInv, FromServerInv
<1> HIDE DEF message
<1>4. to_client \in Seq(Message) /\ client_up \in BOOLEAN
  BY DEF TypeOK
<1>5. Elements(Queued(to_client, client_up, <<message>>)) \subseteq Elements(to_client) \union {message}
  BY <1>1, <1>4, QueuedOne, Zenon
<1>6. Elements(to_client') \subseteq Elements(to_client) \union {message}
  BY <1>2, <1>5
<1>7. UNCHANGED <<mcp_key, client_key, keys, from_client, server_up, client_up>>
  BY DEF ServerLine
<1>8. KeysUsed' /\ FromClientInv' /\ SameKey'
  BY <1>7 DEF ClientInv, KeysUsed, FromClientInv, SameKey, OneReply, Elements
<1>9. FromServerInv'
  BY <1>1 DEF ClientInv, FromServerInv
<1>10. ToClientInv'
  BY <1>3, <1>6, <1>7 DEF ClientInv, ToClientInv
<1>11. QED
  BY <1>8, <1>9, <1>10 DEF ClientInv

LEMMA ClientLineClient ==
    ASSUME TypeOK, ClientInv, ClientLine
    PROVE  ClientInv'
<1> DEFINE message == Head(from_client)
           rest == Elements(Tail(from_client))
<1>1. /\ message \in Message /\ Elements(from_client) = {message} \union rest
      /\ from_client' = Tail(from_client) /\ Tail(from_client) \in Seq(Message)
  BY ElementsTail DEF TypeOK, ClientLine
<1>2. /\ OneReply(from_client')
      /\ message.type = "mcp" => \A m \in rest : m.type # "mcp"
  BY <1>1, OneReplyTail DEF ClientInv, FromClientInv, TypeOK, ClientLine
<1>3. Elements(from_client') = rest
  BY <1>1
<1>4. /\ message.type \in {"mcp", "can"} /\ message.key \in Nat /\ message.key <= keys
      /\ message.type = "mcp" => message.key = client_key /\ message.key # mcp_key
  BY <1>1 DEF ClientInv, FromClientInv
<1>5. ClientNegotiates(message) \/ ClientRelayed(message)
  BY DEF ClientLine
<1> HIDE DEF message, rest
<1>6. UNCHANGED <<client_key, keys, from_server, server_up, client_up>>
  BY DEF ClientLine
<1>7. mcp_key' = mcp_key \/ (message.type = "mcp" /\ mcp_key' = message.key)
  BY <1>5 DEF ClientNegotiates, ClientRelayed, KeyAfter
<1>8. \A m \in Elements(to_client') : m.type = "reset" => m \in Elements(to_client)
  <2>1. Can(mcp_key) \in Message /\ Can(mcp_key).type = "can"
    BY MessageTypes DEF TypeOK, Can
  <2>2. Elements(Append(to_client, Can(mcp_key))) = Elements(to_client) \union {Can(mcp_key)}
    BY <2>1, ElementsAppend DEF TypeOK
  <2>3. to_client' = to_client \/ to_client' = Append(to_client, Can(mcp_key))
    BY <1>5 DEF ClientNegotiates, ClientRelayed
  <2>4. QED
    BY <2>1, <2>2, <2>3
<1>9. KeysUsed'
  BY <1>4, <1>6, <1>7 DEF ClientInv, KeysUsed
<1>10. FromServerInv'
  BY <1>6 DEF ClientInv, FromServerInv
<1>11. FromClientInv'
  BY <1>1, <1>2, <1>3, <1>4, <1>6, <1>7 DEF ClientInv, FromClientInv
<1>12. ToClientInv'
  BY <1>1, <1>3, <1>4, <1>6, <1>7, <1>8 DEF ClientInv, ToClientInv
<1>13. SameKey'
  BY <1>4, <1>6, <1>7 DEF ClientInv, SameKey
<1>14. QED
  BY <1>9, <1>10, <1>11, <1>12, <1>13 DEF ClientInv

LEMMA ServerConnectsClient ==
    ASSUME TypeOK, ClientInv, ServerConnects
    PROVE  ClientInv'
<1>1. UNCHANGED <<client_key, keys, from_client>> /\ mcp_key' = NULL
  BY DEF ServerConnects, Forget
<1>2. Handshake \in Message /\ Handshake.type = "mcp" /\ from_server' = <<Handshake>>
  BY MessageTypes DEF Handshake, ServerConnects
<1>3. Elements(from_server') = {Handshake}
  BY <1>2, OneMessage
<1>4. /\ mcp_key = NULL => Elements(to_client') = Elements(to_client)
      /\ mcp_key # NULL =>
            Elements(to_client') \subseteq Elements(to_client) \union {Can(mcp_key), Reset(mcp_key)}
  <2>1. /\ ResetMessages \in Seq(Message)
        /\ Elements(ResetMessages) \subseteq {Can(mcp_key), Reset(mcp_key)}
    BY ResetMessagesType DEF TypeOK
  <2>2. Elements(Queued(to_client, client_up, ResetMessages))
           \subseteq Elements(to_client) \union Elements(ResetMessages)
    BY <2>1, QueuedType DEF TypeOK
  <2>3. QED
    BY <2>1, <2>2 DEF ServerConnects
<1>5. KeysUsed' /\ FromServerInv' /\ SameKey'
  BY <1>1, <1>2, <1>3 DEF ClientInv, KeysUsed, FromServerInv, SameKey
<1>6. FromClientInv'
  BY <1>1 DEF ClientInv, FromClientInv
<1>7. ToClientInv'
  <2> SUFFICES ASSUME NEW m \in Elements(to_client'), m.type = "reset"
               PROVE  /\ m.key \in Nat /\ m.key <= keys /\ m.key # NULL
                      /\ \A r \in Elements(from_client) : r.type = "mcp" => r.key # m.key
    BY <1>1 DEF ToClientInv
  <2>1. CASE m \in Elements(to_client)
    BY <2>1 DEF ClientInv, ToClientInv
  <2>2. CASE mcp_key # NULL /\ m = Reset(mcp_key)
    BY <2>2 DEF ClientInv, KeysUsed, FromClientInv, Reset, TypeOK, Key
  <2>3. CASE m = Can(mcp_key)
    BY <2>3 DEF Can
  <2>4. QED
    BY <1>4, <2>1, <2>2, <2>3
<1>8. QED
  BY <1>5, <1>6, <1>7 DEF ClientInv

LEMMA ClientConnectsClient ==
    ASSUME TypeOK, ClientInv, NEW left \in Seq(Message), ClientConnects(left),
           Elements(left) \subseteq Elements(to_client)
    PROVE  ClientInv'
<1>1. UNCHANGED <<keys, from_server, server_up>> /\ client_key' = NULL /\ from_client' = <<>>
  BY DEF ClientConnects
<1>2. mcp_key' = NULL \/ (mcp_key' = mcp_key /\ ~server_up)
  BY DEF ClientConnects, Forget, mcp
<1>3. \A m \in Elements(to_client') : m.type = "reset" => m \in Elements(to_client)
  <2>1. Handshake \in Message /\ Handshake.type = "mcp"
    BY MessageTypes DEF Handshake
  <2>2. Elements(left \o <<Handshake>>) = Elements(left) \union {Handshake}
    BY <2>1, ElementsMore
  <2>3. left \o <<>> = left
    BY ConcatEmptySeq
  <2>4. to_client' = left \/ to_client' = left \o <<>> \/ to_client' = left \o <<Handshake>>
    BY DEF ClientConnects
  <2>5. QED
    BY <2>1, <2>2, <2>3, <2>4
<1>4. Elements(from_client') = {} /\ OneReply(from_client')
  BY <1>1, ElementsEmpty, OneReplyEmpty
<1>5. KeysUsed' /\ FromServerInv' /\ SameKey'
  BY <1>1, <1>2 DEF ClientInv, KeysUsed, FromServerInv, SameKey
<1>6. FromClientInv'
  BY <1>4 DEF FromClientInv
<1>7. ToClientInv'
  BY <1>1, <1>2, <1>3, <1>4 DEF ClientInv, ToClientInv
<1>8. QED
  BY <1>5, <1>6, <1>7 DEF ClientInv

LEMMA ClientReadsClient ==
    ASSUME TypeOK, ClientInv, ClientReads
    PROVE  ClientInv'
<1> DEFINE message == Head(to_client)
           rest == Elements(Tail(to_client))
<1>1. /\ message \in Message /\ Elements(to_client) = {message} \union rest
      /\ to_client' = Tail(to_client)
  BY ElementsTail DEF TypeOK, ClientReads
<1>2. Elements(to_client') = rest
  BY <1>1
<1>3. UNCHANGED <<mcp_key, from_server, server_up, client_up>>
  BY DEF ClientReads, mcp, serverside
<1>4. FromServerInv'
  BY <1>3 DEF ClientInv, FromServerInv
<1>5. CASE UNCHANGED <<keys, client_key, from_client>>
  <2>1. KeysUsed' /\ SameKey'
    BY <1>3, <1>5 DEF ClientInv, KeysUsed, SameKey
  <2>2. FromClientInv'
    BY <1>3, <1>5 DEF ClientInv, FromClientInv
  <2>3. ToClientInv'
    BY <1>1, <1>2, <1>3, <1>5 DEF ClientInv, ToClientInv
  <2>4. QED
    BY <1>4, <2>1, <2>2, <2>3 DEF ClientInv
<1>6. CASE /\ client_key = NULL /\ keys' = keys + 1 /\ client_key' = keys'
           /\ from_client' = from_client \o <<Reply(keys'), Can(keys')>>
  <2>1. keys \in Nat /\ keys + 1 \in Nat /\ keys + 1 \in Key /\ keys + 1 # NULL
    BY DEF TypeOK, Key
  <2> DEFINE a == Reply(keys + 1)
             b == Can(keys + 1)
  <2>2. /\ a \in Message /\ a.type = "mcp" /\ a.key = keys + 1
        /\ b \in Message /\ b.type = "can" /\ b.key = keys + 1
    BY <2>1, MessageTypes DEF Reply, Can
  <2>3. \A m \in Elements(from_client) : m.type # "mcp"
    BY <1>6 DEF ClientInv, FromClientInv
  <2>4. from_client' = from_client \o <<a, b>>
    BY <1>6
  <2> HIDE DEF a, b
  <2>q. from_client \in Seq(Message)
    BY DEF TypeOK
  <2>r. a \in Message /\ b \in Message
    BY <2>2
  <2>m. Elements(from_client \o <<a, b>>) = Elements(from_client) \union {a, b}
    BY <2>q, <2>r, ElementsPair, Zenon
  <2>5. Elements(from_client') = Elements(from_client) \union {a, b}
    BY <2>4, <2>m, Zenon
  <2>6. OneReply(from_client')
    BY <2>2, <2>3, <2>4, OneReplyMore DEF TypeOK
  <2>7. KeysUsed'
    BY <1>3, <1>6, <2>1 DEF ClientInv, KeysUsed, TypeOK, Key
  <2>8. SameKey'
    BY <1>3, <1>6 DEF ClientInv, SameKey
  <2>9. FromClientInv'
    <3> SUFFICES ASSUME NEW m \in Elements(from_client')
                 PROVE  /\ m.type \in {"mcp", "can"} /\ m.key \in Nat /\ m.key <= keys'
                        /\ m.type = "mcp" => m.key = client_key' /\ m.key # mcp_key'
      BY <2>6 DEF FromClientInv
    <3>1. CASE m \in Elements(from_client)
      BY <1>6, <2>1, <2>3, <3>1 DEF ClientInv, FromClientInv
    <3>2. CASE m = a
      <4>1. mcp_key # keys + 1
        BY <2>1 DEF ClientInv, KeysUsed, TypeOK, Key
      <4>2. QED
        BY <1>3, <1>6, <2>1, <2>2, <3>2, <4>1
    <3>3. CASE m = b
      BY <1>6, <2>1, <2>2, <3>3
    <3>4. QED
      BY <2>5, <3>1, <3>2, <3>3
  <2>10. ToClientInv'
    <3> SUFFICES ASSUME NEW m \in rest, m.type = "reset"
                 PROVE  /\ m.key \in Nat /\ m.key <= keys + 1 /\ m.key # mcp_key
                        /\ \A r \in Elements(from_client') : r.type = "mcp" => r.key # m.key
      BY <1>2, <1>3, <1>6 DEF ToClientInv
    <3>1. m.key \in Nat /\ m.key <= keys /\ m.key # mcp_key
      BY <1>1 DEF ClientInv, ToClientInv
    <3>2. \A r \in Elements(from_client') : r.type = "mcp" => r.key = keys + 1
      BY <2>2, <2>3, <2>5
    <3>3. QED
      BY <2>1, <3>1, <3>2
  <2>11. QED
    BY <1>4, <2>7, <2>8, <2>9, <2>10 DEF ClientInv
<1>7. CASE /\ message.type = "reset" /\ message.key = client_key
           /\ client_key' = NULL /\ UNCHANGED <<keys, from_client>>
  <2>1. \A m \in Elements(from_client) : m.type # "mcp"
    BY <1>1, <1>7 DEF ClientInv, FromClientInv, ToClientInv
  <2>2. ~(server_up /\ client_up /\ mcp_key # NULL)
    BY <1>1, <1>7 DEF ClientInv, ToClientInv, SameKey
  <2>3. KeysUsed' /\ SameKey'
    BY <1>3, <1>7, <2>2 DEF ClientInv, KeysUsed, SameKey
  <2>4. FromClientInv'
    BY <1>3, <1>7, <2>1 DEF ClientInv, FromClientInv
  <2>5. ToClientInv'
    BY <1>1, <1>2, <1>3, <1>7 DEF ClientInv, ToClientInv
  <2>6. QED
    BY <1>4, <2>3, <2>4, <2>5 DEF ClientInv
<1>8. QED
  BY <1>5, <1>6, <1>7 DEF ClientReads

LEMMA ClientStep == TypeOK /\ ClientInv /\ [Next]_vars => ClientInv'
<1> SUFFICES ASSUME TypeOK, ClientInv, [Next]_vars PROVE ClientInv'
  OBVIOUS
<1>1. CASE ServerLine
  BY <1>1, ServerLineClient
<1>2. CASE ClientLine
  BY <1>2, ClientLineClient
<1>3. CASE ServerConnects
  BY <1>3, ServerConnectsClient
<1>4. CASE ServerLost
  <2>1. UNCHANGED <<mcp_key, keys, client_key, from_client, to_client, client_up>>
    BY <1>4 DEF ServerLost, mcp, clientside
  <2>2. server_up' = FALSE /\ Elements(from_server') = {}
    BY <1>4, ElementsEmpty DEF ServerLost
  <2>3. QED
    BY <2>1, <2>2
       DEF ClientInv, KeysUsed, FromServerInv, FromClientInv, ToClientInv, SameKey
<1>5. CASE NewClient
  BY <1>5, ElementsEmpty, EmptySeq, ClientConnectsClient DEF NewClient
<1>6. CASE TakeOver
  <2>1. PICK n \in 0 .. Len(to_client) : ClientConnects(Beyond(to_client, n))
    BY <1>6 DEF TakeOver
  <2>2. /\ Beyond(to_client, n) \in Seq(Message)
        /\ Elements(Beyond(to_client, n)) \subseteq Elements(to_client)
    BY ElementsBeyond DEF TypeOK
  <2>3. QED
    BY <2>1, <2>2, ClientConnectsClient
<1>7. CASE ClientLost
  <2>1. UNCHANGED <<mcp_key, keys, from_server, server_up>>
    BY <1>7 DEF ClientLost, mcp, serverside
  <2>2. /\ client_up' = FALSE /\ client_key' = NULL /\ OneReply(from_client')
        /\ Elements(from_client') = {} /\ Elements(to_client') = {}
    BY <1>7, ElementsEmpty, OneReplyEmpty DEF ClientLost
  <2>3. QED
    BY <2>1, <2>2
       DEF ClientInv, KeysUsed, FromServerInv, FromClientInv, ToClientInv, SameKey
<1>8. CASE ServerReads
  <2>1. UNCHANGED <<mcp_key, keys, client_key, from_client, to_client, client_up, server_up>>
    BY <1>8 DEF ServerReads, mcp, clientside
  <2>2. from_server' = from_server \/ from_server' = Append(from_server, Handshake)
    BY <1>8 DEF ServerReads
  <2>3. Handshake \in Message /\ Handshake.type = "mcp"
    BY MessageTypes DEF Handshake
  <2>4. Elements(Append(from_server, Handshake)) = Elements(from_server) \union {Handshake}
    BY <2>3, ElementsAppend DEF TypeOK
  <2>5. FromServerInv'
    BY <2>2, <2>3, <2>4 DEF ClientInv, FromServerInv
  <2>6. QED
    BY <2>1, <2>5 DEF ClientInv, KeysUsed, FromClientInv, ToClientInv, SameKey
<1>9. CASE ClientReads
  BY <1>9, ClientReadsClient
<1>10. CASE UNCHANGED vars
  BY <1>10 DEF vars, mcp, serverside, clientside, counts,
               ClientInv, KeysUsed, FromServerInv, FromClientInv, ToClientInv, SameKey
<1>11. QED
  BY <1>1, <1>2, <1>3, <1>4, <1>5, <1>6, <1>7, <1>8, <1>9, <1>10
     DEF Next, Relay, Connections, Peers

-----------------------------------------------------------------------------
(* The session that the server will have is the one that mooproxy knows.   *)

ServerState == [key |-> server_key, knows |-> server_knows]
HandshakeComes == \E m \in Elements(from_server) : m.type = "mcp"

\* What mooproxy knows of the session e, which the server will have when it
\* has read its queue; p says whether it will have greeted again by then.
KnowsSession(e, p) ==
    /\ e.key = mcp_key
    /\ mcp_negotiated => e.knows /\ mcp_key # NULL
    /\ mcp_initmsg \/ mcp_key # NULL \/ HandshakeComes \/ p

ServerInv ==
    /\ server_up => \E e \in Session, p \in BOOLEAN :
                       Reaches(to_server, ServerState, e, p) /\ KnowsSession(e, p)
    /\ ~server_up => ServerState = NoSession

LEMMA StateType == ASSUME TypeOK PROVE ServerState \in Session
  BY DEF TypeOK, ServerState, Session

\* One message more for the server, which is not one of the handshakes.
LEMMA ReachesCan ==
    ASSUME NEW q \in Seq(Message), NEW k \in Key, NEW s, NEW e \in Session, NEW p \in BOOLEAN,
           Reaches(q, s, e, p)
    PROVE  /\ k # e.key => Reaches(Append(q, Can(k)), s, e, p)
           /\ k = e.key => Reaches(Append(q, Can(k)), s, [key |-> k, knows |-> TRUE], p)
<1>1. Can(k) \in Message /\ Can(k).type = "can" /\ Can(k).key = k
  BY MessageTypes DEF Can
<1>2. Reaches(Append(q, Can(k)), s, After(e, Can(k)), p \/ Effective(e, Can(k)))
  BY <1>1, ReachesAppend
<1>3. ~Effective(e, Can(k))
  BY <1>1 DEF Effective
<1>4. (p \/ Effective(e, Can(k))) = p
  BY <1>3
<1>5. Reaches(Append(q, Can(k)), s, After(e, Can(k)), p)
  BY <1>2, <1>4
<1>6. k # e.key => After(e, Can(k)) = e
  BY <1>1, <1>3 DEF After
<1>7. k = e.key => After(e, Can(k)) = [key |-> k, knows |-> TRUE]
  BY <1>1 DEF After
<1>8. QED
  BY <1>5, <1>6, <1>7

\* What world_mcp_client_connect() sends ends the session of the server.
LEMMA ReachesReset ==
    ASSUME TypeOK, mcp_key # NULL, NEW s, NEW e \in Session, NEW p \in BOOLEAN,
           Reaches(to_server, s, e, p), e.key = mcp_key, mcp_negotiated => e.knows
    PROVE  Reaches(to_server \o ResetMessages, s, NoSession, TRUE)
<1>1. /\ to_server \in Seq(Message) /\ mcp_key \in Key
      /\ Can(mcp_key) \in Message /\ Reset(mcp_key) \in Message
      /\ Reset(mcp_key).type = "reset" /\ Reset(mcp_key).key = mcp_key
  BY MessageTypes DEF TypeOK, Reset
<1>2. ASSUME NEW q \in Seq(Message), NEW f \in Session, Reaches(q, s, f, p),
             f.key = mcp_key, f.knows
      PROVE  Reaches(Append(q, Reset(mcp_key)), s, NoSession, TRUE)
  <2>1. Effective(f, Reset(mcp_key))
    BY <1>1, <1>2 DEF Effective
  <2>2. After(f, Reset(mcp_key)) = NoSession
    BY <1>1, <2>1 DEF After
  <2>3. (p \/ Effective(f, Reset(mcp_key))) = TRUE
    BY <2>1
  <2>4. Reaches(Append(q, Reset(mcp_key)), s, After(f, Reset(mcp_key)),
                p \/ Effective(f, Reset(mcp_key)))
    BY <1>1, <1>2, ReachesAppend
  <2>5. QED
    BY <2>2, <2>3, <2>4
<1>3. CASE mcp_negotiated
  <2>1. to_server \o ResetMessages = Append(to_server, Reset(mcp_key))
    BY <1>1, <1>3, ElementsMore DEF ResetMessages
  <2>2. QED
    BY <1>1, <1>2, <1>3, <2>1
<1>4. CASE ~mcp_negotiated
  <2> DEFINE a == Can(mcp_key)
             b == Reset(mcp_key)
  <2>1. to_server \o ResetMessages = to_server \o <<a, b>>
    BY <1>4 DEF ResetMessages
  <2>2. a \in Message /\ b \in Message
    BY <1>1
  <2>3. to_server \o <<a, b>> = Append(Append(to_server, a), b)
    <3> HIDE DEF a, b
    <3>1. QED
      BY <1>1, <2>2, ElementsMore, Zenon
  <2>4. /\ [key |-> mcp_key, knows |-> TRUE] \in Session
        /\ Append(to_server, a) \in Seq(Message)
    <3>1. [key |-> mcp_key, knows |-> TRUE] \in Session
      BY <1>1 DEF Session
    <3> HIDE DEF a
    <3>2. Append(to_server, a) \in Seq(Message)
      BY <1>1, <2>2, ElementsAppend
    <3>3. QED
      BY <3>1, <3>2
  <2>5. Reaches(Append(to_server, a), s, [key |-> mcp_key, knows |-> TRUE], p)
    BY <1>1, ReachesCan
  <2>6. Reaches(Append(Append(to_server, a), b), s, NoSession, TRUE)
    BY <1>2, <2>4, <2>5
  <2>7. QED
    BY <2>1, <2>3, <2>6, Zenon
<1>5. QED
  BY <1>3, <1>4

LEMMA ServerLineServer ==
    ASSUME TypeOK, ServerInv, ServerLine
    PROVE  ServerInv'
<1> DEFINE message == Head(from_server)
<1>1. /\ Elements(from_server) = {message} \union Elements(Tail(from_server))
      /\ from_server' = Tail(from_server)
  BY ElementsTail DEF TypeOK, ServerLine
<1>2. mcp_initmsg' = (mcp_initmsg \/ message.type = "mcp")
  BY DEF ServerLine
<1> HIDE DEF message
<1>3. /\ UNCHANGED <<mcp_negotiated, mcp_key, server_up, to_server, server_key, server_knows>>
      /\ server_up
  BY DEF ServerLine
<1>4. PICK e \in Session, p \in BOOLEAN :
         Reaches(to_server, ServerState, e, p) /\ KnowsSession(e, p)
  BY <1>3 DEF ServerInv
<1>5. HandshakeComes => message.type = "mcp" \/ HandshakeComes'
  BY <1>1 DEF HandshakeComes
<1>6. KnowsSession(e, p)'
  BY <1>2, <1>3, <1>4, <1>5 DEF KnowsSession
<1>7. ServerState' = ServerState
  BY <1>3 DEF ServerState
<1>8. QED
  BY <1>3, <1>4, <1>6, <1>7 DEF ServerInv

LEMMA ClientLineServer ==
    ASSUME TypeOK, ClientInv, ServerInv, ClientLine
    PROVE  ServerInv'
<1> DEFINE message == Head(from_client)
<1>1. message \in Message /\ message \in Elements(from_client)
  BY ElementsTail DEF TypeOK, ClientLine
<1>2. /\ message.type \in {"mcp", "can"} /\ message.key \in Nat
      /\ message.type = "mcp" => message.key = client_key /\ message.key # mcp_key
  BY <1>1 DEF ClientInv, FromClientInv
<1>3. /\ UNCHANGED <<mcp_initmsg, server_up, from_server, server_key, server_knows>>
      /\ client_up
  BY DEF ClientLine
<1>4. ClientNegotiates(message) \/ ClientRelayed(message)
  BY DEF ClientLine
<1> HIDE DEF message
<1>5. ServerState' = ServerState /\ HandshakeComes' = HandshakeComes
  BY <1>3 DEF ServerState, HandshakeComes
<1>6. CASE ~server_up
  BY <1>3, <1>5, <1>6 DEF ServerInv
<1>7. CASE server_up
  <2>1. PICK e \in Session, p \in BOOLEAN :
           Reaches(to_server, ServerState, e, p) /\ KnowsSession(e, p)
    BY <1>7 DEF ServerInv
  <2>2. message.type = "mcp" => mcp_key = NULL /\ ~mcp_negotiated
    BY <1>2, <1>3, <1>7, <2>1 DEF ClientInv, SameKey, KnowsSession
  <2>3. to_server \in Seq(Message) /\ mcp_key \in Key
    BY DEF TypeOK
  <2>4. /\ to_server \o <<message>> = Append(to_server, message)
        /\ Append(to_server, message) \in Seq(Message)
    BY <1>1, <2>3, ElementsMore, ElementsAppend
  <2>5. SUFFICES \E f \in Session, r \in BOOLEAN :
                    Reaches(to_server', ServerState, f, r) /\ KnowsSession(f, r)'
    BY <1>3, <1>5, <1>7 DEF ServerInv
  <2>6. CASE message.type = "mcp"
    <3>1. mcp_key' = message.key /\ ~mcp_negotiated'
      BY <1>2, <1>4, <2>2, <2>6 DEF ClientNegotiates, ClientRelayed, KeyAfter
    <3>2. to_server' = Append(to_server, message)
      BY <1>4, <1>7, <2>2, <2>4, <2>6 DEF ClientNegotiates, ClientRelayed, Queued
    <3>3. After(e, message) = [key |-> message.key, knows |-> FALSE]
      BY <2>1, <2>2, <2>6 DEF After, KnowsSession
    <3>4. ~Effective(e, message)
      BY <2>6 DEF Effective
    <3>5. (p \/ Effective(e, message)) = p
      BY <3>4
    <3>6. Reaches(Append(to_server, message), ServerState, After(e, message),
                  p \/ Effective(e, message))
      BY <1>1, <2>1, <2>3, ReachesAppend
    <3>7. Reaches(to_server', ServerState, After(e, message), p)
      BY <3>2, <3>5, <3>6
    <3>8. After(e, message) \in Session /\ message.key # NULL
      BY <1>1, <1>2, AfterType
    <3>9. PICK f \in Session : f = After(e, message)
      BY <3>8
    <3>10. KnowsSession(f, p)'
      BY <3>1, <3>3, <3>8, <3>9 DEF KnowsSession
    <3>11. QED
      BY <3>7, <3>9, <3>10
  <2>7. CASE message.type = "can"
    <3>1. message = Can(message.key) /\ message.key \in Key
      BY <1>1, <2>7 DEF Can, Message
    <3>2. PICK f \in Session :
             /\ Reaches(Append(to_server, message), ServerState, f, p)
             /\ f.key = e.key /\ (e.knows => f.knows)
      <4>1. CASE message.key = e.key
        <5>1. [key |-> message.key, knows |-> TRUE] \in Session
          BY <3>1 DEF Session
        <5>2. Reaches(Append(to_server, message), ServerState,
                      [key |-> message.key, knows |-> TRUE], p)
          BY <2>1, <2>3, <3>1, <4>1, ReachesCan
        <5>3. QED
          BY <4>1, <5>1, <5>2
      <4>2. CASE message.key # e.key
        BY <2>1, <2>3, <3>1, <4>2, ReachesCan
      <4>3. QED
        BY <4>1, <4>2
    <3>3. CASE ~mcp_negotiated /\ mcp_key # NULL
      <4> DEFINE answer == Can(mcp_key)
      <4>1. to_server' = to_server \o <<message, answer>> /\ mcp_key' = mcp_key
        BY <1>4, <1>7, <2>7, <3>3
           DEF ClientNegotiates, ClientRelayed, KeyAfter, Queued
      <4>2. answer \in Message
        BY <2>3, MessageTypes
      <4>3. to_server \o <<message, answer>> = Append(Append(to_server, message), answer)
        <5> HIDE DEF answer
        <5>1. QED
          BY <1>1, <2>3, <4>2, ElementsMore, Zenon
      <4>4. f.key = mcp_key
        BY <2>1, <3>2 DEF KnowsSession
      <4>5. Reaches(Append(Append(to_server, message), answer), ServerState,
                    [key |-> mcp_key, knows |-> TRUE], p)
        BY <2>3, <2>4, <3>2, <4>4, ReachesCan
      <4>6. [key |-> mcp_key, knows |-> TRUE] \in Session
        BY <2>3 DEF Session
      <4>7. PICK g \in Session : g = [key |-> mcp_key, knows |-> TRUE]
        BY <4>6
      <4>8. KnowsSession(g, p)'
        BY <3>3, <4>1, <4>7 DEF KnowsSession
      <4>9. Reaches(to_server', ServerState, g, p)
        BY <4>1, <4>3, <4>5, <4>7, Zenon
      <4>10. QED
        BY <4>8, <4>9
    <3>4. CASE mcp_negotiated \/ mcp_key = NULL
      <4>1. /\ to_server' = Append(to_server, message)
            /\ UNCHANGED <<mcp_key, mcp_negotiated>>
        BY <1>4, <1>7, <2>4, <2>7, <3>4
           DEF ClientNegotiates, ClientRelayed, KeyAfter, Queued
      <4>2. KnowsSession(f, p)'
        BY <1>3, <1>5, <2>1, <3>2, <4>1 DEF KnowsSession
      <4>3. QED
        BY <3>2, <4>1, <4>2
    <3>5. QED
      BY <3>3, <3>4
  <2>8. QED
    BY <1>2, <2>6, <2>7
<1>8. QED
  BY <1>6, <1>7 DEF TypeOK

LEMMA ServerConnectsServer ==
    ASSUME TypeOK, ServerInv, ServerConnects
    PROVE  ServerInv'
<1>1. /\ to_server' = <<>> /\ server_up' /\ ServerState' = NoSession
      /\ mcp_key' = NULL /\ ~mcp_negotiated'
  BY DEF TypeOK, ServerInv, ServerConnects, Forget, ServerState
<1>2. NoSession \in Session
  BY DEF NoSession, Session, Key
<1>3. Handshake \in Message /\ Handshake.type = "mcp" /\ from_server' = <<Handshake>>
  BY MessageTypes DEF Handshake, ServerConnects
<1>4. Elements(from_server') = {Handshake}
  BY <1>3, OneMessage
<1>5. HandshakeComes'
  BY <1>3, <1>4 DEF HandshakeComes
<1>6. KnowsSession(NoSession, FALSE)'
  BY <1>1, <1>5 DEF KnowsSession, NoSession
<1>7. Reaches(to_server', ServerState', NoSession, FALSE)
  BY <1>1, <1>2, ReachesEmpty
<1>8. QED
  BY <1>1, <1>2, <1>6, <1>7 DEF ServerInv

LEMMA ClientConnectsServer ==
    ASSUME TypeOK, ServerInv, NEW left \in Seq(Message), ClientConnects(left)
    PROVE  ServerInv'
<1>1. UNCHANGED <<server_up, from_server, server_key, server_knows>>
  BY DEF ClientConnects
<1>2. ServerState' = ServerState /\ HandshakeComes' = HandshakeComes
  BY <1>1 DEF ServerState, HandshakeComes
<1>3. CASE ~server_up
  BY <1>1, <1>2, <1>3 DEF ServerInv
<1>4. CASE server_up /\ mcp_key = NULL
  <2>1. UNCHANGED <<mcp_key, mcp_negotiated, mcp_initmsg, to_server>>
    BY <1>4 DEF ClientConnects, mcp
  <2>2. QED
    BY <1>1, <1>2, <1>4, <2>1 DEF ServerInv, KnowsSession
<1>5. CASE server_up /\ mcp_key # NULL
  <2>1. PICK e \in Session, p \in BOOLEAN :
           Reaches(to_server, ServerState, e, p) /\ KnowsSession(e, p)
    BY <1>5 DEF ServerInv
  <2>2. to_server' = to_server \o ResetMessages /\ mcp_key' = NULL /\ ~mcp_negotiated'
    BY <1>5 DEF ClientConnects, Forget
  <2>3. Reaches(to_server', ServerState, NoSession, TRUE)
    BY <1>5, <2>1, <2>2, ReachesReset DEF KnowsSession
  <2>4. NoSession \in Session
    BY DEF NoSession, Session, Key
  <2>5. KnowsSession(NoSession, TRUE)'
    BY <2>2 DEF KnowsSession, NoSession
  <2>6. QED
    BY <1>1, <1>2, <1>5, <2>3, <2>4, <2>5 DEF ServerInv
<1>6. QED
  BY <1>3, <1>4, <1>5 DEF TypeOK

LEMMA ServerReadsServer ==
    ASSUME TypeOK, ServerInv, ServerReads
    PROVE  ServerInv'
<1> DEFINE message == Head(to_server)
<1>1. UNCHANGED <<mcp_key, mcp_negotiated, mcp_initmsg, server_up>> /\ server_up
  BY DEF ServerReads, mcp
<1>2. message \in Message /\ to_server \in Seq(Message) /\ to_server # <<>>
      /\ to_server' = Tail(to_server)
  BY ElementsTail DEF TypeOK, ServerReads
<1>3. PICK e \in Session, p \in BOOLEAN :
         Reaches(to_server, ServerState, e, p) /\ KnowsSession(e, p)
  BY <1>1 DEF ServerInv
<1>4. ServerState' = After(ServerState, message)
  BY DEF ServerReads, ServerState, After, Effective, NoSession, TypeOK
<1>p. PICK r \in BOOLEAN : r = (p /\ ~Effective(ServerState, message))
  BY DEF Effective
<1>5. Reaches(to_server', ServerState', e, r)
  BY <1>2, <1>3, <1>4, <1>p, ReachesTail
<1>6. (HandshakeComes => HandshakeComes') /\ (Effective(ServerState, message) => HandshakeComes')
  <2>1. Handshake \in Message /\ Handshake.type = "mcp"
    BY MessageTypes DEF Handshake
  <2>2. Elements(Append(from_server, Handshake)) = Elements(from_server) \union {Handshake}
    BY <2>1, ElementsAppend DEF TypeOK
  <2>3. /\ from_server' = from_server \/ from_server' = Append(from_server, Handshake)
        /\ Effective(ServerState, message) => from_server' = Append(from_server, Handshake)
    BY DEF ServerReads, Effective, ServerState
  <2>4. QED
    BY <2>1, <2>2, <2>3 DEF HandshakeComes
<1>7. KnowsSession(e, r)'
  <2>1. mcp_initmsg \/ mcp_key # NULL \/ HandshakeComes \/ p
    BY <1>3 DEF KnowsSession
  <2>2. e.key = mcp_key /\ (mcp_negotiated => e.knows /\ mcp_key # NULL)
    BY <1>3 DEF KnowsSession
  <2>3. p => r \/ HandshakeComes'
    BY <1>6, <1>p
  <2>4. QED
    BY <1>1, <1>6, <2>1, <2>2, <2>3 DEF KnowsSession
<1>8. QED
  BY <1>1, <1>5, <1>7 DEF ServerInv

LEMMA InitMcp == Init => ClientInv /\ ServerInv
<1> SUFFICES ASSUME Init PROVE ClientInv /\ ServerInv
  OBVIOUS
<1>1. /\ Elements(from_server) = {} /\ Elements(from_client) = {}
      /\ Elements(to_client) = {} /\ OneReply(from_client)
  BY ElementsEmpty, OneReplyEmpty DEF Init
<1>2. ClientInv
  BY <1>1 DEF Init, ClientInv, KeysUsed, FromServerInv, FromClientInv, ToClientInv, SameKey
<1>3. ServerInv
  BY DEF Init, ServerInv, ServerState, NoSession
<1>4. QED
  BY <1>2, <1>3

LEMMA ServerStep == TypeOK /\ ClientInv /\ ServerInv /\ [Next]_vars => ServerInv'
<1> SUFFICES ASSUME TypeOK, ClientInv, ServerInv, [Next]_vars PROVE ServerInv'
  OBVIOUS
<1>u. ASSUME UNCHANGED <<mcp, serverside>> PROVE ServerInv'
  BY <1>u DEF mcp, serverside, ServerInv, ServerState, KnowsSession, HandshakeComes
<1>1. CASE ServerLine
  BY <1>1, ServerLineServer
<1>2. CASE ClientLine
  BY <1>2, ClientLineServer
<1>3. CASE ServerConnects
  BY <1>3, ServerConnectsServer
<1>4. CASE ServerLost
  BY <1>4 DEF ServerLost, ServerInv, ServerState, NoSession
<1>5. CASE NewClient
  BY <1>5, EmptySeq, ClientConnectsServer DEF NewClient
<1>6. CASE TakeOver
  BY <1>6, ElementsBeyond, ClientConnectsServer DEF TakeOver, TypeOK
<1>7. CASE ClientLost
  BY <1>7, <1>u DEF ClientLost
<1>8. CASE ServerReads
  BY <1>8, ServerReadsServer
<1>9. CASE ClientReads
  BY <1>9, <1>u DEF ClientReads
<1>10. CASE UNCHANGED vars
  BY <1>10, <1>u DEF vars
<1>11. QED
  BY <1>1, <1>2, <1>3, <1>4, <1>5, <1>6, <1>7, <1>8, <1>9, <1>10
     DEF Next, Relay, Connections, Peers

LEMMA McpInvariant == Spec => [](TypeOK /\ ClientInv /\ ServerInv)
<1>1. Init => TypeOK /\ ClientInv /\ ServerInv
  BY InitType, InitMcp
<1>2. TypeOK /\ ClientInv /\ ServerInv /\ [Next]_vars => (TypeOK /\ ClientInv /\ ServerInv)'
  BY TypeStep, ClientStep, ServerStep
<1>3. QED
  BY <1>1, <1>2, PTL DEF Spec

\* Whatever clients and connections come and go, at any point of a handshake
\* or a reset: when the server has read everything, the key that mooproxy
\* would reset its session with is the key of that session.
THEOREM KeyIsKnown == Spec => []KeyIsServers
<1>1. TypeOK /\ ServerInv => KeyIsServers
  <2> SUFFICES ASSUME TypeOK, ServerInv, server_up, to_server = <<>>, mcp_key # NULL
               PROVE  mcp_key = server_key
    BY DEF KeyIsServers
  <2>1. PICK e \in Session, p \in BOOLEAN :
           Reaches(to_server, ServerState, e, p) /\ KnowsSession(e, p)
    BY DEF ServerInv
  <2>2. e = ServerState
    BY <2>1, StateType, ReachesEmpty
  <2>3. QED
    BY <2>1, <2>2 DEF KnowsSession, ServerState
<1>2. QED
  BY <1>1, McpInvariant, PTL

\* With a server that has read and said everything, mooproxy has a key to
\* reset the session with or a handshake for the next client: the state that
\* BUGS tells of is not reached with clients that leave resets to mooproxy.
THEOREM NotStuck == Spec => []NeverStuck
<1>1. TypeOK /\ ServerInv => NeverStuck
  <2> SUFFICES ASSUME TypeOK, ServerInv, server_up, to_server = <<>>, from_server = <<>>
               PROVE  mcp_key # NULL \/ mcp_initmsg
    BY DEF NeverStuck
  <2>1. PICK e \in Session, p \in BOOLEAN :
           Reaches(to_server, ServerState, e, p) /\ KnowsSession(e, p)
    BY DEF ServerInv
  <2>2. ~p
    BY <2>1, StateType, ReachesEmpty
  <2>3. ~HandshakeComes
    BY ElementsEmpty DEF HandshakeComes
  <2>4. QED
    BY <2>1, <2>2, <2>3 DEF KnowsSession
<1>2. QED
  BY <1>1, McpInvariant, PTL
=============================================================================
