--------------------------- MODULE AuthSlotsProofs ---------------------------
(***************************************************************************)
(* Proofs about AuthSlots, for every number of slots, every bucket, and    *)
(* every number of connections and strings.                                *)
(***************************************************************************)
EXTENDS AuthSlots, FiniteSetTheorems, SequenceTheorems, WellFoundedInduction, TLAPS

USE SlotsAssumption, BucketAssumption, BoundsAssumption, StringsAssumption

-----------------------------------------------------------------------------
(* Lemmas about the helpers of AuthSlots.                                  *)

\* What is left when an element is taken out of a sequence.
LEMMA WithoutProperties ==
    ASSUME NEW S, NEW q \in Seq(S), NEW i \in 1 .. Len(q)
    PROVE  /\ Without(q, i) \in Seq(S)
           /\ Len(Without(q, i)) = Len(q) - 1
           /\ \A k \in 1 .. Len(q) - 1 : Without(q, i)[k] = IF k < i THEN q[k] ELSE q[k + 1]
<1>1. Len(q) \in Nat \ {0} /\ \A k \in 1 .. Len(q) : q[k] \in S
  BY LenProperties, ElementOfSeq
<1>2. \A k \in 1 .. Len(q) - 1 : (IF k < i THEN q[k] ELSE q[k + 1]) \in S
  BY <1>1
<1>3. Without(q, i) \in [1 .. Len(q) - 1 -> S]
  BY <1>2 DEF Without
<1>4. QED
  BY <1>1, <1>3, SeqDef DEF Without

\* The first element of a set of numbers.
LEMMA FirstExists ==
    ASSUME NEW T, T \subseteq Nat, T # {}
    PROVE  \E x \in T : \A y \in T : ~ (y < x)
<1>1. PICK x \in T : \A y \in T : <<y, x>> \notin OpToRel(<, Nat)
  BY WFMin, NatLessThanWellFounded
<1>2. QED
  BY <1>1 DEF OpToRel

\* There are too few slots in use that are privileged, so one is not.
LEMMA KickedIsSlot ==
    ASSUME slots \in Seq(Connection), Len(slots) = MaxAuthConn
    PROVE  Kicked \in Slot /\ (PrivCount <= PrivRes => ~slots[Kicked].ispriv)
<1> DEFINE priv == {i \in DOMAIN slots : slots[i].ispriv}
           other == {i \in Slot : ~slots[i].ispriv}
<1>1. DOMAIN slots = Slot
  BY LenProperties DEF Slot
<1>2. CASE PrivCount > PrivRes
  <2>1. IsFiniteSet(Slot) /\ Cardinality(Slot) = MaxAuthConn
    BY FS_Interval DEF Slot
  <2>2. PrivCount \in Nat
    BY <1>1, <2>1, FS_Subset, FS_CardinalityType DEF PrivCount
  <2>3. QED
    BY <1>2, <2>2 DEF Kicked, Slot
<1>3. CASE ~(PrivCount > PrivRes)
  <2>1. IsFiniteSet(Slot) /\ Cardinality(Slot) = MaxAuthConn
    BY FS_Interval DEF Slot
  <2>2. priv \subseteq Slot /\ PrivCount = Cardinality(priv)
    BY <1>1 DEF PrivCount
  <2>3. Cardinality(priv) # MaxAuthConn
    BY <1>3, <2>2
  <2>4. other # {}
    BY <2>1, <2>2, <2>3, <1>1
  <2>5. other \subseteq Nat
    BY DEF Slot
  <2>6. PICK x \in other : \A y \in other : ~(y < x)
    BY <2>4, <2>5, FirstExists
  <2>7. x \in Slot /\ ~slots[x].ispriv /\ \A j \in 1 .. x - 1 : slots[j].ispriv
    BY <2>6 DEF Slot
  <2>8. Kicked = CHOOSE i \in Slot : ~slots[i].ispriv /\ \A j \in 1 .. i - 1 : slots[j].ispriv
    BY <1>3 DEF Kicked
  <2>9. QED
    BY <2>7, <2>8
<1>4. QED
  BY <1>2, <1>3

\* The buffers are only moved among the slots.
LEMMA MoveBuffersType ==
    ASSUME bufs \in [Slot -> Slot], slots \in Seq(Connection), Len(slots) <= MaxAuthConn,
           NEW wa \in Slot
    PROVE  MoveBuffers(wa) \in [Slot -> Slot]
<1>1. Len(slots) \in Nat
  BY LenProperties
<1>2. ASSUME NEW k \in Slot
      PROVE  (IF k < wa \/ k > Len(slots) THEN bufs[k]
              ELSE IF k < Len(slots) THEN bufs[k + 1] ELSE bufs[wa]) \in Slot
  <2>1. ~(k < wa \/ k > Len(slots)) /\ k < Len(slots) => k + 1 \in Slot
    BY <1>1 DEF Slot
  <2>2. QED
    BY <2>1
<1>3. QED
  BY <1>2 DEF MoveBuffers

LEMMA UnprivilegedType ==
    ASSUME NEW addr, privaddrs \in Seq(Addresses), Len(privaddrs) <= MaxPrivAddrs
    PROVE  /\ Unprivileged(addr) \in Seq(Addresses)
           /\ Len(Unprivileged(addr)) <= MaxPrivAddrs
<1>1. CASE Privileged(addr)
  <2> DEFINE at == CHOOSE i \in DOMAIN privaddrs : privaddrs[i] = addr
  <2>1. at \in 1 .. Len(privaddrs) /\ Len(privaddrs) \in Nat
    BY <1>1, LenProperties DEF Privileged
  <2>2. Unprivileged(addr) = Without(privaddrs, at)
    BY <1>1 DEF Unprivileged
  <2>3. QED
    BY <2>1, <2>2, WithoutProperties
<1>2. CASE ~Privileged(addr)
  BY <1>2 DEF Unprivileged
<1>3. QED
  BY <1>1, <1>2

LEMMA NowPrivilegedType ==
    ASSUME NEW addr \in Addresses, privaddrs \in Seq(Addresses),
           Len(privaddrs) <= MaxPrivAddrs
    PROVE  /\ NowPrivileged(addr) \in Seq(Addresses)
           /\ Len(NowPrivileged(addr)) <= MaxPrivAddrs
<1> DEFINE others == Unprivileged(addr)
           kept == IF Len(others) >= MaxPrivAddrs THEN Tail(others) ELSE others
<1>1. others \in Seq(Addresses) /\ Len(others) <= MaxPrivAddrs /\ Len(others) \in Nat
  BY UnprivilegedType, LenProperties
<1>2. Len(others) >= MaxPrivAddrs => others # <<>>
  BY <1>1, EmptySeq
<1>3. kept \in Seq(Addresses) /\ Len(kept) <= MaxPrivAddrs - 1
  BY <1>1, <1>2, HeadTailProperties
<1>4. Len(kept) \in Nat
  BY <1>3, LenProperties
<1>5. Append(kept, addr) \in Seq(Addresses) /\ Len(Append(kept, addr)) = Len(kept) + 1
  BY <1>3, AppendProperties
<1>6. QED
  BY <1>3, <1>4, <1>5 DEF NowPrivileged

-----------------------------------------------------------------------------
(* Every variable has its type.                                            *)

\* A slot in use is a record, and there are as many as fit.
LEMMA SlotInUse ==
    ASSUME TypeOK
    PROVE  /\ Len(slots) \in 0 .. MaxAuthConn /\ DOMAIN slots = 1 .. Len(slots)
           /\ \A i \in DOMAIN slots : slots[i] \in Connection /\ i \in Slot
<1>1. slots \in Seq(Connection) /\ Len(slots) <= MaxAuthConn
  BY DEF TypeOK
<1>2. Len(slots) \in Nat /\ DOMAIN slots = 1 .. Len(slots)
  BY <1>1, LenProperties
<1>3. \A i \in DOMAIN slots : slots[i] \in Connection
  BY <1>1, <1>2, ElementOfSeq
<1>4. QED
  BY <1>1, <1>2, <1>3 DEF Slot

LEMMA RemoveSlotType ==
    ASSUME TypeOK, NEW wa \in DOMAIN slots
    PROVE  /\ Without(slots, wa) \in Seq(Connection)
           /\ Len(Without(slots, wa)) = Len(slots) - 1
           /\ MoveBuffers(wa) \in [Slot -> Slot]
  BY SlotInUse, WithoutProperties, MoveBuffersType DEF TypeOK

LEMMA StatusType ==
    ASSUME TypeOK, NEW i \in DOMAIN slots, NEW st \in {"WAITNET", "VERIFY", "CORRECT"}
    PROVE  /\ [slots EXCEPT ![i].status = st] \in Seq(Connection)
           /\ Len([slots EXCEPT ![i].status = st]) = Len(slots)
<1> DEFINE new == [slots[i] EXCEPT !.status = st]
<1>1. new \in Connection /\ i \in 1 .. Len(slots)
  BY SlotInUse DEF Connection
<1>2. [slots EXCEPT ![i].status = st] = [slots EXCEPT ![i] = new]
  OBVIOUS
<1>3. QED
  BY <1>1, <1>2, ExceptSeq DEF TypeOK

LEMMA VerifyType ==
    ASSUME TypeOK, NEW i \in DOMAIN slots, Verify(i)
    PROVE  TypeOK'
<1> USE DEF TypeOK
<1>1. slots[i] \in Connection /\ i \in Slot
  BY SlotInUse
<1>2. bucket' \in 0 .. BucketSize
  <2>1. bucket' = bucket - TokenFor(i)
    BY DEF Verify
  <2>2. QED
    BY <2>1 DEF TokenFor
<1>3. spent' \in Nat /\ misjudged' \in BOOLEAN /\ pc' = "timer"
  <2>1. spent' = IF slots[i].ispriv THEN spent ELSE spent + 1
    BY DEF Verify
  <2>2. misjudged' \in BOOLEAN /\ pc' = "timer"
    BY Zenon DEF Verify
  <2>3. QED
    BY <2>1, <2>2
<1>4. memory[bufs[i]] \in Strings \union {NULL}
  BY <1>1
<1>5. /\ slots' \in Seq(Connection) /\ Len(slots') <= MaxAuthConn
      /\ bufs' \in [Slot -> Slot] /\ quit' \in BOOLEAN
      /\ auth_literal' \in Strings \union {NULL}
      /\ privaddrs' \in Seq(Addresses) /\ Len(privaddrs') <= MaxPrivAddrs
  <2>1. CASE Matches(memory[bufs[i]])
    BY <2>1, <1>4, StatusType DEF Verify
  <2>2. CASE ~Matches(memory[bufs[i]])
    <3>1. slots' = Without(slots, i) /\ bufs' = MoveBuffers(i)
      BY <2>2 DEF Verify, RemoveSlot
    <3>2. slots' \in Seq(Connection) /\ Len(slots') <= MaxAuthConn /\ bufs' \in [Slot -> Slot]
      BY <3>1, RemoveSlotType, SlotInUse
    <3>3. privaddrs' \in Seq(Addresses) /\ Len(privaddrs') <= MaxPrivAddrs
      BY <2>2, UnprivilegedType DEF Verify
    <3>4. quit' = quit /\ auth_literal' = auth_literal
      BY <2>2 DEF Verify
    <3>5. QED
      BY <3>2, <3>3, <3>4
  <2>3. QED
    BY <2>1, <2>2
<1>6. QED
  BY <1>2, <1>3, <1>5 DEF Verify, bounds

LEMMA PromoteType ==
    ASSUME TypeOK, NEW i \in DOMAIN slots, Promote(i)
    PROVE  TypeOK'
<1> USE DEF TypeOK
<1>1. slots[i] \in Connection
  BY SlotInUse
<1>2. slots' \in Seq(Connection) /\ Len(slots') <= MaxAuthConn /\ bufs' \in [Slot -> Slot]
  BY RemoveSlotType, SlotInUse DEF Promote, RemoveSlot
<1>3. privaddrs' \in Seq(Addresses) /\ Len(privaddrs') <= MaxPrivAddrs
  BY <1>1, NowPrivilegedType DEF Promote, Connection
<1>4. client' \in BOOLEAN
  BY DEF Promote
<1>5. QED
  BY <1>2, <1>3, <1>4 DEF Promote, bounds

LEMMA AcceptType ==
    ASSUME TypeOK, Accept
    PROVE  TypeOK'
<1> USE DEF TypeOK
<1>0. PICK addr \in Addresses :
         LET full == Len(slots) = MaxAuthConn
             kept == IF full THEN Without(slots, Kicked) ELSE slots
             moved == IF full THEN MoveBuffers(Kicked) ELSE bufs
         IN /\ pc = "listen" /\ conns < MaxConns
            /\ conns' = conns + 1
            /\ slots' = Append(kept, [conn |-> conns + 1, addr |-> addr,
                                      status |-> "WAITNET", ispriv |-> Privileged(addr),
                                      sent |-> NULL])
            /\ bufs' = moved
            /\ memory' = [memory EXCEPT ![moved[Len(kept) + 1]] = NULL]
            /\ UNCHANGED <<pc, next, bucket, privaddrs, auth_hash, auth_literal, client,
                           quit, seconds, changes, spent, misjudged>>
  BY DEF Accept
<1> DEFINE full == Len(slots) = MaxAuthConn
           kept == IF full THEN Without(slots, Kicked) ELSE slots
           moved == IF full THEN MoveBuffers(Kicked) ELSE bufs
           new == [conn |-> conns + 1, addr |-> addr, status |-> "WAITNET",
                   ispriv |-> Privileged(addr), sent |-> NULL]
<1>1. full => Kicked \in DOMAIN slots
  BY KickedIsSlot, SlotInUse DEF Slot
<1>2. kept \in Seq(Connection) /\ Len(kept) < MaxAuthConn /\ moved \in [Slot -> Slot]
  BY <1>1, RemoveSlotType, SlotInUse
<1>3. new \in Connection
  BY <1>0 DEF Connection, Conn, Privileged
<1>4. slots' \in Seq(Connection) /\ Len(slots') <= MaxAuthConn
  <2> HIDE DEF kept, new
  <2>1. Len(kept) \in Nat
    BY <1>2, LenProperties
  <2>2. slots' = Append(kept, new)
    BY <1>0 DEF kept, new
  <2>3. Append(kept, new) \in Seq(Connection) /\ Len(Append(kept, new)) = Len(kept) + 1
    BY <1>2, <1>3, AppendProperties
  <2>4. QED
    BY <1>2, <2>1, <2>2, <2>3
<1>5. bufs' \in [Slot -> Slot] /\ memory' \in [Slot -> Strings \union {NULL}]
  BY <1>0, <1>2
<1>6. conns' \in 0 .. MaxConns
  BY <1>0
<1>7. QED
  BY <1>0, <1>4, <1>5, <1>6

\* A function stays one of the same type when one of its values is replaced.
LEMMA ExceptType ==
    ASSUME NEW S, NEW T, NEW f \in [S -> T], NEW x, NEW v \in T
    PROVE  [f EXCEPT ![x] = v] \in [S -> T]
OBVIOUS

\* handle_auth_fd() only looks at slots that are in use: it goes down, and what
\* it removes leaves the earlier slots where they are.
NextInUse == pc = "auth" => next <= Len(slots)

LEMMA AuthFdType ==
    ASSUME TypeOK, NextInUse, AuthWaits \/ AuthComplete \/ AuthClosed \/ AuthDone
    PROVE  TypeOK' /\ NextInUse'
<1> USE DEF TypeOK, NextInUse
<1>1. CASE AuthWaits
  BY <1>1 DEF AuthWaits, bounds
<1>2. CASE AuthComplete
  <2>1. next \in DOMAIN slots /\ next \in Slot /\ slots[next].conn \in Conn
    <3>1. next \in 1 .. Len(slots)
      BY <1>2, SlotInUse DEF AuthComplete
    <3>2. QED
      BY <3>1, SlotInUse DEF Connection
  <2>2. slots' \in Seq(Connection) /\ Len(slots') = Len(slots)
    <3>1. PICK string \in Strings :
             slots' = [slots EXCEPT ![next].status = "VERIFY", ![next].sent = string]
      BY <1>2 DEF AuthComplete
    <3> DEFINE new == [slots[next] EXCEPT !.status = "VERIFY", !.sent = string]
    <3>2. new \in Connection /\ next \in 1 .. Len(slots)
      BY <2>1, SlotInUse DEF Connection
    <3>3. slots' = [slots EXCEPT ![next] = new]
      BY <3>1
    <3>4. QED
      BY <3>2, <3>3, ExceptSeq
  <2>3. memory' \in [Slot -> Strings \union {NULL}]
    <3>1. PICK string \in Strings : memory' = [memory EXCEPT ![bufs[next]] = string]
      BY <1>2 DEF AuthComplete
    <3>2. memory \in [Slot -> Strings \union {NULL}]
      OBVIOUS
    <3>3. string \in Strings \union {NULL}
      BY <3>1
    <3>4. QED
      BY <3>1, <3>2, <3>3, ExceptType, Zenon
  <2>4. next' \in 0 .. MaxAuthConn /\ next' <= Len(slots)
    <3>1. next' = next - 1
      BY <1>2 DEF AuthComplete
    <3>2. next \in 1 .. MaxAuthConn /\ next <= Len(slots)
      BY <2>1, SlotInUse DEF Slot
    <3>3. QED
      BY <3>1, <3>2
  <2>5. UNCHANGED <<pc, bufs, bucket, privaddrs, auth_hash, auth_literal, client, quit,
                    conns, seconds, changes, spent, misjudged>>
    BY <1>2 DEF AuthComplete
  <2>6. QED
    BY <2>2, <2>3, <2>4, <2>5
<1>3. CASE AuthClosed
  <2>1. next \in DOMAIN slots
    BY <1>3, SlotInUse DEF AuthClosed
  <2>2. /\ slots' \in Seq(Connection) /\ Len(slots') = Len(slots) - 1
        /\ bufs' \in [Slot -> Slot]
    BY <1>3, <2>1, RemoveSlotType DEF AuthClosed, RemoveSlot
  <2>3. next' \in 0 .. MaxAuthConn /\ next' <= Len(slots) - 1 /\ Len(slots') <= MaxAuthConn
    BY <1>3, <2>1, <2>2, SlotInUse DEF AuthClosed
  <2>4. QED
    BY <1>3, <2>2, <2>3 DEF AuthClosed, bounds
<1>4. CASE AuthDone
  BY <1>4 DEF AuthDone, bounds
<1>5. QED
  BY <1>1, <1>2, <1>3, <1>4

TypeInv == TypeOK /\ NextInUse

LEMMA InitType == Init => TypeInv
<1> SUFFICES ASSUME Init PROVE TypeInv
  OBVIOUS
<1>1. /\ slots \in Seq(Connection) /\ Len(slots) = 0
      /\ privaddrs \in Seq(Addresses) /\ Len(privaddrs) = 0
  BY EmptySeq DEF Init
<1>2. bufs \in [Slot -> Slot] /\ memory \in [Slot -> Strings \union {NULL}]
  BY DEF Init
<1>3. /\ bucket \in 0 .. BucketSize /\ next \in 0 .. MaxAuthConn
      /\ conns \in 0 .. MaxConns /\ changes \in 0 .. MaxChanges /\ seconds \in 0 .. MaxSeconds
      /\ Len(slots) <= MaxAuthConn /\ Len(privaddrs) <= MaxPrivAddrs
  BY <1>1 DEF Init
<1>4. /\ spent \in Nat /\ quit \in BOOLEAN /\ misjudged \in BOOLEAN
      /\ client \in BOOLEAN /\ auth_hash \in Strings /\ auth_literal \in Strings \union {NULL} /\ pc = "slots"
  BY DEF Init
<1>5. QED
  BY <1>1, <1>2, <1>3, <1>4 DEF TypeInv, TypeOK, NextInUse

LEMMA StepType == TypeInv /\ [Next]_vars => TypeInv'
<1> SUFFICES ASSUME TypeInv, [Next]_vars
             PROVE  TypeInv'
  OBVIOUS
<1> USE DEF TypeInv
<1>1. ASSUME CheckSlots PROVE TypeInv'
  <2>1. PICK i \in DOMAIN slots : Verify(i) \/ PromoteRefused(i) \/ Promote(i)
    BY <1>1 DEF CheckSlots
  <2>2. CASE Verify(i)
    BY <2>2, VerifyType DEF Verify, NextInUse
  <2>3. CASE PromoteRefused(i)
    BY <2>3 DEF PromoteRefused, TypeOK, NextInUse, bounds
  <2>4. CASE Promote(i)
    BY <2>4, PromoteType DEF Promote, NextInUse
  <2>5. QED
    BY <2>1, <2>2, <2>3, <2>4
<1>2. CASE Select
  BY <1>2 DEF Select, TypeOK, NextInUse, bounds
<1>3. CASE HandleClient
  BY <1>3 DEF HandleClient, TypeOK, NextInUse, bounds
<1>4. CASE Accept
  <2>1. pc' # "auth"
    BY <1>4 DEF Accept
  <2>2. QED
    BY <1>4, <2>1, AcceptType DEF NextInUse
<1>5. CASE ListenDone
  BY <1>5, SlotInUse DEF ListenDone, TypeOK, NextInUse, bounds
<1>6. CASE AuthWaits \/ AuthComplete \/ AuthClosed \/ AuthDone
  BY <1>6, AuthFdType
<1>7. CASE Tick
  BY <1>7 DEF Tick, Refilled, TypeOK, NextInUse, bounds
<1>8. CASE NoTick
  BY <1>8 DEF NoTick, TypeOK, NextInUse, bounds
<1>9. CASE SetAuthHash
  BY <1>9 DEF SetAuthHash, TypeOK, NextInUse
<1>10. CASE EndPass
  <2>1. client' \in BOOLEAN
    BY <1>10, Zenon DEF EndPass
  <2>2. QED
    BY <1>10, <2>1 DEF EndPass, TypeOK, NextInUse, bounds
<1>11. CASE UNCHANGED vars
  BY <1>11 DEF vars, TypeOK, NextInUse, bounds
<1>12. QED
  BY <1>1, <1>2, <1>3, <1>4, <1>5, <1>6, <1>7, <1>8, <1>9, <1>10, <1>11
     DEF Next, Poll, Rest

\* Every variable of AuthSlots always has its type: slots, bucket and list of
\* addresses never outgrow the sizes of their arrays.
THEOREM TypeCorrect == Spec => []TypeOK
<1>1. TypeInv => TypeOK
  BY DEF TypeInv
<1>2. QED
  BY <1>1, InitType, StepType, PTL DEF Spec

-----------------------------------------------------------------------------
(* The limit on attempts.                                                  *)

\* What was spent and what is left never exceed what was given.
RateInv == spent + bucket <= BucketSize + TokensPerSec * seconds

LEMMA StepRate == TypeOK /\ RateInv /\ [Next]_vars => RateInv'
<1> SUFFICES ASSUME TypeOK, RateInv, [Next]_vars
             PROVE  RateInv'
  OBVIOUS
<1>t. /\ bucket \in 0 .. BucketSize /\ spent \in Nat /\ seconds \in Nat
      /\ TokensPerSec * seconds \in Nat /\ BucketSize \in Nat /\ TokensPerSec \in Nat
  BY DEF TypeOK
<1>1. ASSUME NEW i \in DOMAIN slots, Verify(i) PROVE RateInv'
  <2>1. ~slots[i].ispriv => bucket > 0
    BY <1>1 DEF Verify, FirstToMove, CanMove, MayCheck
  <2>2. bucket' = bucket - TokenFor(i) /\ seconds' = seconds
        /\ spent' = IF slots[i].ispriv THEN spent ELSE spent + 1
    BY <1>1 DEF Verify
  <2>3. spent' + bucket' <= spent + bucket
    BY <1>t, <2>1, <2>2 DEF TokenFor
  <2>4. spent' + bucket' \in Nat
    BY <1>t, <2>2, <2>1 DEF TokenFor
  <2>5. QED
    BY <1>t, <2>2, <2>3, <2>4 DEF RateInv
<1>2. CASE Tick
  <2>1. PICK left \in Nat : bucket' = left /\ left <= BucketSize /\ left <= bucket + TokensPerSec
    BY <1>2, <1>t DEF Tick, Refilled
  <2>2. CASE seconds < MaxSeconds
    <3>1. TokensPerSec * (seconds + 1) = TokensPerSec * seconds + TokensPerSec
      BY <1>t
    <3>2. seconds' = seconds + 1 /\ spent' = spent
      BY <1>2, <2>2 DEF Tick
    <3>3. spent' + bucket' <= BucketSize + (TokensPerSec * seconds + TokensPerSec)
      <4>1. PICK given \in Nat : given = TokensPerSec * seconds
        BY <1>t
      <4>2. spent + bucket <= BucketSize + given
        BY <4>1 DEF RateInv
      <4>3. spent + left <= BucketSize + (given + TokensPerSec)
        BY <1>t, <2>1, <4>2
      <4>4. QED
        BY <2>1, <3>2, <4>1, <4>3, Zenon
    <3>4. QED
      BY <3>1, <3>2, <3>3 DEF RateInv
  <2>3. CASE ~(seconds < MaxSeconds)
    <3>1. seconds' = 0 /\ spent' = 0
      BY <1>2, <2>3 DEF Tick
    <3>2. TokensPerSec * 0 = 0
      OBVIOUS
    <3>3. spent' + bucket' <= BucketSize + 0
      <4>1. 0 + left <= BucketSize + 0
        BY <1>t, <2>1
      <4>2. QED
        BY <2>1, <3>1, <4>1, Zenon
    <3>4. QED
      BY <3>1, <3>2, <3>3 DEF RateInv
  <2>4. QED
    BY <2>2, <2>3
<1>3. CASE UNCHANGED <<bucket, spent, seconds>>
  BY <1>3 DEF RateInv
<1>4. QED
  BY <1>1, <1>2, <1>3
     DEF Next, CheckSlots, Poll, Rest, PromoteRefused, Promote, Select, HandleClient, Accept,
         ListenDone, AuthWaits, AuthComplete, AuthClosed, AuthDone, NoTick, SetAuthHash,
         EndPass, vars

\* Never more attempts are checked than the bucket held at first and was given
\* since, for every size and rate of the bucket and every length of a period.
THEOREM RateIsLimited == Spec => []RateLimited
<1>1. Init => RateInv
  BY DEF Init, RateInv
<1>2. TypeOK /\ RateInv => RateLimited
  <2> SUFFICES ASSUME TypeOK, RateInv
               PROVE  RateLimited
    OBVIOUS
  <2>1. TokensPerSec * seconds \in Nat
    BY DEF TypeOK
  <2>2. QED
    BY <2>1 DEF TypeOK, RateInv, RateLimited
<1>3. QED
  BY <1>1, <1>2, StepRate, TypeCorrect, PTL DEF Spec

-----------------------------------------------------------------------------
(* Buffers, and the verdicts about what is in them.                        *)

\* Of slots sl and buffers bf: every buffer and every connection is at one
\* place, and the buffer of a slot holds what its own peer sent so far.
Apart(bf) == \A i, j \in Slot : i # j => bf[i] # bf[j]
OnePlace(sl) == \A i, j \in DOMAIN sl : i # j => sl[i].conn # sl[j].conn
OwnText(sl, bf) ==
    \A i \in DOMAIN sl : sl[i].status # "CORRECT" => memory[bf[i]] = sl[i].sent
Known(sl) == \A i \in DOMAIN sl : sl[i].conn <= conns

Owned(sl, bf) == Apart(bf) /\ OnePlace(sl) /\ OwnText(sl, bf) /\ Known(sl)

\* The literal string is that of the hash of the moment.
LiteralOfHash == auth_literal # NULL => auth_literal = auth_hash

JudgeInv == Owned(slots, bufs) /\ LiteralOfHash /\ ~misjudged

\* The slot that slot k comes from when slot wa is removed.
Source(k, wa) ==
    IF k < wa \/ k > Len(slots) THEN k ELSE IF k < Len(slots) THEN k + 1 ELSE wa

LEMMA SourceProperties ==
    ASSUME TypeOK, NEW wa \in DOMAIN slots
    PROVE  /\ \A k \in Slot : Source(k, wa) \in Slot /\ MoveBuffers(wa)[k] = bufs[Source(k, wa)]
           /\ \A j, k \in Slot : j # k => Source(j, wa) # Source(k, wa)
           /\ \A k \in 1 .. Len(slots) - 1 :
                 /\ Source(k, wa) \in DOMAIN slots
                 /\ Without(slots, wa)[k] = slots[Source(k, wa)]
<1>1. /\ Len(slots) \in 0 .. MaxAuthConn /\ wa \in 1 .. Len(slots)
      /\ DOMAIN slots = 1 .. Len(slots)
  BY SlotInUse
<1>2. \A k \in Slot : Source(k, wa) \in Slot
  BY <1>1 DEF Source, Slot
<1>3. ASSUME NEW j \in Slot, NEW k \in Slot, j # k
      PROVE  Source(j, wa) # Source(k, wa)
  <2>1. j \in Nat /\ k \in Nat /\ wa \in Nat /\ Len(slots) \in Nat /\ wa <= Len(slots)
    BY <1>1 DEF Slot
  <2>2. ASSUME NEW m \in {j, k}
        PROVE  \/ Source(m, wa) = m /\ (m < wa \/ m > Len(slots))
               \/ Source(m, wa) = m + 1 /\ m >= wa /\ m < Len(slots)
               \/ Source(m, wa) = wa /\ m = Len(slots)
    <3>1. m \in Nat /\ wa \in Nat /\ Len(slots) \in Nat
      BY <2>1
    <3>2. CASE m < wa \/ m > Len(slots)
      BY <3>2 DEF Source
    <3>3. CASE ~(m < wa \/ m > Len(slots)) /\ m < Len(slots)
      <4>1. Source(m, wa) = m + 1
        BY <3>3 DEF Source
      <4>2. m >= wa
        BY <3>1, <3>3
      <4>3. QED
        BY <3>3, <4>1, <4>2
    <3>4. CASE ~(m < wa \/ m > Len(slots)) /\ ~(m < Len(slots))
      <4>1. Source(m, wa) = wa
        BY <3>4 DEF Source
      <4>2. m = Len(slots)
        BY <3>1, <3>4
      <4>3. QED
        BY <4>1, <4>2
    <3>5. QED
      BY <3>2, <3>3, <3>4
  <2>3. CASE Source(j, wa) = j /\ (j < wa \/ j > Len(slots))
    BY <1>3, <2>1, <2>2, <2>3
  <2>4. CASE Source(j, wa) = j + 1 /\ j >= wa /\ j < Len(slots)
    BY <1>3, <2>1, <2>2, <2>4
  <2>5. CASE Source(j, wa) = wa /\ j = Len(slots)
    BY <1>3, <2>1, <2>2, <2>5
  <2>6. QED
    BY <2>2, <2>3, <2>4, <2>5
<1>4. ASSUME NEW k \in Slot PROVE MoveBuffers(wa)[k] = bufs[Source(k, wa)]
  BY DEF MoveBuffers, Source
<1>5. ASSUME NEW k \in 1 .. Len(slots) - 1
      PROVE  /\ Source(k, wa) \in DOMAIN slots
             /\ Without(slots, wa)[k] = slots[Source(k, wa)]
  BY <1>1 DEF Without, Source
<1>6. QED
  BY <1>2, <1>3, <1>4, <1>5

\* remove_auth_connection() keeps every connection with its buffer.
LEMMA WithoutOwned ==
    ASSUME TypeOK, Owned(slots, bufs), NEW wa \in DOMAIN slots
    PROVE  Owned(Without(slots, wa), MoveBuffers(wa))
<1> DEFINE sl == Without(slots, wa)
           bf == MoveBuffers(wa)
<1>1. DOMAIN sl = 1 .. Len(slots) - 1 /\ DOMAIN sl \subseteq Slot
  BY SlotInUse DEF Without, Slot
<1>2. Apart(bf)
  BY SourceProperties DEF Owned, Apart
<1>3. \A k \in DOMAIN sl : /\ Source(k, wa) \in DOMAIN slots
                           /\ sl[k] = slots[Source(k, wa)] /\ bf[k] = bufs[Source(k, wa)]
  BY <1>1, SourceProperties
<1>4. OnePlace(sl)
  BY <1>1, <1>3, SourceProperties DEF Owned, OnePlace
<1>5. OwnText(sl, bf)
  BY <1>3 DEF Owned, OwnText
<1>6. Known(sl)
  BY <1>3 DEF Owned, Known
<1>7. QED
  BY <1>2, <1>4, <1>5, <1>6 DEF Owned

\* A new connection gets a buffer that nobody else has, and it is cleared.
LEMMA AcceptOwned ==
    ASSUME TypeOK, Owned(slots, bufs), Accept
    PROVE  Owned(slots, bufs)'
<1>0. PICK addr \in Addresses :
         LET full == Len(slots) = MaxAuthConn
             kept == IF full THEN Without(slots, Kicked) ELSE slots
             moved == IF full THEN MoveBuffers(Kicked) ELSE bufs
         IN /\ pc = "listen" /\ conns < MaxConns
            /\ conns' = conns + 1
            /\ slots' = Append(kept, [conn |-> conns + 1, addr |-> addr,
                                      status |-> "WAITNET", ispriv |-> Privileged(addr),
                                      sent |-> NULL])
            /\ bufs' = moved
            /\ memory' = [memory EXCEPT ![moved[Len(kept) + 1]] = NULL]
            /\ UNCHANGED <<pc, next, bucket, privaddrs, auth_hash, auth_literal, client,
                           quit, seconds, changes, spent, misjudged>>
  BY DEF Accept
<1> DEFINE full == Len(slots) = MaxAuthConn
           kept == IF full THEN Without(slots, Kicked) ELSE slots
           moved == IF full THEN MoveBuffers(Kicked) ELSE bufs
           new == [conn |-> conns + 1, addr |-> addr, status |-> "WAITNET",
                   ispriv |-> Privileged(addr), sent |-> NULL]
<1>1. full => Kicked \in DOMAIN slots
  BY KickedIsSlot, SlotInUse, SlotsAssumption DEF Slot, TypeOK
<1>2. kept \in Seq(Connection) /\ Len(kept) < MaxAuthConn /\ moved \in [Slot -> Slot]
  BY <1>1, RemoveSlotType, SlotInUse DEF TypeOK
<1>3. Owned(kept, moved)
  BY <1>1, WithoutOwned
<1>4. slots' = Append(kept, new) /\ bufs' = moved /\ conns' = conns + 1
  BY <1>0
<1>5. memory' = [memory EXCEPT ![moved[Len(kept) + 1]] = NULL]
  BY <1>0
<1>c. conns \in Nat /\ conns + 1 \in Conn /\ conns < MaxConns
  BY <1>0 DEF TypeOK, Conn
<1>n. new \in Connection /\ new.conn = conns + 1 /\ new.status = "WAITNET" /\ new.sent = NULL
  BY <1>c DEF Connection, Privileged
<1>m. memory \in [Slot -> Strings \union {NULL}]
  BY DEF TypeOK
<1> HIDE DEF full, kept, moved, new
<1>6. /\ Len(kept) \in Nat /\ DOMAIN kept = 1 .. Len(kept)
      /\ \A k \in DOMAIN kept : kept[k] \in Connection
  BY <1>2, LenProperties, ElementOfSeq
<1>7. /\ DOMAIN slots' = 1 .. Len(kept) + 1
      /\ slots'[Len(kept) + 1] = new
      /\ \A k \in DOMAIN kept : slots'[k] = kept[k]
  <2>1. /\ Append(kept, new) \in Seq(Connection) /\ Len(Append(kept, new)) = Len(kept) + 1
        /\ \A k \in 1 .. Len(kept) : Append(kept, new)[k] = kept[k]
        /\ Append(kept, new)[Len(kept) + 1] = new
    BY <1>2, <1>n, AppendProperties
  <2>2. DOMAIN Append(kept, new) = 1 .. Len(Append(kept, new))
    BY <2>1, LenProperties
  <2>3. QED
    BY <1>4, <1>6, <2>1, <2>2
<1>8. DOMAIN kept \subseteq Slot /\ Len(kept) + 1 \in Slot /\ Len(kept) + 1 \notin DOMAIN kept
  BY <1>2, <1>6 DEF Slot
<1>9. \A k \in DOMAIN slots' : k \in DOMAIN kept \/ k = Len(kept) + 1
  BY <1>6, <1>7
<1>10. Apart(bufs)'
  BY <1>3, <1>4 DEF Owned, Apart
<1>11. \A k \in DOMAIN kept : kept[k].conn # conns + 1 /\ kept[k].conn <= conns + 1
  <2>1. ASSUME NEW k \in DOMAIN kept PROVE kept[k].conn \in Nat /\ kept[k].conn <= conns
    BY <1>3, <1>6 DEF Owned, Known, Connection, Conn
  <2>2. QED
    BY <2>1, <1>c
<1>12. OnePlace(slots)'
  BY <1>3, <1>7, <1>9, <1>11, <1>n DEF Owned, OnePlace
<1>13. OwnText(slots, bufs)'
  <2> SUFFICES ASSUME NEW k \in DOMAIN slots', slots'[k].status # "CORRECT"
               PROVE  memory'[bufs'[k]] = slots'[k].sent
    BY DEF OwnText
  <2>1. CASE k \in DOMAIN kept
    <3>1. moved[k] # moved[Len(kept) + 1] /\ moved[k] \in Slot
      BY <1>2, <1>3, <1>8, <2>1 DEF Owned, Apart
    <3>2. memory'[moved[k]] = memory[moved[k]]
      BY <1>5, <1>m, <3>1
    <3>3. memory[moved[k]] = kept[k].sent
      BY <1>3, <1>7, <2>1 DEF Owned, OwnText
    <3>4. QED
      BY <1>4, <1>7, <2>1, <3>2, <3>3
  <2>2. CASE k = Len(kept) + 1
    <3>1. memory'[moved[k]] = NULL
      BY <1>2, <1>5, <1>8, <1>m, <2>2
    <3>2. QED
      BY <1>4, <1>7, <1>n, <2>2, <3>1
  <2>3. QED
    BY <1>9, <2>1, <2>2
<1>14. Known(slots)'
  BY <1>4, <1>7, <1>9, <1>11, <1>c, <1>n DEF Known
<1>15. QED
  BY <1>10, <1>12, <1>13, <1>14 DEF Owned

\* handle_auth_fd() stores what it read in the buffer of the connection.
LEMMA CompleteOwned ==
    ASSUME TypeOK, NextInUse, Owned(slots, bufs), AuthComplete
    PROVE  Owned(slots, bufs)'
<1>1. /\ next \in DOMAIN slots /\ DOMAIN slots \subseteq Slot
      /\ \A k \in DOMAIN slots : slots[k].conn \in Conn
  <2>1. next \in 1 .. Len(slots)
    BY SlotInUse DEF AuthComplete, NextInUse, TypeOK
  <2>2. QED
    BY <2>1, SlotInUse DEF Connection
<1>2. PICK string \in Strings :
         /\ memory' = [memory EXCEPT ![bufs[next]] = string]
         /\ slots' = [slots EXCEPT ![next].status = "VERIFY", ![next].sent = string]
  BY DEF AuthComplete
<1>3. /\ bufs' = bufs /\ conns' = conns
      /\ memory \in [Slot -> Strings \union {NULL}]
      /\ bufs \in [Slot -> Slot]
  BY DEF AuthComplete, TypeOK
<1>4. /\ DOMAIN slots' = DOMAIN slots
      /\ \A k \in DOMAIN slots : slots'[k].conn = slots[k].conn
      /\ \A k \in DOMAIN slots : k # next => slots'[k] = slots[k]
      /\ slots'[next].sent = string
  BY <1>1, <1>2, SlotInUse DEF Connection
<1>5. Apart(bufs)' /\ OnePlace(slots)'
  BY <1>3, <1>4 DEF Owned, Apart, OnePlace
<1>6. OwnText(slots, bufs)'
  <2> SUFFICES ASSUME NEW k \in DOMAIN slots, slots'[k].status # "CORRECT"
               PROVE  memory'[bufs[k]] = slots'[k].sent
    BY <1>3, <1>4 DEF OwnText
  <2>1. CASE k = next
    BY <1>1, <1>2, <1>3, <1>4, <2>1
  <2>2. CASE k # next
    <3>1. bufs[k] # bufs[next]
      BY <1>1, <2>2 DEF Owned, Apart
    <3>2. memory'[bufs[k]] = memory[bufs[k]]
      BY <1>1, <1>2, <1>3, <3>1
    <3>3. QED
      BY <1>4, <2>2, <3>2 DEF Owned, OwnText
  <2>3. QED
    BY <2>1, <2>2
<1>7. Known(slots)'
  BY <1>3, <1>4 DEF Owned, Known
<1>8. QED
  BY <1>5, <1>6, <1>7 DEF Owned

\* A verdict is about the string of the peer, and about the hash of the moment.
LEMMA VerifyJudge ==
    ASSUME TypeOK, JudgeInv, NEW i \in DOMAIN slots, Verify(i)
    PROVE  JudgeInv'
<1> DEFINE string == memory[bufs[i]]
<1>1. string = slots[i].sent
  BY DEF Verify, JudgeInv, Owned, OwnText
<1>2. Matches(string) <=> string = auth_hash
  BY DEF Matches, JudgeInv, LiteralOfHash
<1>3. misjudged' = FALSE
  <2>1. misjudged' = (misjudged \/ Matches(string) # (slots[i].sent = auth_hash))
    BY Zenon DEF Verify
  <2>2. Matches(string) = (slots[i].sent = auth_hash)
    BY <1>1, <1>2 DEF Matches
  <2>3. misjudged = FALSE
    BY DEF JudgeInv, TypeOK
  <2>4. QED
    BY <2>1, <2>2, <2>3, Zenon
<1>4. /\ auth_hash' = auth_hash /\ memory' = memory /\ conns' = conns
      /\ auth_literal' = IF Matches(string) THEN string ELSE auth_literal
  BY DEF Verify, bounds
<1>5. LiteralOfHash'
  BY <1>2, <1>4 DEF JudgeInv, LiteralOfHash
<1>6. Owned(slots, bufs)'
  <2>1. CASE Matches(string)
    <3>1. slots' = [slots EXCEPT ![i].status = "CORRECT"] /\ bufs' = bufs
      BY <2>1 DEF Verify
    <3>2. /\ DOMAIN slots' = DOMAIN slots
          /\ \A k \in DOMAIN slots : slots'[k].conn = slots[k].conn
          /\ \A k \in DOMAIN slots : slots'[k].status # "CORRECT" => slots[k].status # "CORRECT"
      BY <3>1, SlotInUse DEF Connection
    <3>3. QED
      BY <1>4, <3>1, <3>2 DEF JudgeInv, Owned, Apart, OnePlace, OwnText, Known
  <2>2. CASE ~Matches(string)
    <3>1. slots' = Without(slots, i) /\ bufs' = MoveBuffers(i)
      BY <2>2 DEF Verify, RemoveSlot
    <3>2. Owned(Without(slots, i), MoveBuffers(i))
      BY WithoutOwned DEF JudgeInv
    <3>3. QED
      BY <1>4, <3>1, <3>2 DEF Owned, Apart, OnePlace, OwnText, Known
  <2>3. QED
    BY <2>1, <2>2
<1>7. QED
  BY <1>3, <1>5, <1>6 DEF JudgeInv

LEMMA InitJudge == Init => JudgeInv
<1> SUFFICES ASSUME Init PROVE JudgeInv
  OBVIOUS
<1>1. DOMAIN slots = {}
  BY DEF Init
<1>2. Apart(bufs) /\ OnePlace(slots) /\ OwnText(slots, bufs)
  BY <1>1 DEF Init, Apart, OnePlace, OwnText
<1>3. Known(slots)
  BY <1>1 DEF Init, Known
<1>4. QED
  BY <1>2, <1>3 DEF Init, JudgeInv, Owned, LiteralOfHash

LEMMA StepJudge == TypeInv /\ JudgeInv /\ [Next]_vars => JudgeInv'
<1> SUFFICES ASSUME TypeInv, JudgeInv, [Next]_vars
             PROVE  JudgeInv'
  OBVIOUS
<1> USE DEF TypeInv
<1>s. ASSUME UNCHANGED <<slots, bufs, memory, conns>>
      PROVE  Owned(slots, bufs)'
  BY <1>s DEF JudgeInv, Owned, Apart, OnePlace, OwnText, Known
<1>l. ASSUME UNCHANGED <<auth_hash, auth_literal, misjudged>>
      PROVE  LiteralOfHash' /\ ~misjudged'
  BY <1>l DEF JudgeInv, LiteralOfHash
<1>1. ASSUME NEW i \in DOMAIN slots, Verify(i) PROVE JudgeInv'
  BY <1>1, VerifyJudge
<1>2. ASSUME NEW wa \in DOMAIN slots, RemoveSlot(wa), UNCHANGED <<memory, conns>>
      PROVE  Owned(slots, bufs)'
  <2>1. Owned(Without(slots, wa), MoveBuffers(wa))
    BY WithoutOwned DEF JudgeInv
  <2>2. QED
    BY <1>2, <2>1 DEF RemoveSlot, Owned, Apart, OnePlace, OwnText, Known
<1>3. ASSUME NEW i \in DOMAIN slots, Promote(i) PROVE JudgeInv'
  <2>1. Owned(slots, bufs)'
    BY <1>2, <1>3 DEF Promote, bounds
  <2>2. QED
    BY <1>3, <1>l, <2>1 DEF Promote, JudgeInv
<1>4. CASE Accept
  <2>1. Owned(slots, bufs)'
    BY <1>4, AcceptOwned DEF JudgeInv
  <2>2. QED
    BY <1>4, <1>l, <2>1 DEF Accept, JudgeInv
<1>5. CASE AuthComplete
  <2>1. Owned(slots, bufs)'
    BY <1>5, CompleteOwned DEF JudgeInv
  <2>2. QED
    BY <1>5, <1>l, <2>1 DEF AuthComplete, JudgeInv
<1>6. CASE AuthClosed
  <2>1. next \in DOMAIN slots
    BY <1>6, SlotInUse DEF AuthClosed, NextInUse, TypeOK
  <2>2. Owned(slots, bufs)'
    BY <1>2, <1>6, <2>1 DEF AuthClosed, bounds
  <2>3. QED
    BY <1>6, <1>l, <2>2 DEF AuthClosed, JudgeInv
<1>7. CASE SetAuthHash
  <2>1. LiteralOfHash' /\ ~misjudged'
    BY <1>7 DEF SetAuthHash, LiteralOfHash, JudgeInv
  <2>2. QED
    BY <1>7, <1>s, <2>1 DEF SetAuthHash, JudgeInv
<1>8. CASE UNCHANGED <<slots, bufs, memory, conns, auth_hash, auth_literal, misjudged>>
  BY <1>8, <1>s, <1>l DEF JudgeInv
<1>9. ASSUME NEW i \in DOMAIN slots, PromoteRefused(i) PROVE JudgeInv'
  BY <1>8, <1>9 DEF PromoteRefused, bounds
<1>10. QED
  BY <1>1, <1>3, <1>4, <1>5, <1>6, <1>7, <1>8, <1>9
     DEF Next, CheckSlots, Poll, Rest, Select, HandleClient, ListenDone, AuthWaits, AuthDone,
         Tick, NoTick, EndPass, vars, bounds

LEMMA JudgeInvariant == Spec => [](TypeInv /\ JudgeInv)
  BY InitType, StepType, InitJudge, StepJudge, PTL DEF Spec

\* The buffer of a slot holds what its own peer sent, for every number of slots
\* and every order in which connections come, are removed and are kicked.
THEOREM BuffersKept == Spec => []OwnBuffer
<1>1. JudgeInv => OwnBuffer
  BY DEF JudgeInv, Owned, Apart, OwnText, OwnBuffer
<1>2. QED
  BY <1>1, JudgeInvariant, PTL

\* A peer is accepted exactly when it sent what the hash of the moment is the
\* hash of, though buffers change hands and the literal string is kept.
THEOREM JudgedRight == Spec => []NoMisjudgement
<1>1. JudgeInv => NoMisjudgement
  BY DEF JudgeInv, NoMisjudgement
<1>2. QED
  BY <1>1, JudgeInvariant, PTL

-----------------------------------------------------------------------------
(* What happens to the others when a slot is removed: a connection that    *)
(* authenticated, and those that are privileged.                           *)

\* The slots that are not removed keep their connections.
LEMMA WithoutKeeps ==
    ASSUME TypeOK, NEW wa \in DOMAIN slots, NEW i \in DOMAIN slots, i # wa
    PROVE  \E j \in DOMAIN Without(slots, wa) : Without(slots, wa)[j] = slots[i]
<1> DEFINE j == IF i < wa THEN i ELSE i - 1
<1>1. /\ Len(slots) \in Nat /\ slots \in Seq(Connection)
      /\ wa \in 1 .. Len(slots) /\ i \in 1 .. Len(slots)
  BY SlotInUse DEF TypeOK
<1>2. j \in 1 .. Len(slots) - 1 /\ (IF j < wa THEN j ELSE j + 1) = i
  BY <1>1
<1>3. /\ DOMAIN Without(slots, wa) = 1 .. Len(slots) - 1
      /\ Without(slots, wa)[j] = IF j < wa THEN slots[j] ELSE slots[j + 1]
  BY <1>2 DEF Without
<1>4. QED
  BY <1>2, <1>3

\* handle_listen_fd() appends a connection to the slots that are kept.
LEMMA AcceptShape ==
    ASSUME TypeOK, Accept
    PROVE  \E kept \in Seq(Connection), new \in Connection :
              /\ slots' = Append(kept, new)
              /\ new.status = "WAITNET"
              /\ \/ kept = slots
                 \/ /\ Len(slots) = MaxAuthConn /\ Kicked \in DOMAIN slots
                    /\ kept = Without(slots, Kicked)
<1>1. PICK addr \in Addresses :
         LET full == Len(slots) = MaxAuthConn
             kept == IF full THEN Without(slots, Kicked) ELSE slots
         IN /\ conns < MaxConns
            /\ slots' = Append(kept, [conn |-> conns + 1, addr |-> addr,
                                      status |-> "WAITNET", ispriv |-> Privileged(addr),
                                      sent |-> NULL])
  BY DEF Accept
<1> DEFINE full == Len(slots) = MaxAuthConn
           kept == IF full THEN Without(slots, Kicked) ELSE slots
           new == [conn |-> conns + 1, addr |-> addr, status |-> "WAITNET",
                   ispriv |-> Privileged(addr), sent |-> NULL]
<1>2. full => Kicked \in DOMAIN slots
  BY KickedIsSlot, SlotInUse DEF Slot, TypeOK
<1>3. kept \in Seq(Connection)
  BY <1>2, RemoveSlotType DEF TypeOK
<1>4. new \in Connection /\ new.status = "WAITNET"
  BY <1>1 DEF Connection, Conn, Privileged, TypeOK
<1>5. slots' = Append(kept, new)
  BY <1>1
<1>6. kept = slots \/ (full /\ Kicked \in DOMAIN slots /\ kept = Without(slots, Kicked))
  BY <1>2
<1> HIDE DEF kept, new
<1>7. QED
  BY <1>3, <1>4, <1>5, <1>6

\* No slot is CORRECT from select() to the end of wait_for_network(): the loop
\* before it promotes such a slot and then does not go on to select().
NoCorrect ==
    pc \in {"client", "listen", "auth"} => \A i \in DOMAIN slots : slots[i].status # "CORRECT"

\* What Accept leaves in the slots was there or is new.
LEMMA AcceptedOrOld ==
    ASSUME TypeOK, Accept, NEW k \in DOMAIN slots'
    PROVE  slots'[k].status = "WAITNET" \/ \E i \in DOMAIN slots : slots'[k] = slots[i]
<1>1. PICK kept \in Seq(Connection), new \in Connection :
              /\ slots' = Append(kept, new)
              /\ new.status = "WAITNET"
              /\ \/ kept = slots
                 \/ Kicked \in DOMAIN slots /\ kept = Without(slots, Kicked)
  BY AcceptShape
<1>2. /\ Append(kept, new) \in Seq(Connection) /\ Len(Append(kept, new)) = Len(kept) + 1
      /\ \A m \in 1 .. Len(kept) : Append(kept, new)[m] = kept[m]
      /\ Append(kept, new)[Len(kept) + 1] = new
  BY <1>1, AppendProperties
<1>3. Len(kept) \in Nat /\ k \in 1 .. Len(kept) + 1
  BY <1>1, <1>2, LenProperties
<1>4. CASE k = Len(kept) + 1
  BY <1>1, <1>2, <1>4
<1>5. CASE k \in 1 .. Len(kept)
  <2>1. slots'[k] = kept[k]
    BY <1>1, <1>2, <1>5
  <2>2. CASE kept = slots
    BY <1>5, <2>1, <2>2, SlotInUse
  <2>3. CASE Kicked \in DOMAIN slots /\ kept = Without(slots, Kicked)
    <3>1. k \in 1 .. Len(slots) - 1
      BY <1>5, <2>3, RemoveSlotType
    <3>2. Source(k, Kicked) \in DOMAIN slots /\ kept[k] = slots[Source(k, Kicked)]
      BY <2>3, <3>1, SourceProperties
    <3>3. QED
      BY <2>1, <3>2
  <2>4. QED
    BY <1>1, <2>2, <2>3
<1>6. QED
  BY <1>3, <1>4, <1>5

LEMMA StepNoCorrect ==
    ASSUME TypeInv, NoCorrect, [Next]_vars
    PROVE  NoCorrect'
<1> USE DEF NoCorrect, TypeInv
<1>1. CASE CheckSlots
  BY <1>1, Zenon DEF CheckSlots, Verify, Promote, PromoteRefused
<1>2. CASE Select
  BY <1>2 DEF Select, Idle, CanMove
<1>3. CASE HandleClient \/ ListenDone \/ AuthWaits \/ AuthDone
  BY <1>3 DEF HandleClient, ListenDone, AuthWaits, AuthDone
<1>4. CASE Accept
  <2>1. pc = "listen"
    BY <1>4 DEF Accept
  <2>2. QED
    BY <1>4, <2>1, AcceptedOrOld
<1>5. CASE AuthComplete
  <2>1. pc = "auth" /\ next \in DOMAIN slots
    <3>1. pc = "auth" /\ next > 0
      BY <1>5 DEF AuthComplete
    <3>2. next \in Nat /\ next <= Len(slots)
      BY <3>1 DEF NextInUse, TypeOK
    <3>3. QED
      BY <3>1, <3>2, SlotInUse
  <2>2. PICK string \in Strings :
           slots' = [slots EXCEPT ![next].status = "VERIFY", ![next].sent = string]
    BY <1>5 DEF AuthComplete
  <2>3. /\ DOMAIN slots' = DOMAIN slots /\ slots'[next].status = "VERIFY"
        /\ \A k \in DOMAIN slots : k # next => slots'[k] = slots[k]
    BY <2>1, <2>2, SlotInUse DEF Connection
  <2>4. QED
    BY <2>1, <2>3
<1>6. CASE AuthClosed
  <2>1. pc = "auth" /\ next \in DOMAIN slots
    <3>1. pc = "auth" /\ next > 0
      BY <1>6 DEF AuthClosed
    <3>2. next \in Nat /\ next <= Len(slots)
      BY <3>1 DEF NextInUse, TypeOK
    <3>3. QED
      BY <3>1, <3>2, SlotInUse
  <2>2. slots' = Without(slots, next)
    BY <1>6 DEF AuthClosed, RemoveSlot
  <2>3. DOMAIN slots' = 1 .. Len(slots) - 1
    BY <2>2 DEF Without
  <2>4. \A k \in DOMAIN slots' : \E i \in DOMAIN slots : slots'[k] = slots[i]
    BY <2>1, <2>2, <2>3, SourceProperties
  <2>5. QED
    BY <2>1, <2>4
<1>7. CASE Rest
  BY <1>7 DEF Rest, Tick, NoTick, SetAuthHash, EndPass
<1>8. CASE UNCHANGED vars
  BY <1>8 DEF vars
<1>9. QED
  BY <1>1, <1>2, <1>3, <1>4, <1>5, <1>6, <1>7, <1>8 DEF Next, Poll

\* What a step does to a connection that authenticated.
LEMMA PromotionStep ==
    ASSUME TypeInv, NoCorrect, [Next]_vars,
           NEW i \in DOMAIN slots, slots[i].status = "CORRECT"
    PROVE  \/ ~client /\ client'
           \/ \E j \in DOMAIN slots' : slots'[j].conn = slots[i].conn
<1> USE DEF TypeInv
<1>0. pc \notin {"client", "listen", "auth"}
  BY DEF NoCorrect
<1>1. ASSUME NEW k \in DOMAIN slots, Verify(k)
      PROVE  \E j \in DOMAIN slots' : slots'[j].conn = slots[i].conn
  <2>1. k # i
    BY <1>1 DEF Verify
  <2>2. CASE slots' = [slots EXCEPT ![k].status = "CORRECT"]
    BY <2>1, <2>2
  <2>3. CASE slots' = Without(slots, k)
    BY <2>1, <2>3, WithoutKeeps
  <2>4. QED
    BY <1>1, <2>2, <2>3 DEF Verify, RemoveSlot
<1>2. ASSUME NEW k \in DOMAIN slots, Promote(k)
      PROVE  ~client /\ client'
  BY <1>2 DEF Promote
<1>3. CASE UNCHANGED slots
  BY <1>3
<1>4. QED
  BY <1>0, <1>1, <1>2, <1>3
     DEF Next, CheckSlots, PromoteRefused, Select, Poll, HandleClient, Accept, ListenDone,
         AuthWaits, AuthComplete, AuthClosed, AuthDone, Rest, Tick, NoTick, SetAuthHash, EndPass,
         vars

\* A connection that authenticated keeps its slot until it is the client,
\* whichever slots are refused, removed or kicked around it
\* (wait_for_network(), handle_listen_fd()).
THEOREM CorrectNeverKicked == Spec => CorrectIsPromoted
<1>1. Init => NoCorrect
  BY DEF Init, NoCorrect
<1>2. TypeInv /\ NoCorrect /\ [Next]_vars =>
        [\A i \in DOMAIN slots : slots[i].status = "CORRECT" =>
            \/ ~client /\ client'
            \/ \E j \in DOMAIN slots' : slots'[j].conn = slots[i].conn]_vars
  BY PromotionStep
<1>3. TypeInv /\ NoCorrect /\ [Next]_vars => NoCorrect'
  BY StepNoCorrect
<1>4. QED
  BY <1>1, <1>2, <1>3, InitType, StepType, PTL DEF Spec, CorrectIsPromoted

\* Those of the slots sl that are privileged.
PrivilegedIn(sl) == {i \in DOMAIN sl : sl[i].ispriv}

LEMMA PrivilegedFinite ==
    ASSUME NEW sl \in Seq(Connection)
    PROVE  IsFiniteSet(PrivilegedIn(sl)) /\ Cardinality(PrivilegedIn(sl)) \in Nat
<1>1. DOMAIN sl = 1 .. Len(sl) /\ Len(sl) \in Nat
  BY LenProperties
<1>2. IsFiniteSet(1 .. Len(sl))
  BY <1>1, FS_Interval
<1>3. PrivilegedIn(sl) \in SUBSET (1 .. Len(sl))
  BY <1>1 DEF PrivilegedIn
<1>4. QED
  BY <1>2, <1>3, FS_Subset, FS_CardinalityType

\* Removing a slot leaves as many privileged ones as there are others.
LEMMA PrivilegedLeft ==
    ASSUME TypeOK, NEW wa \in DOMAIN slots
    PROVE  /\ ~slots[wa].ispriv => Cardinality(PrivilegedIn(Without(slots, wa))) >= PrivCount
           /\ Cardinality(PrivilegedIn(Without(slots, wa))) >= PrivCount - 1
<1> DEFINE before == PrivilegedIn(slots)
           others == before \ {wa}
           after == PrivilegedIn(Without(slots, wa))
           at == [k \in others |-> IF k < wa THEN k ELSE k - 1]
<1>1. /\ Len(slots) \in Nat /\ slots \in Seq(Connection) /\ DOMAIN slots = 1 .. Len(slots)
      /\ wa \in 1 .. Len(slots)
  BY SlotInUse DEF TypeOK
<1>2. /\ Without(slots, wa) \in Seq(Connection)
      /\ DOMAIN Without(slots, wa) = 1 .. Len(slots) - 1
      /\ \A k \in 1 .. Len(slots) - 1 :
            Without(slots, wa)[k] = IF k < wa THEN slots[k] ELSE slots[k + 1]
  BY <1>1, WithoutProperties DEF Without
<1>3. ASSUME NEW k \in others
      PROVE  at[k] \in after
  <2>1. k \in 1 .. Len(slots) /\ k # wa /\ slots[k].ispriv
    BY <1>1 DEF PrivilegedIn
  <2>2. at[k] \in 1 .. Len(slots) - 1 /\ (IF at[k] < wa THEN at[k] ELSE at[k] + 1) = k
    BY <1>1, <2>1
  <2>3. Without(slots, wa)[at[k]] = slots[k]
    BY <1>2, <2>2
  <2>4. QED
    BY <1>2, <2>1, <2>2, <2>3 DEF PrivilegedIn
<1>4. \A j, k \in others : at[j] = at[k] => j = k
  <2>1. \A k \in others : k \in Nat /\ wa \in Nat /\ k # wa
    BY <1>1 DEF PrivilegedIn
  <2>2. QED
    BY <2>1
<1>5. at \in Injection(others, after)
  BY <1>3, <1>4 DEF Injection, IsInjective
<1>6. IsFiniteSet(before) /\ IsFiniteSet(after)
  BY <1>1, <1>2, PrivilegedFinite
<1>7. Cardinality(others) <= Cardinality(after)
  BY <1>5, <1>6, FS_Injection
<1>8. Cardinality(others) = IF wa \in before THEN Cardinality(before) - 1 ELSE Cardinality(before)
  BY <1>6, FS_RemoveElement
<1>9. Cardinality(before) \in Nat /\ Cardinality(after) \in Nat /\ PrivCount = Cardinality(before)
  BY <1>6, FS_CardinalityType DEF PrivCount, PrivilegedIn
<1>10. wa \in before <=> slots[wa].ispriv
  BY DEF PrivilegedIn
<1> HIDE DEF before, others, after, at
<1>11. QED
  BY <1>7, <1>8, <1>9, <1>10 DEF after

\* A new connection takes the slot of a privileged one only when more of them
\* are left than are reserved.
LEMMA AcceptReserved ==
    ASSUME TypeOK, Accept, PrivCount' < PrivCount
    PROVE  PrivCount' >= PrivRes
<1>1. PICK kept \in Seq(Connection), new \in Connection :
              /\ slots' = Append(kept, new)
              /\ \/ kept = slots
                 \/ /\ Len(slots) = MaxAuthConn /\ Kicked \in DOMAIN slots
                    /\ kept = Without(slots, Kicked)
  BY AcceptShape
<1>2. /\ Append(kept, new) \in Seq(Connection) /\ Len(Append(kept, new)) = Len(kept) + 1
      /\ \A m \in 1 .. Len(kept) : Append(kept, new)[m] = kept[m]
  BY <1>1, AppendProperties
<1>3. PrivilegedIn(kept) \subseteq PrivilegedIn(slots')
  <2>1. DOMAIN kept = 1 .. Len(kept) /\ Len(kept) \in Nat /\ DOMAIN slots' = 1 .. Len(kept) + 1
    BY <1>1, <1>2, LenProperties
  <2>2. QED
    BY <1>1, <1>2, <2>1 DEF PrivilegedIn
<1>4. PrivCount' = Cardinality(PrivilegedIn(slots')) /\ PrivCount = Cardinality(PrivilegedIn(slots))
  BY DEF PrivCount, PrivilegedIn
<1>5. /\ PrivCount' \in Nat /\ PrivCount \in Nat
      /\ Cardinality(PrivilegedIn(kept)) \in Nat
      /\ Cardinality(PrivilegedIn(kept)) <= PrivCount'
  <2>1. slots \in Seq(Connection) /\ slots' \in Seq(Connection)
    BY <1>1, <1>2 DEF TypeOK
  <2>2. QED
    BY <1>3, <1>4, <2>1, PrivilegedFinite, FS_Subset
<1>6. kept # slots
  BY <1>4, <1>5
<1>7. /\ Len(slots) = MaxAuthConn /\ Kicked \in DOMAIN slots
      /\ kept = Without(slots, Kicked)
  BY <1>1, <1>6
<1>8. /\ ~slots[Kicked].ispriv => Cardinality(PrivilegedIn(kept)) >= PrivCount
      /\ Cardinality(PrivilegedIn(kept)) >= PrivCount - 1
  BY <1>7, PrivilegedLeft
<1>9. PrivCount <= PrivRes => ~slots[Kicked].ispriv
  BY <1>7, KickedIsSlot DEF TypeOK
<1>10. QED
  BY <1>5, <1>8, <1>9

\* New connections never push out privileged ones when only as many as are
\* reserved are left, for every number of slots and of reserved ones
\* (handle_listen_fd(), NET_AUTH_PRIVRES).
THEOREM SlotsStayReserved == Spec => ReservedSlots
<1>1. ASSUME TypeOK, [Next]_vars, conns' # conns
      PROVE  Accept
  BY <1>1 DEF Next, CheckSlots, Verify, Promote, PromoteRefused, Select, Poll, HandleClient, ListenDone,
         AuthWaits, AuthComplete, AuthClosed, AuthDone, Rest, Tick, NoTick, SetAuthHash, EndPass,
         vars, bounds
<1>2. TypeOK /\ [Next]_vars =>
        [conns' # conns /\ PrivCount' < PrivCount => PrivCount' >= PrivRes]_vars
  BY <1>1, AcceptReserved
<1>3. QED
  BY <1>2, TypeCorrect, PTL DEF Spec, ReservedSlots
=============================================================================
