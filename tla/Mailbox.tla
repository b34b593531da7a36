------------------------------ MODULE Mailbox ------------------------------
(***************************************************************************)
(* What mooproxy promises about the lines of the server, whatever clients  *)
(* do: each one is new until it is presented to a client, possibly new     *)
(* until a user shows activity, and then read.  They are presented in      *)
(* arrival order.  Only a shortage of buffer space takes new or possibly   *)
(* new lines away: the oldest first, after everything that was read.  No   *)
(* line is in two places, and none disappears in another way.              *)
(*                                                                         *)
(* A line is its arrival number, so an older line is a smaller number.     *)
(* LineFlow implements this specification.                                 *)
(***************************************************************************)
EXTENDS Naturals

VARIABLES
    posted,       \* all lines that have arrived
    fresh,        \* lines not yet presented to a client
    unconfirmed,  \* presented, not known to be read
    read,         \* kept as history
    lost          \* new or possibly new lines that were dropped

mailbox == <<posted, fresh, unconfirmed, read, lost>>

Init == posted = {} /\ fresh = {} /\ unconfirmed = {} /\ read = {} /\ lost = {}

Arrive ==
    /\ posted \subseteq posted' /\ posted # posted'
    /\ \A old \in posted, line \in posted' \ posted : old < line
    /\ fresh' = fresh \union (posted' \ posted)
    /\ UNCHANGED <<unconfirmed, read, lost>>

\* The oldest of the fresh lines.
Present ==
    \E line \in fresh :
        /\ \A other \in fresh : line <= other
        /\ unconfirmed' = unconfirmed \union {line}
        /\ fresh' = fresh \ {line}
        /\ UNCHANGED <<posted, read, lost>>

Confirm ==
    /\ read' = read \union unconfirmed
    /\ unconfirmed' = {}
    /\ UNCHANGED <<posted, fresh, lost>>

Forget ==
    /\ read' = {}
    /\ unconfirmed' = {}
    /\ UNCHANGED <<posted, fresh, lost>>

\* Shortage of space: the lines that go are older than those that stay, and
\* nothing that was not read goes while something read is kept.
Shorten ==
    \E gone \in SUBSET (read \union unconfirmed \union fresh) :
        /\ \A line \in gone, kept \in (read \union unconfirmed \union fresh) \ gone :
              line < kept
        /\ gone \subseteq read \/ read \subseteq gone
        /\ read' = read \ gone
        /\ unconfirmed' = unconfirmed \ gone
        /\ fresh' = fresh \ gone
        /\ lost' = lost \union (gone \ read)
        /\ UNCHANGED posted

Next == Arrive \/ Present \/ Confirm \/ Forget \/ Shorten

Spec == Init /\ [][Next]_mailbox
=============================================================================
