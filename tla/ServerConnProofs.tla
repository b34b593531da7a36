-------------------------- MODULE ServerConnProofs --------------------------
(***************************************************************************)
(* Proofs about ServerConn, for every number of addresses and every length *)
(* of the back-off.                                                        *)
(***************************************************************************)
EXTENDS ServerConn, TLAPS

USE DEF NULL

-----------------------------------------------------------------------------
\* The names the actions use are names of flags and of states.
LEMMA NameTypes ==
    /\ "SERVERQUIT" \in Flag /\ "RECONNECT" \in Flag
    /\ "SERVERRESOLVE" \in Flag /\ "SERVERCONNECT" \in Flag
    /\ "DISCONNECTED" \in Status /\ "RESOLVING" \in Status
    /\ "CONNECTING" \in Status /\ "CONNECTED" \in Status
    /\ "RECONNECTWAIT" \in Status
  BY DEF Flag, Status

\* The end of a phase is the beginning of another.
LEMMA EndPhaseType == pc \in Phase /\ EndPhase => pc' \in Phase
  BY DEF Phase, Flag, EndPhase, After

-----------------------------------------------------------------------------
\* Every action keeps the types.
LEMMA TypeStep == TypeOK /\ [Next]_vars => TypeOK'
<1> SUFFICES ASSUME TypeOK, [Next]_vars PROVE TypeOK'
  OBVIOUS
<1> USE BoundsAssumption, NameTypes, EndPhaseType
<1>1. CASE ResolverSuccess
  <2>1. ConnectionOK'
    BY <1>1 DEF ResolverSuccess, ResolverGone, Raise, settings, ConnectionOK, TypeOK
  <2>2. HistoryOK'
    BY <1>1 DEF ResolverSuccess, ResolverGone, Raise, settings, HistoryOK, TypeOK
  <2>3. QED
    BY <2>1, <2>2 DEF TypeOK
<1>2. CASE ResolverError
  <2>1. ConnectionOK'
    BY <1>2 DEF ResolverError, ResolverGone, Raise, settings, ConnectionOK, TypeOK
  <2>2. HistoryOK'
    BY <1>2 DEF ResolverError, ResolverGone, Raise, settings, ConnectionOK, HistoryOK, TypeOK
  <2>3. QED
    BY <2>1, <2>2 DEF TypeOK
<1>3. CASE ResolverDeath
  <2>1. ConnectionOK'
    BY <1>3 DEF ResolverDeath, ResolverGone, settings, ConnectionOK, TypeOK
  <2>2. HistoryOK'
    BY <1>3 DEF ResolverDeath, ResolverGone, settings, ConnectionOK, HistoryOK, TypeOK
  <2>3. QED
    BY <2>1, <2>2 DEF TypeOK
<1>4. CASE ServerCloses
  <2>1. ConnectionOK'
    BY <1>4 DEF ServerCloses, DisconnectServer, Raise, settings, ConnectionOK, TypeOK
  <2>2. HistoryOK'
    BY <1>4 DEF ServerCloses, DisconnectServer, Raise, settings, ConnectionOK, HistoryOK, TypeOK
  <2>3. QED
    BY <2>1, <2>2 DEF TypeOK
<1>5. CASE ConnectSucceeds
  <2>1. ConnectionOK'
    BY <1>5 DEF ConnectSucceeds, ConnectionOK, TypeOK
  <2>2. HistoryOK'
    BY <1>5 DEF ConnectSucceeds, HistoryOK, TypeOK
  <2>3. QED
    BY <2>1, <2>2 DEF TypeOK
<1>6. CASE ConnectFails
  <2>1. ConnectionOK'
    BY <1>6 DEF ConnectFails, Raise, settings, ghosts, ConnectionOK, TypeOK
  <2>2. HistoryOK'
    BY <1>6 DEF ConnectFails, Raise, settings, ghosts, HistoryOK, TypeOK
  <2>3. QED
    BY <2>1, <2>2 DEF TypeOK
<1>7. CASE TickReconnect
  <2>1. ConnectionOK'
    BY <1>7 DEF TickReconnect, DoReconnect, Raise, fds, settings, ConnectionOK, TypeOK
  <2>2. HistoryOK'
    BY <1>7 DEF TickReconnect, DoReconnect, Raise, fds, settings, HistoryOK, TypeOK
  <2>3. QED
    BY <2>1, <2>2 DEF TypeOK
<1>8. CASE TickMinute
  <2>1. ConnectionOK'
    BY <1>8 DEF TickMinute, fds, settings, ConnectionOK, TypeOK
  <2>2. HistoryOK'
    BY <1>8 DEF TickMinute, fds, settings, HistoryOK, TypeOK
  <2>3. QED
    BY <2>1, <2>2 DEF TypeOK
<1>9. CASE ConnectCommand
  <2>1. ConnectionOK'
    BY <1>9 DEF ConnectCommand, CommandComes, Raise, fds, ConnectionOK, TypeOK
  <2>2. HistoryOK'
    BY <1>9 DEF ConnectCommand, CommandComes, Raise, fds, HistoryOK, TypeOK
  <2>3. QED
    BY <2>1, <2>2 DEF TypeOK
<1>10. CASE ConnectRefused
  <2>1. ConnectionOK'
    BY <1>10 DEF ConnectRefused, CommandComes, fds, ghosts, ConnectionOK, TypeOK
  <2>2. HistoryOK'
    BY <1>10 DEF ConnectRefused, CommandComes, fds, ghosts, HistoryOK, TypeOK
  <2>3. QED
    BY <2>1, <2>2 DEF TypeOK
<1>11. CASE ConnectNowCommand
  <2>1. reconnect_delay' \in 0 .. MaxDelay /\ hurried' \in Nat /\ raced' \in BOOLEAN
    BY <1>11 DEF ConnectNowCommand, CommandComes, TypeOK, HistoryOK
  <2>2. flags' \subseteq Flag /\ attempt' \in {"none", "user", "auto"}
    BY <1>11 DEF ConnectNowCommand, DoReconnect, Raise, TypeOK, ConnectionOK
  <2>3. QED
    BY <1>11, <2>1, <2>2 DEF ConnectNowCommand, fds, settings, TypeOK, ConnectionOK, HistoryOK
<1>12. CASE DisconnectCommand
  <2>1. reconnect_delay' \in 0 .. MaxDelay
    BY <1>12 DEF DisconnectCommand, AbortResolve, AbortConnect, QuitServer, CancelReconnect,
             TypeOK, ConnectionOK
  <2>2. hurried' \in Nat /\ stopped' \in BOOLEAN /\ owed' \in BOOLEAN /\ raced' \in BOOLEAN
    BY <1>12 DEF DisconnectCommand, CommandComes, TypeOK, HistoryOK
  <2>3. UNCHANGED <<pc, settings, orphaned, attempt, died>>
    BY <1>12 DEF DisconnectCommand
  <2>4. CASE AbortResolve
    BY <2>1, <2>2, <2>3, <2>4 DEF AbortResolve, settings, TypeOK, ConnectionOK, HistoryOK
  <2>5. CASE AbortConnect
    BY <2>1, <2>2, <2>3, <2>5 DEF AbortConnect, settings, TypeOK, ConnectionOK, HistoryOK
  <2>6. CASE QuitServer
    BY <2>1, <2>2, <2>3, <2>6 DEF QuitServer, Raise, fds, settings, TypeOK, ConnectionOK, HistoryOK
  <2>7. CASE CancelReconnect
    BY <2>1, <2>2, <2>3, <2>7 DEF CancelReconnect, fds, settings, TypeOK, ConnectionOK, HistoryOK
  <2>8. QED
    BY <1>12, <2>4, <2>5, <2>6, <2>7 DEF DisconnectCommand
<1>13. CASE SetAutoreconnect
  <2>1. ConnectionOK'
    BY <1>13 DEF SetAutoreconnect, CommandComes, fds, ConnectionOK, TypeOK
  <2>2. HistoryOK'
    BY <1>13 DEF SetAutoreconnect, CommandComes, fds, HistoryOK, TypeOK
  <2>3. QED
    BY <2>1, <2>2 DEF TypeOK
<1>14. CASE HandleServerQuit
  <2>1. ConnectionOK'
    BY <1>14 DEF HandleServerQuit, DisconnectServer, settings, ghosts, ConnectionOK, TypeOK
  <2>2. HistoryOK'
    BY <1>14 DEF HandleServerQuit, DisconnectServer, settings, ghosts, HistoryOK, TypeOK
  <2>3. QED
    BY <2>1, <2>2 DEF TypeOK
<1>15. CASE ReconnectRefused
  <2>1. ConnectionOK'
    BY <1>15 DEF ReconnectRefused, fds, settings, ghosts, ConnectionOK, TypeOK
  <2>2. HistoryOK'
    BY <1>15 DEF ReconnectRefused, fds, settings, ghosts, HistoryOK, TypeOK
  <2>3. QED
    BY <2>1, <2>2 DEF TypeOK
<1>16. CASE ScheduleReconnect
  <2>1. ConnectionOK'
    BY <1>16 DEF ScheduleReconnect, Longer, fds, settings, ConnectionOK, TypeOK
  <2>2. HistoryOK'
    BY <1>16 DEF ScheduleReconnect, Longer, fds, settings, HistoryOK, TypeOK
  <2>3. QED
    BY <2>1, <2>2 DEF TypeOK
<1>17. CASE ResolveNotStarted
  <2>1. ConnectionOK'
    BY <1>17 DEF ResolveNotStarted, fds, settings, ghosts, ConnectionOK, TypeOK
  <2>2. HistoryOK'
    BY <1>17 DEF ResolveNotStarted, fds, settings, ghosts, HistoryOK, TypeOK
  <2>3. QED
    BY <2>1, <2>2 DEF TypeOK
<1>18. CASE StartResolve
  <2>1. ConnectionOK'
    BY <1>18 DEF StartResolve, settings, ConnectionOK, TypeOK
  <2>2. HistoryOK'
    BY <1>18 DEF StartResolve, settings, HistoryOK, TypeOK
  <2>3. QED
    BY <2>1, <2>2 DEF TypeOK
<1>19. CASE ConnectWithoutList
  <2>1. ConnectionOK'
    BY <1>19 DEF ConnectWithoutList, fds, settings, ghosts, ConnectionOK, TypeOK
  <2>2. HistoryOK'
    BY <1>19 DEF ConnectWithoutList, fds, settings, ghosts, HistoryOK, TypeOK
  <2>3. QED
    BY <2>1, <2>2 DEF TypeOK
<1>20. CASE GiveUp
  <2>1. ConnectionOK'
    BY <1>20 DEF GiveUp, fds, settings, ConnectionOK, TypeOK
  <2>2. HistoryOK'
    BY <1>20 DEF GiveUp, fds, settings, ConnectionOK, HistoryOK, TypeOK
  <2>3. QED
    BY <2>1, <2>2 DEF TypeOK
<1>21. CASE TryAddressFails
  <2>1. server_addresslist' \in {NULL} \union 0 .. MaxAddresses
    BY <1>21 DEF TryAddressFails, TypeOK, ConnectionOK
  <2>2. orphaned' \in BOOLEAN /\ server_connecting_fd' \in BOOLEAN
    BY <1>21 DEF TryAddressFails
  <2>3. UNCHANGED <<flags, server_status, server_resolver_fd, server_fd, settings,
                    reconnect_delay, attempt, stopped, owed, died, hurried, raced>>
    BY <1>21 DEF TryAddressFails
  <2>4. EndPhase
    BY <1>21 DEF TryAddressFails
  <2>5. QED
    BY <2>1, <2>2, <2>3, <2>4 DEF settings, TypeOK, ConnectionOK, HistoryOK
<1>22. CASE TryAddress
  <2>1. ConnectionOK'
    BY <1>22 DEF TryAddress, settings, ConnectionOK, TypeOK
  <2>2. HistoryOK'
    BY <1>22 DEF TryAddress, settings, HistoryOK, TypeOK
  <2>3. QED
    BY <2>1, <2>2 DEF TypeOK
<1>23. CASE NothingToDo
  <2>1. ConnectionOK'
    BY <1>23 DEF NothingToDo, fds, settings, ghosts, ConnectionOK, TypeOK
  <2>2. HistoryOK'
    BY <1>23 DEF NothingToDo, fds, settings, ghosts, HistoryOK, TypeOK
  <2>3. QED
    BY <2>1, <2>2 DEF TypeOK
<1>24. CASE UNCHANGED vars
  <2>1. ConnectionOK'
    BY <1>24 DEF vars, fds, settings, ghosts, ConnectionOK, TypeOK
  <2>2. HistoryOK'
    BY <1>24 DEF vars, fds, settings, ghosts, HistoryOK, TypeOK
  <2>3. QED
    BY <2>1, <2>2 DEF TypeOK
<1>25. QED
  BY <1>1, <1>2, <1>3, <1>4, <1>5, <1>6, <1>7, <1>8, <1>9, <1>10, <1>11,
         <1>12, <1>13, <1>14, <1>15, <1>16, <1>17, <1>18, <1>19, <1>20, <1>21,
         <1>22, <1>23, <1>24
     DEF Next, Network, Timer, Commands, Flags

LEMMA InitType == Init => TypeOK
<1> SUFFICES ASSUME Init PROVE TypeOK
  OBVIOUS
<1>1. pc \in Phase /\ server_status \in Status /\ flags \subseteq Flag
  BY DEF Init, Phase, Status
<1>2. reconnect_delay \in 0 .. MaxDelay /\ hurried \in Nat
  BY BoundsAssumption DEF Init
<1>3. QED
  BY <1>1, <1>2 DEF Init, TypeOK, ConnectionOK, HistoryOK

\* Every variable always has its type.
THEOREM TypeCorrect == Spec => []TypeOK
<1>1. Init => TypeOK
  BY InitType
<1>2. TypeOK /\ [Next]_vars => TypeOK'
  BY TypeStep
<1>3. QED
  BY <1>1, <1>2, PTL DEF Spec

-----------------------------------------------------------------------------
(* What holds whenever the commands come.                                  *)

\* Autoreconnect applies to no attempt that the user made.
UserInv ==
    /\ reconnect_enabled => attempt # "user"
    /\ NoRetryOfUserAttempt

LEMMA UserStep == UserInv /\ [Next]_vars => UserInv'
<1> SUFFICES ASSUME UserInv, [Next]_vars PROVE UserInv'
  OBVIOUS
<1>1. CASE ResolverSuccess
  BY <1>1 DEF ResolverSuccess, ResolverGone, Raise, settings, UserInv,
         NoRetryOfUserAttempt
<1>2. CASE ResolverError
  BY <1>2 DEF ResolverError, ResolverGone, Raise, settings, UserInv,
         NoRetryOfUserAttempt
<1>3. CASE ResolverDeath
  BY <1>3 DEF ResolverDeath, ResolverGone, settings, UserInv,
         NoRetryOfUserAttempt
<1>4. CASE ServerCloses
  BY <1>4 DEF ServerCloses, DisconnectServer, Raise, settings, UserInv,
         NoRetryOfUserAttempt
<1>5. CASE ConnectSucceeds
  BY <1>5 DEF ConnectSucceeds, UserInv, NoRetryOfUserAttempt
<1>6. CASE ConnectFails
  BY <1>6 DEF ConnectFails, Raise, settings, ghosts, UserInv,
         NoRetryOfUserAttempt
<1>7. CASE TickReconnect
  BY <1>7 DEF TickReconnect, DoReconnect, Raise, fds, settings, UserInv,
         NoRetryOfUserAttempt
<1>8. CASE TickMinute
  BY <1>8 DEF TickMinute, fds, settings, UserInv, NoRetryOfUserAttempt
<1>9. CASE ConnectCommand
  BY <1>9 DEF ConnectCommand, CommandComes, Raise, fds, UserInv, NoRetryOfUserAttempt
<1>10. CASE ConnectRefused
  BY <1>10 DEF ConnectRefused, CommandComes, fds, ghosts, UserInv, NoRetryOfUserAttempt
<1>11. CASE ConnectNowCommand
  BY <1>11 DEF ConnectNowCommand, DoReconnect, Raise, fds, settings, UserInv,
         NoRetryOfUserAttempt
<1>12. CASE DisconnectCommand
  BY <1>12 DEF DisconnectCommand, AbortResolve, AbortConnect, QuitServer,
         CancelReconnect, Raise, fds, settings, UserInv, NoRetryOfUserAttempt
<1>13. CASE SetAutoreconnect
  BY <1>13 DEF SetAutoreconnect, CommandComes, fds, UserInv, NoRetryOfUserAttempt
<1>14. CASE HandleServerQuit
  BY <1>14 DEF HandleServerQuit, DisconnectServer, settings, ghosts, UserInv,
         NoRetryOfUserAttempt
<1>15. CASE ReconnectRefused
  BY <1>15 DEF ReconnectRefused, MayReconnect, fds, settings, ghosts, UserInv,
         NoRetryOfUserAttempt
<1>16. CASE ScheduleReconnect
  BY <1>16 DEF ScheduleReconnect, MayReconnect, fds, settings, UserInv,
         NoRetryOfUserAttempt
<1>17. CASE ResolveNotStarted
  BY <1>17 DEF ResolveNotStarted, fds, settings, ghosts, UserInv,
         NoRetryOfUserAttempt
<1>18. CASE StartResolve
  BY <1>18 DEF StartResolve, settings, UserInv, NoRetryOfUserAttempt
<1>19. CASE ConnectWithoutList
  BY <1>19 DEF ConnectWithoutList, fds, settings, ghosts, UserInv,
         NoRetryOfUserAttempt
<1>20. CASE GiveUp
  BY <1>20 DEF GiveUp, fds, settings, UserInv, NoRetryOfUserAttempt
<1>21. CASE TryAddressFails
  BY <1>21 DEF TryAddressFails, settings, UserInv, NoRetryOfUserAttempt
<1>22. CASE TryAddress
  BY <1>22 DEF TryAddress, settings, UserInv, NoRetryOfUserAttempt
<1>23. CASE NothingToDo
  BY <1>23 DEF NothingToDo, fds, settings, ghosts, UserInv,
         NoRetryOfUserAttempt
<1>24. CASE UNCHANGED vars
  BY <1>24 DEF vars, fds, settings, ghosts, UserInv, NoRetryOfUserAttempt
<1>25. QED
  BY <1>1, <1>2, <1>3, <1>4, <1>5, <1>6, <1>7, <1>8, <1>9, <1>10, <1>11,
         <1>12, <1>13, <1>14, <1>15, <1>16, <1>17, <1>18, <1>19, <1>20, <1>21,
         <1>22, <1>23, <1>24
     DEF Next, Network, Timer, Commands, Flags

\* An attempt that the user made with /connect is not repeated when it fails
\* (command_connect() clears reconnect_enabled, command.c).
THEOREM UserAttemptNotRetried == Spec => []NoRetryOfUserAttempt
<1>1. Init => UserInv
  BY DEF Init, UserInv, NoRetryOfUserAttempt
<1>2. UserInv /\ [Next]_vars => UserInv'
  BY UserStep
<1>3. UserInv => NoRetryOfUserAttempt
  BY DEF UserInv
<1>4. QED
  BY <1>1, <1>2, <1>3, PTL DEF Spec

\* After an immediate reconnect there is a delay, until it is lowered.
HurryInv ==
    /\ TypeOK
    /\ hurried = 0 \/ (hurried = 1 /\ reconnect_delay > 0)

LEMMA HurryStep == HurryInv /\ [Next]_vars => HurryInv'
<1> SUFFICES ASSUME HurryInv, [Next]_vars PROVE HurryInv'
  OBVIOUS
<1>t. TypeOK'
  BY TypeStep DEF HurryInv
<1> USE BoundsAssumption, <1>t
<1>n. reconnect_delay \in 0 .. MaxDelay
  BY DEF HurryInv, TypeOK, ConnectionOK
<1>1. CASE ResolverSuccess
  BY <1>1, <1>n DEF ResolverSuccess, ResolverGone, Raise, settings, HurryInv
<1>2. CASE ResolverError
  BY <1>2, <1>n DEF ResolverError, ResolverGone, Raise, settings, HurryInv
<1>3. CASE ResolverDeath
  BY <1>3, <1>n DEF ResolverDeath, ResolverGone, settings, HurryInv
<1>4. CASE ServerCloses
  BY <1>4, <1>n DEF ServerCloses, DisconnectServer, Raise, settings, HurryInv
<1>5. CASE ConnectSucceeds
  BY <1>5, <1>n DEF ConnectSucceeds, HurryInv
<1>6. CASE ConnectFails
  BY <1>6, <1>n DEF ConnectFails, Raise, settings, ghosts, HurryInv
<1>7. CASE TickReconnect
  BY <1>7, <1>n DEF TickReconnect, DoReconnect, Raise, fds, settings, HurryInv
<1>8. CASE TickMinute
  BY <1>8, <1>n DEF TickMinute, fds, settings, HurryInv
<1>9. CASE ConnectCommand
  BY <1>9, <1>n DEF ConnectCommand, CommandComes, Raise, fds, HurryInv
<1>10. CASE ConnectRefused
  BY <1>10, <1>n DEF ConnectRefused, CommandComes, fds, ghosts, HurryInv
<1>11. CASE ConnectNowCommand
  BY <1>11, <1>n DEF ConnectNowCommand, DoReconnect, Raise, fds, settings,
         HurryInv
<1>12. CASE DisconnectCommand
  BY <1>12, <1>n DEF DisconnectCommand, AbortResolve, AbortConnect,
         QuitServer, CancelReconnect, Raise, fds, settings, HurryInv
<1>13. CASE SetAutoreconnect
  BY <1>13, <1>n DEF SetAutoreconnect, CommandComes, fds, HurryInv
<1>14. CASE HandleServerQuit
  BY <1>14, <1>n DEF HandleServerQuit, DisconnectServer, settings, ghosts,
         HurryInv
<1>15. CASE ReconnectRefused
  BY <1>15, <1>n DEF ReconnectRefused, fds, settings, ghosts, HurryInv
<1>16. CASE ScheduleReconnect
  BY <1>16, <1>n DEF ScheduleReconnect, Longer, fds, settings, HurryInv
<1>17. CASE ResolveNotStarted
  BY <1>17, <1>n DEF ResolveNotStarted, fds, settings, ghosts, HurryInv
<1>18. CASE StartResolve
  BY <1>18, <1>n DEF StartResolve, settings, HurryInv
<1>19. CASE ConnectWithoutList
  BY <1>19, <1>n DEF ConnectWithoutList, fds, settings, ghosts, HurryInv
<1>20. CASE GiveUp
  BY <1>20, <1>n DEF GiveUp, fds, settings, HurryInv
<1>21. CASE TryAddressFails
  BY <1>21, <1>n DEF TryAddressFails, settings, HurryInv
<1>22. CASE TryAddress
  BY <1>22, <1>n DEF TryAddress, settings, HurryInv
<1>23. CASE NothingToDo
  BY <1>23, <1>n DEF NothingToDo, fds, settings, ghosts, HurryInv
<1>24. CASE UNCHANGED vars
  BY <1>24, <1>n DEF vars, fds, settings, ghosts, HurryInv
<1>25. QED
  BY <1>1, <1>2, <1>3, <1>4, <1>5, <1>6, <1>7, <1>8, <1>9, <1>10, <1>11,
         <1>12, <1>13, <1>14, <1>15, <1>16, <1>17, <1>18, <1>19, <1>20, <1>21,
         <1>22, <1>23, <1>24
     DEF Next, Network, Timer, Commands, Flags

\* No two immediate reconnects in a row (world_schedule_reconnect()).
THEOREM NoBusyLoop == Spec => []NoHurry
<1>1. Init => HurryInv
  BY InitType DEF Init, HurryInv
<1>2. HurryInv /\ [Next]_vars => HurryInv'
  BY HurryStep
<1>3. HurryInv => NoHurry
  BY DEF HurryInv, NoHurry
<1>4. QED
  BY <1>1, <1>2, <1>3, PTL DEF Spec

-----------------------------------------------------------------------------
(* The calm case: no command has come in a pass that had already flagged   *)
(* a lookup or a connection attempt.                                       *)

\* Once a command has raced with a flag, that is not forgotten.
LEMMA RacedStays == TypeOK /\ [Next]_vars /\ raced => raced'
<1> SUFFICES ASSUME TypeOK, [Next]_vars, raced PROVE raced'
  OBVIOUS
<1>1. CASE Network
  BY <1>1 DEF Network, ResolverSuccess, ResolverError, ResolverDeath, ResolverGone,
         ServerCloses, ConnectSucceeds, ConnectFails, ghosts
<1>2. CASE Timer
  BY <1>2 DEF Timer, TickReconnect, TickMinute
<1>3. CASE Commands
  BY <1>3 DEF Commands, ConnectCommand, ConnectRefused, ConnectNowCommand,
         DisconnectCommand, SetAutoreconnect, CommandComes
<1>4. CASE Flags
  BY <1>4 DEF Flags, HandleServerQuit, ReconnectRefused, ScheduleReconnect,
         ResolveNotStarted, StartResolve, ConnectWithoutList, GiveUp,
         TryAddressFails, TryAddress, ghosts
<1>5. CASE NothingToDo
  BY <1>5 DEF NothingToDo, ghosts
<1>6. CASE UNCHANGED vars
  BY <1>6 DEF vars, ghosts
<1>7. QED
  BY <1>1, <1>2, <1>3, <1>4, <1>5, <1>6 DEF Next

\* Each flag that can be set, with what holds until its slot is reached.
FlagsAgree ==
    /\ "SERVERCONNECT" \in flags =>
          /\ server_status \in {"DISCONNECTED", "CONNECTING"}
          /\ server_addresslist # NULL
          /\ ~server_connecting_fd
          /\ "SERVERRESOLVE" \notin flags /\ "RECONNECT" \notin flags
    /\ "SERVERRESOLVE" \in flags => server_status \in {"DISCONNECTED", "RECONNECTWAIT"}
    /\ "RECONNECT" \in flags => server_status = "DISCONNECTED"
    /\ pc = "SERVERRESOLVE" => "RECONNECT" \notin flags
    /\ "SERVERQUIT" \in flags => server_status = "CONNECTED" /\ pc \in {"commands", "SERVERQUIT"}

\* A pending connection still has its list; a user who disconnected is not
\* overruled by a flag.
Leftovers ==
    /\ server_status = "CONNECTING" => server_addresslist # NULL
    /\ stopped => flags \subseteq {"SERVERQUIT"}

CalmInv ==
    /\ TypeOK /\ StatusMatchesFds /\ NoOrphans /\ DisconnectIsFinal
    /\ FlagsAgree /\ Leftovers

LEMMA CalmStep == CalmInv /\ [Next]_vars /\ ~raced' => CalmInv'
<1> SUFFICES ASSUME CalmInv, [Next]_vars, ~raced' PROVE CalmInv'
  OBVIOUS
<1>t. TypeOK'
  BY TypeStep DEF CalmInv
<1>f. flags \subseteq Flag
  BY DEF CalmInv, TypeOK, ConnectionOK, HistoryOK
<1>b. orphaned \in BOOLEAN /\ server_resolver_fd \in BOOLEAN /\ server_connecting_fd \in BOOLEAN
  BY DEF CalmInv, TypeOK, ConnectionOK, HistoryOK
<1>l. server_addresslist \in {NULL} \union Nat
  BY BoundsAssumption DEF CalmInv, TypeOK, ConnectionOK, HistoryOK
<1>p. EndPhase /\ pc' = "SERVERRESOLVE" => pc = "RECONNECT"
  BY DEF CalmInv, TypeOK, ConnectionOK, HistoryOK, Phase, Flag, EndPhase, After
<1> USE ~raced', <1>t, <1>p DEF Flag
<1>1. CASE ResolverSuccess
  BY <1>1, <1>f DEF ResolverSuccess, ResolverGone, Raise, settings, CalmInv,
         StatusMatchesFds, NoOrphans, DisconnectIsFinal, FlagsAgree, Leftovers
<1>2. CASE ResolverError
  BY <1>2, <1>f DEF ResolverError, ResolverGone, Raise, settings, CalmInv,
         StatusMatchesFds, NoOrphans, DisconnectIsFinal, FlagsAgree, Leftovers
<1>3. CASE ResolverDeath
  BY <1>3, <1>f DEF ResolverDeath, ResolverGone, settings, CalmInv,
         StatusMatchesFds, NoOrphans, DisconnectIsFinal, FlagsAgree, Leftovers
<1>4. CASE ServerCloses
  BY <1>4, <1>f DEF ServerCloses, DisconnectServer, Raise, settings, CalmInv,
         StatusMatchesFds, NoOrphans, DisconnectIsFinal, FlagsAgree, Leftovers
<1>5. CASE ConnectSucceeds
  BY <1>5, <1>f DEF ConnectSucceeds, CalmInv, StatusMatchesFds, NoOrphans,
         DisconnectIsFinal, FlagsAgree, Leftovers
<1>6. CASE ConnectFails
  BY <1>6, <1>f DEF ConnectFails, Raise, settings, ghosts, CalmInv,
         StatusMatchesFds, NoOrphans, DisconnectIsFinal, FlagsAgree, Leftovers
<1>7. CASE TickReconnect
  BY <1>7, <1>f DEF TickReconnect, DoReconnect, Raise, fds, settings, CalmInv,
         StatusMatchesFds, NoOrphans, DisconnectIsFinal, FlagsAgree, Leftovers
<1>8. CASE TickMinute
  BY <1>8, <1>f DEF TickMinute, fds, settings, CalmInv, StatusMatchesFds,
         NoOrphans, DisconnectIsFinal, FlagsAgree, Leftovers
<1>9. CASE ConnectCommand
  BY <1>9, <1>f DEF ConnectCommand, CommandComes, Calm, Raise, fds, CalmInv,
         StatusMatchesFds, NoOrphans, DisconnectIsFinal, FlagsAgree, Leftovers
<1>10. CASE ConnectRefused
  BY <1>10, <1>f DEF ConnectRefused, CommandComes, Calm, fds, ghosts, CalmInv,
         StatusMatchesFds, NoOrphans, DisconnectIsFinal, FlagsAgree, Leftovers
<1>11. CASE ConnectNowCommand
  BY <1>11, <1>f DEF ConnectNowCommand, DoReconnect, CommandComes, Calm,
         Raise, fds, settings, CalmInv, StatusMatchesFds, NoOrphans,
         DisconnectIsFinal, FlagsAgree, Leftovers
<1>12. CASE DisconnectCommand
  <2>1. stopped' = TRUE /\ pc = "commands" /\ Calm /\ UNCHANGED <<pc, orphaned>>
    BY <1>12 DEF DisconnectCommand, CommandComes
  <2>2. flags \subseteq {"SERVERQUIT", "RECONNECT"}
    BY <2>1, <1>f DEF Calm
  <2>3. CASE AbortResolve
    BY <2>1, <2>2, <2>3 DEF AbortResolve, CalmInv, StatusMatchesFds, NoOrphans,
             DisconnectIsFinal, FlagsAgree, Leftovers
  <2>4. CASE AbortConnect
    BY <2>1, <2>2, <2>4 DEF AbortConnect, CalmInv, StatusMatchesFds, NoOrphans,
             DisconnectIsFinal, FlagsAgree, Leftovers
  <2>5. CASE QuitServer
    BY <2>1, <2>2, <2>5 DEF QuitServer, Raise, fds, CalmInv, StatusMatchesFds, NoOrphans,
             DisconnectIsFinal, FlagsAgree, Leftovers
  <2>6. CASE CancelReconnect
    BY <2>1, <2>2, <2>6 DEF CancelReconnect, fds, CalmInv, StatusMatchesFds, NoOrphans,
             DisconnectIsFinal, FlagsAgree, Leftovers
  <2>7. QED
    BY <1>12, <2>3, <2>4, <2>5, <2>6 DEF DisconnectCommand
<1>13. CASE SetAutoreconnect
  BY <1>13, <1>f DEF SetAutoreconnect, CommandComes, Calm, fds, CalmInv,
         StatusMatchesFds, NoOrphans, DisconnectIsFinal, FlagsAgree, Leftovers
<1>14. CASE HandleServerQuit
  BY <1>14, <1>f DEF HandleServerQuit, SlotOf, DisconnectServer, settings,
         ghosts, CalmInv, StatusMatchesFds, NoOrphans, DisconnectIsFinal,
         FlagsAgree, Leftovers
<1>15. CASE ReconnectRefused
  BY <1>15, <1>f DEF ReconnectRefused, SlotOf, MayReconnect, fds, settings,
         ghosts, CalmInv, StatusMatchesFds, NoOrphans, DisconnectIsFinal,
         FlagsAgree, Leftovers
<1>16. CASE ScheduleReconnect
  BY <1>16, <1>f DEF ScheduleReconnect, SlotOf, MayReconnect, Longer, fds,
         settings, CalmInv, StatusMatchesFds, NoOrphans, DisconnectIsFinal,
         FlagsAgree, Leftovers
<1>17. CASE ResolveNotStarted
  BY <1>17, <1>f DEF ResolveNotStarted, SlotOf, fds, settings, ghosts,
         CalmInv, StatusMatchesFds, NoOrphans, DisconnectIsFinal, FlagsAgree,
         Leftovers
<1>18. CASE StartResolve
  BY <1>18, <1>b DEF StartResolve, SlotOf, Busy, fds, settings, CalmInv, StatusMatchesFds, NoOrphans,
             DisconnectIsFinal, FlagsAgree, Leftovers
<1>19. CASE ConnectWithoutList
  BY <1>19, <1>f DEF ConnectWithoutList, SlotOf, fds, settings, ghosts,
         CalmInv, StatusMatchesFds, NoOrphans, DisconnectIsFinal, FlagsAgree,
         Leftovers
<1>20. CASE GiveUp
  BY <1>20, <1>f DEF GiveUp, SlotOf, fds, settings, CalmInv, StatusMatchesFds,
         NoOrphans, DisconnectIsFinal, FlagsAgree, Leftovers
<1>21. CASE TryAddressFails
  BY <1>21, <1>b, <1>l DEF TryAddressFails, SlotOf, settings, CalmInv, StatusMatchesFds, NoOrphans,
             DisconnectIsFinal, FlagsAgree, Leftovers
<1>22. CASE TryAddress
  BY <1>22, <1>b, <1>l DEF TryAddress, SlotOf, settings, CalmInv, StatusMatchesFds, NoOrphans,
             DisconnectIsFinal, FlagsAgree, Leftovers
<1>23. CASE NothingToDo
  BY <1>23, <1>f DEF NothingToDo, EndPhase, After, fds, ghosts, CalmInv, StatusMatchesFds, NoOrphans,
             DisconnectIsFinal, FlagsAgree, Leftovers
<1>24. CASE UNCHANGED vars
  BY <1>24, <1>f DEF vars, fds, settings, ghosts, CalmInv, StatusMatchesFds,
         NoOrphans, DisconnectIsFinal, FlagsAgree, Leftovers
<1>25. QED
  BY <1>1, <1>2, <1>3, <1>4, <1>5, <1>6, <1>7, <1>8, <1>9, <1>10, <1>11,
         <1>12, <1>13, <1>14, <1>15, <1>16, <1>17, <1>18, <1>19, <1>20, <1>21,
         <1>22, <1>23, <1>24
     DEF Next, Network, Timer, Commands, Flags

\* The types and what holds as long as no command has raced with a flag, as one
\* invariant.
WhenCalm == TypeOK /\ (~raced => CalmInv)

LEMMA CalmInvariant == Spec => []WhenCalm
<1>1. Init => WhenCalm
  BY InitType DEF WhenCalm, Init, CalmInv, StatusMatchesFds, NoOrphans, DisconnectIsFinal,
                  FlagsAgree, Leftovers
<1>2. WhenCalm /\ [Next]_vars => WhenCalm'
  BY TypeStep, RacedStays, CalmStep DEF WhenCalm
<1>3. QED
  BY <1>1, <1>2, PTL DEF Spec

\* As long as no command has raced with a flag that was already set, the
\* status tells which descriptor is open, none is overwritten, and an attempt
\* finds its list of addresses (resolve.c, network.c, command.c).
THEOREM CalmConnection == Spec => []Agreement
<1>1. WhenCalm => Agreement
  BY DEF WhenCalm, CalmInv, FlagsAgree, ConnectHasList, Agreement
<1>2. QED
  BY <1>1, CalmInvariant, PTL

\* Once the user has disconnected and no command has raced with a flag, nothing
\* connects again but a command of the user (command_disconnect(), command.c).
THEOREM DisconnectStaysFinal == Spec => []FinalWhenCalm
<1>1. WhenCalm => FinalWhenCalm
  BY DEF WhenCalm, CalmInv, FinalWhenCalm
<1>2. QED
  BY <1>1, CalmInvariant, PTL
=============================================================================
