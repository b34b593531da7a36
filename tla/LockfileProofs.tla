--------------------------- MODULE LockfileProofs ---------------------------
(* Theorems about Lockfile: one instance for a world, for any number of      *)
(* instances that are started.                                               *)
EXTENDS Lockfile, TLAPS

HasOpen == {"opened", "locked", "running"}

\* Who may be active holds the lock; the lock is had by one instance for each
\* file; and while nobody raced, the file of the active one keeps its path,
\* and nobody is active when another one is about to unlink.
LockInv ==
    /\ \A i \in Instances : Active(i) => i \in locked
    /\ \A i \in Instances : pc[i] \in {"start", "opened"} => i \notin locked
    /\ \A i \in Instances : pc[i] \in HasOpen => file[i] \in Instances
    /\ \A i, j \in Instances : Holds(i) /\ Holds(j) /\ file[i] = file[j] => i = j

PathInv ==
    ~raced =>
        /\ \A i \in Instances : Active(i) => file[i] = path
        /\ \A i, k \in Instances : ~(pc[k] = "closed" /\ Active(i))

IInv == TypeOK /\ LockInv /\ PathInv

-----------------------------------------------------------------------------

LEMMA InitIInv == Init => IInv
BY NULLAssumption DEF Init, IInv, TypeOK, LockInv, PathInv, Active, Holds, HasOpen, Processes

LEMMA TypeStep == TypeOK /\ [Next]_vars => TypeOK'
<1> SUFFICES ASSUME TypeOK, [Next]_vars PROVE TypeOK'
    OBVIOUS
<1>1. CASE UNCHANGED vars
      BY <1>1 DEF vars, TypeOK
<1>2. ASSUME NEW i \in Instances, Step(i) PROVE TypeOK'
      <2>1. CASE Open(i)
            BY <2>1 DEF Open, Goes, Opens, TypeOK, Processes
      <2>2. CASE Lock(i)
            BY <2>2 DEF Lock, Goes, TypeOK, Processes
      <2>3. CASE Refused(i)
            BY <2>3 DEF Refused, Goes, Closes, TypeOK, Processes
      <2>4. CASE Foreground(i)
            BY <2>4 DEF Foreground, Goes, TypeOK, Processes
      <2>5. CASE Daemonize(i)
            BY <2>5 DEF Daemonize, Goes, Opens, TypeOK, Processes
      <2>6. CASE ParentExits(i)
            BY <2>6 DEF ParentExits, Closes, TypeOK, Processes
      <2>7. CASE StartResolve(i)
            BY <2>7 DEF StartResolve, Opens, TypeOK, Processes
      <2>8. CASE SlaveEnds(i)
            BY <2>8 DEF SlaveEnds, Closes, TypeOK, Processes
      <2>9. CASE Close(i)
            BY <2>9 DEF Close, Goes, Closes, TypeOK, Processes
      <2>10. CASE Unlink(i)
            BY <2>10 DEF Unlink, Goes, TypeOK, Processes
      <2>12. CASE Exit(i)
            BY <2>12 DEF Exit, Goes, TypeOK, Processes
      <2>11. CASE Crash(i)
            BY <2>11 DEF Crash, Closes, TypeOK, Processes
      <2> QED
            BY <1>2, <2>1, <2>2, <2>3, <2>4, <2>5, <2>6, <2>7, <2>8, <2>9, <2>10, <2>11,
               <2>12
            DEF Step
<1> QED BY <1>1, <1>2 DEF Next

LEMMA LockStep == TypeOK /\ LockInv /\ [Next]_vars => LockInv'
<1> SUFFICES ASSUME TypeOK, LockInv, [Next]_vars PROVE LockInv'
    OBVIOUS
<1> USE DEF LockInv, Active, Holds, HasOpen
<1>1. CASE UNCHANGED vars
      BY <1>1 DEF vars
<1>2. ASSUME NEW i \in Instances, Step(i) PROVE LockInv'
      <2>1. CASE Open(i)
            BY <2>1, NULLAssumption DEF Open, Goes, Opens, TypeOK
      <2>2. CASE Lock(i)
            BY <2>2 DEF Lock, Granted, Goes, TypeOK
      <2>3. CASE Refused(i)
            BY <2>3 DEF Refused, Goes, Closes, TypeOK
      <2>4. CASE Foreground(i)
            BY <2>4 DEF Foreground, Goes, TypeOK
      <2>5. CASE Daemonize(i)
            BY <2>5 DEF Daemonize, Goes, Opens, TypeOK
      <2>6. CASE ParentExits(i)
            BY <2>6 DEF ParentExits, Closes, TypeOK
      <2>7. CASE StartResolve(i)
            BY <2>7 DEF StartResolve, Opens, TypeOK
      <2>8. CASE SlaveEnds(i)
            BY <2>8 DEF SlaveEnds, Closes, TypeOK
      <2>9. CASE Close(i)
            BY <2>9 DEF Close, Goes, Closes, TypeOK
      <2>10. CASE Unlink(i)
            BY <2>10 DEF Unlink, Goes, TypeOK
      <2>12. CASE Exit(i)
            BY <2>12 DEF Exit, Goes, TypeOK
      <2>11. CASE Crash(i)
            BY <2>11 DEF Crash, Closes, TypeOK
      <2> QED
            BY <1>2, <2>1, <2>2, <2>3, <2>4, <2>5, <2>6, <2>7, <2>8, <2>9, <2>10, <2>11,
               <2>12
            DEF Step
<1> QED BY <1>1, <1>2 DEF Next

\* While nobody raced, two active instances are one: both hold the lock on the
\* file that the path names.
LEMMA OneActive ==
    ASSUME TypeOK, LockInv, PathInv, ~raced,
           NEW i \in Instances, NEW j \in Instances, Active(i), Active(j)
    PROVE  i = j
<1>1. Holds(i) /\ Holds(j)
      BY DEF TypeOK, LockInv, Holds, Active
<1>2. file[i] = file[j]
      BY DEF PathInv
<1> QED BY <1>1, <1>2 DEF LockInv

LEMMA PathStep == TypeOK /\ LockInv /\ PathInv /\ [Next]_vars => PathInv'
<1> SUFFICES ASSUME TypeOK, LockInv, PathInv, [Next]_vars, ~raced'
             PROVE  /\ \A i \in Instances : Active(i)' => (file[i] = path)'
                    /\ \A i, k \in Instances : ~(pc[k] = "closed" /\ Active(i))'
    BY DEF PathInv
<1>1. CASE UNCHANGED vars
      BY <1>1 DEF vars, PathInv, Active
<1>2. ASSUME NEW a \in Instances, Step(a)
      PROVE  /\ \A i \in Instances : Active(i)' => (file[i] = path)'
             /\ \A i, k \in Instances : ~(pc[k] = "closed" /\ Active(i))'
      <2>1. ~raced
            BY <1>2 DEF Step, Open, Lock, Refused, Foreground, Daemonize, ParentExits,
               StartResolve, SlaveEnds, Close, Unlink, Exit, Crash, TypeOK
      <2>2. CASE Open(a)
            <3>1. ASSUME NEW i \in Instances, Active(i)' PROVE (file[i] = path)'
                  <4>1. i # a /\ Active(i)
                        BY <2>2, <3>1 DEF Open, Goes, Active, TypeOK
                  <4>2. file[i] = path /\ file[i] \in Instances
                        BY <2>1, <4>1 DEF PathInv, LockInv, Active, HasOpen
                  <4> QED BY <2>2, <4>1, <4>2, NULLAssumption DEF Open, TypeOK
            <3>2. ASSUME NEW i \in Instances, NEW k \in Instances
                  PROVE  ~(pc[k] = "closed" /\ Active(i))'
                  BY <2>1, <2>2 DEF Open, Goes, Active, TypeOK, PathInv
            <3> QED BY <3>1, <3>2
      <2>3. CASE Lock(a)
            BY <2>1, <2>3 DEF Lock, Goes, Active, TypeOK, PathInv
      <2>4. CASE Refused(a)
            BY <2>1, <2>4 DEF Refused, Goes, Active, TypeOK, PathInv
      <2>5. CASE Foreground(a)
            BY <2>1, <2>5 DEF Foreground, Goes, Active, TypeOK, PathInv
      <2>6. CASE Daemonize(a)
            BY <2>1, <2>6 DEF Daemonize, Goes, Active, TypeOK, PathInv
      <2>7. CASE ParentExits(a) \/ StartResolve(a) \/ SlaveEnds(a)
            BY <2>1, <2>7 DEF ParentExits, StartResolve, SlaveEnds, Active, PathInv
      <2>8. CASE Close(a)
            <3>1. Active(a)
                  BY <2>8 DEF Close, Goes, Active
            <3>2. \A i \in Instances : ~Active(i)'
                  BY <2>1, <2>8, <3>1, OneActive DEF Close, Goes, Active, TypeOK
            <3> QED BY <3>2
      <2>9. CASE Unlink(a)
            <3>1. \A i \in Instances : ~Active(i)
                  BY <2>1, <2>9 DEF Unlink, Goes, PathInv
            <3> QED BY <2>9, <3>1 DEF Unlink, Goes, Active, TypeOK
      <2>10. CASE Crash(a)
            BY <2>1, <2>10 DEF Crash, Active, TypeOK, PathInv
      <2>11. CASE Exit(a)
            BY <2>1, <2>11 DEF Exit, Goes, Active, TypeOK, PathInv
      <2> QED
            BY <1>2, <2>2, <2>3, <2>4, <2>5, <2>6, <2>7, <2>8, <2>9, <2>10, <2>11 DEF Step
<1> QED BY <1>1, <1>2 DEF Next

LEMMA Inductive == Spec => []IInv
<1>1. IInv /\ [Next]_vars => IInv'
      BY TypeStep, LockStep, PathStep DEF IInv
<1> QED BY InitIInv, <1>1, PTL DEF Spec

-----------------------------------------------------------------------------

\* Every variable of the lock file always has its type, and main has the file
\* open exactly from open() to close().
THEOREM TypeCorrect == Spec => []TypeOK
<1>1. IInv => TypeOK
      BY DEF IInv
<1> QED BY Inductive, <1>1, PTL

\* However many instances are started, refused, fail, crash or end, only one serves
\* the world as long as none was granted the lock on a file that another removed
\* after it was opened, or was about to remove.
THEOREM OneInstanceRuns == Spec => []OneInstance
<1>1. IInv => OneInstance
      BY OneActive DEF IInv, OneInstance
<1> QED BY Inductive, <1>1, PTL
=============================================================================
