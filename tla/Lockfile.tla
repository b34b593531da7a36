------------------------------ MODULE Lockfile ------------------------------
(***************************************************************************)
(* The lock file that keeps a second mooproxy away from a world: main()    *)
(* of mooproxy.c with world_acquire_lock_file(), daemonize() and           *)
(* world_remove_lockfile() of daemon.c, for several instances started      *)
(* for the same world at any time.                                         *)
(*                                                                         *)
(* An instance is up to three processes that share one open file           *)
(* description of the lock file: the process that becomes mooproxy         *)
(* ("main": the launched one, or its child), the launched one after its    *)
(* fork ("parent"), and a resolver slave ("slave", resolve.c), which       *)
(* inherits the descriptor too.  The flock() lasts until the last of them  *)
(* has closed it.  A file is named after the instance that created it, and *)
(* lives on without a name while it is open.  What main has reached:       *)
(*                                                                         *)
(*   start, opened, locked   main() up to and in world_acquire_lock_file() *)
(*   running                 mainloop(), and what leads to it              *)
(*   closed                  between close() and unlink()                  *)
(*   leaving                 after unlink(): without the lock, it writes   *)
(*                           out its log and removes the links to it       *)
(*   gone                    the process has ended                         *)
(*                                                                         *)
(* The PID in the file is only shown to the user and is left out, and so   *)
(* are errors of open() and flock(), after which an instance just ends.    *)
(*                                                                         *)
(* Definitions named Slip... are what a slip in the code would make of the *)
(* definition that follows them; no specification uses them.               *)
(***************************************************************************)
EXTENDS Naturals, FiniteSets

CONSTANTS
    Instances,  \* the mooproxies that are started for the world
    NULL        \* no file

ASSUME NULLAssumption == NULL \notin Instances

VARIABLES
    pc,         \* what main has reached
    path,       \* the file that the path names
    file,       \* the file each instance has opened
    fds,        \* the processes of each instance that hold it open
    locked,     \* the instances that were granted the lock
    \* History variable, read by the properties only:
    raced       \* was a file locked that had lost its path, or was about to?

vars == <<pc, path, file, fds, locked, raced>>

Processes == {"main", "parent", "slave"}

Init ==
    /\ pc = [i \in Instances |-> "start"]
    /\ path = NULL
    /\ file = [i \in Instances |-> NULL]
    /\ fds = [i \in Instances |-> {}]
    /\ locked = {}
    /\ raced = FALSE

\* Does i hold the lock on its file?
Holds(i) == i \in locked /\ fds[i] # {}

Goes(i, from, to) == pc[i] = from /\ pc' = [pc EXCEPT ![i] = to]
Opens(i, process) == fds' = [fds EXCEPT ![i] = @ \cup {process}]
Closes(i, process) == fds' = [fds EXCEPT ![i] = @ \ {process}]

\* open() with O_CREAT
Open(i) ==
    /\ Goes(i, "start", "opened")
    /\ path' = IF path = NULL THEN i ELSE path
    /\ file' = [file EXCEPT ![i] = path']
    /\ Opens(i, "main")
    /\ UNCHANGED <<locked, raced>>

\* flock() with LOCK_NB
SlipGranted(i) == \A j \in Instances : Holds(j) /\ pc[j] = "running" => file[j] # file[i]
Granted(i) == \A j \in Instances : Holds(j) => file[j] # file[i]

Lock(i) ==
    /\ Goes(i, "opened", "locked")
    /\ Granted(i)
    /\ locked' = locked \cup {i}
    /\ raced' = (raced \/ file[i] # path \/ \E j \in Instances : pc[j] = "closed")
    /\ UNCHANGED <<path, file, fds>>

\* `Mooproxy instance for world ... already running': die() finds no lockfile
\* to remove.
Refused(i) ==
    /\ Goes(i, "opened", "gone")
    /\ ~Granted(i)
    /\ Closes(i, "main")
    /\ UNCHANGED <<path, file, locked, raced>>

\* Into mainloop(), in the foreground or as the child of the launched process.
Foreground(i) ==
    /\ Goes(i, "locked", "running")
    /\ UNCHANGED <<path, file, fds, locked, raced>>

Daemonize(i) ==
    /\ Goes(i, "locked", "running")
    /\ Opens(i, "parent")
    /\ UNCHANGED <<path, file, locked, raced>>

\* world_write_pid_to_file() and launch_parent_exit()
ParentExits(i) ==
    /\ "parent" \in fds[i]
    /\ Closes(i, "parent")
    /\ UNCHANGED <<pc, path, file, locked, raced>>

\* A lookup: the slave ends by itself, or is killed when it is cancelled.
StartResolve(i) ==
    /\ pc[i] = "running" /\ "slave" \notin fds[i]
    /\ Opens(i, "slave")
    /\ UNCHANGED <<pc, path, file, locked, raced>>

SlaveEnds(i) ==
    /\ "slave" \in fds[i]
    /\ Closes(i, "slave")
    /\ UNCHANGED <<pc, path, file, locked, raced>>

\* world_remove_lockfile(), from die() or after mainloop(): close(), unlink()
Close(i) ==
    /\ Goes(i, "locked", "closed") \/ Goes(i, "running", "closed")
    /\ Closes(i, "main")
    /\ UNCHANGED <<path, file, locked, raced>>

Unlink(i) ==
    /\ Goes(i, "closed", "leaving")
    /\ path' = NULL
    /\ UNCHANGED <<file, fds, locked, raced>>

\* The rest of main(), or of die(), and exit()
Exit(i) ==
    /\ Goes(i, "leaving", "gone")
    /\ UNCHANGED <<path, file, fds, locked, raced>>

\* Main is killed, at any time: the kernel closes its descriptors.
Crash(i) ==
    /\ pc[i] \notin {"start", "gone"}
    /\ pc' = [pc EXCEPT ![i] = "gone"]
    /\ Closes(i, "main")
    /\ UNCHANGED <<path, file, locked, raced>>

Step(i) ==
    \/ Open(i) \/ Lock(i) \/ Refused(i)
    \/ Foreground(i) \/ Daemonize(i) \/ ParentExits(i)
    \/ StartResolve(i) \/ SlaveEnds(i)
    \/ Close(i) \/ Unlink(i) \/ Exit(i) \/ Crash(i)

Next == \E i \in Instances : Step(i)

Spec == Init /\ [][Next]_vars

-----------------------------------------------------------------------------
(* Properties.                                                             *)

\* The type of every variable; main has the file open from open() to close().
TypeOK ==
    /\ pc \in [Instances -> {"start", "opened", "locked", "running", "closed", "leaving",
                          "gone"}]
    /\ path \in Instances \cup {NULL}
    /\ file \in [Instances -> Instances \cup {NULL}]
    /\ fds \in [Instances -> SUBSET Processes]
    /\ locked \subseteq Instances
    /\ raced \in BOOLEAN
    /\ \A i \in Instances :
          "main" \in fds[i] <=> pc[i] \in {"opened", "locked", "running"}

\* May i serve the world now?  One that is leaving listens to nobody any more,
\* but still touches the world's log files.
Active(i) == pc[i] \in {"locked", "running"}

\* Only one instance serves a world, whatever instances are refused, fail
\* to start, crash or leave a slave behind, unless one was granted the lock
\* on a file that another removed after it was opened, or was about to remove:
\* world_remove_lockfile() closes first and unlinks then, and
\* world_acquire_lock_file() does not look at the path again.
OneInstance ==
    ~raced => \A i, j \in Instances : Active(i) /\ Active(j) => i = j
=============================================================================
