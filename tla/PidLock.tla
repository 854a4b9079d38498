------------------------------ MODULE PidLock ------------------------------
(***************************************************************************)
(* The lock that serialises ocne processes of one user:                    *)
(* src/pkg/util/pidlock/pidfile.go.  The lock is the existence of the file *)
(* ~/.ocne/ocne.pid, which WaitFor creates exclusively and fills with its  *)
(* own pid and which Drop removes when the pid in it is its own.  Nothing  *)
(* in the program ever breaks a lock that a process left behind.           *)
(*                                                                         *)
(* The module is used in two ways.  Spec is the most general client: every *)
(* process calls WaitFor and Drop in any order a caller may, the callers   *)
(* that ignore the error of WaitFor included.  The modules ClusterCache    *)
(* and LibvirtNet extend this one and use the same actions, guarded by     *)
(* their own control, as the steps of the two calls.                       *)
(***************************************************************************)

CONSTANTS
    Procs,        \* the pids of the ocne processes
    NoFile,       \* the pidfile does not exist
    NoPid,        \* the pidfile exists and is empty
    Worlds        \* the circumstances to look at, records of three Booleans:
                  \*   overlap  commands of one user may run at the same time
                  \*   faults   file operations fail and processes are killed
                  \*   slow     a running holder may outlast another's timeout

ASSUME PidLockAssumption ==
    /\ NoFile \notin Procs
    /\ NoPid \notin Procs
    /\ NoFile # NoPid
    /\ Worlds \subseteq [overlap : BOOLEAN, faults : BOOLEAN, slow : BOOLEAN]

VARIABLES
    pidfile,      \* NoFile, NoPid or the pid written in it
    creator,      \* observer: the process that created the file, else NoFile
    call,         \* where each process is in its calls of WaitFor and Drop
    world         \* the circumstances of this behaviour, chosen once

lockVars == <<pidfile, creator, call, world>>

LockStates == {"out",        \* not in a call, and not between WaitFor and Drop
               "opening",    \* in WaitFor, in the loop around os.OpenFile
               "created",    \* in WaitFor, the file created, the pid not written
               "held",       \* WaitFor returned nil
               "refused",    \* WaitFor returned an error
               "removing",   \* in Drop, the pid in the file was its own
               "dead"}       \* the process was killed

LockTypeOK ==
    /\ pidfile \in {NoFile, NoPid} \cup Procs
    /\ creator \in {NoFile} \cup Procs
    /\ call \in [Procs -> LockStates]

LockInit ==
    /\ pidfile = NoFile
    /\ creator = NoFile
    /\ call = [p \in Procs |-> "out"]
    /\ world \in Worlds

goto(p, s) == call' = [call EXCEPT ![p] = s] /\ UNCHANGED world

-----------------------------------------------------------------------------
(***************************************************************************)
(* WaitFor.                                                                *)
(***************************************************************************)

WaitFor(p) ==
    /\ call[p] = "out"
    /\ goto(p, "opening")
    /\ UNCHANGED <<pidfile, creator>>

\* O_CREATE|O_EXCL: one process creates the file, and only if there is none.
CreateFile(p) ==
    /\ call[p] = "opening"
    /\ pidfile = NoFile
    /\ pidfile' = NoPid
    /\ creator' = p
    /\ goto(p, "created")

\* The file still exists when the timeout is over.
MutantTimeOut(p) ==
    /\ call[p] = "opening"
    /\ pidfile # NoFile
    /\ UNCHANGED lockVars

TimeOut(p) ==
    /\ call[p] = "opening"
    /\ pidfile # NoFile
    /\ goto(p, "refused")
    /\ UNCHANGED <<pidfile, creator>>

\* The directory or the file cannot be created for another reason.
OpenFails(p) ==
    /\ world.faults
    /\ call[p] = "opening"
    /\ goto(p, "refused")
    /\ UNCHANGED <<pidfile, creator>>

\* The pid is written; the error of the write is not looked at, so the lock
\* counts as taken when the file stays empty.
WritePid(p) ==
    /\ call[p] = "created"
    /\ \/ pidfile' = p
       \/ world.faults /\ pidfile' = pidfile
    /\ goto(p, "held")
    /\ UNCHANGED creator

-----------------------------------------------------------------------------
(***************************************************************************)
(* Drop, called after WaitFor succeeded and, by the callers that ignore    *)
(* its error, after it failed.                                             *)
(***************************************************************************)

\* No file, an empty file (the read fails) or another process's pid.
DropRefused(p) ==
    /\ call[p] \in {"held", "refused"}
    /\ pidfile # p
    /\ goto(p, "out")
    /\ UNCHANGED <<pidfile, creator>>

MutantDropOwn(p) ==
    /\ call[p] \in {"held", "refused"}
    /\ pidfile \in Procs
    /\ goto(p, "removing")
    /\ UNCHANGED <<pidfile, creator>>

DropOwn(p) ==
    /\ call[p] \in {"held", "refused"}
    /\ pidfile = p
    /\ goto(p, "removing")
    /\ UNCHANGED <<pidfile, creator>>

\* Drop returns nil whether the file was removed or not.
RemoveFile(p) ==
    /\ call[p] = "removing"
    /\ \/ pidfile' = NoFile /\ creator' = NoFile
       \/ world.faults /\ UNCHANGED <<pidfile, creator>>
    /\ goto(p, "out")

\* The callers in the libvirt driver return when WaitFor fails, without Drop.
GiveUp(p) ==
    /\ call[p] = "refused"
    /\ goto(p, "out")
    /\ UNCHANGED <<pidfile, creator>>

\* The process is killed.  The file stays as it is.
Die(p) ==
    /\ call[p] # "dead"
    /\ goto(p, "dead")
    /\ UNCHANGED <<pidfile, creator>>

-----------------------------------------------------------------------------
\* The steps inside WaitFor, which a process takes whoever its caller is.
InWaitFor(p) == CreateFile(p) \/ TimeOut(p) \/ OpenFails(p) \/ WritePid(p)

\* The steps inside Drop.
InDrop(p) == DropRefused(p) \/ DropOwn(p) \/ RemoveFile(p)

LockNext ==
    \E p \in Procs : WaitFor(p) \/ InWaitFor(p) \/ InDrop(p) \/ GiveUp(p) \/ Die(p)

\* A process that is running keeps running: its loop waits for nobody but the
\* timer.  That a file operation fails is never counted on.
LockFairness == \A p \in Procs : WF_lockVars(CreateFile(p) \/ TimeOut(p) \/ WritePid(p))

LockSpec == LockInit /\ [][LockNext]_lockVars /\ LockFairness

-----------------------------------------------------------------------------
(***************************************************************************)
(* Properties.                                                             *)
(***************************************************************************)

\* At most one process is between a successful WaitFor and the end of its
\* Drop, whatever timeouts, failed writes and killed processes there were:
\* the promise of the comment on WaitFor.
MutualExclusion ==
    \A p, q \in Procs :
        (call[p] \in {"held", "removing"} /\ call[q] \in {"held", "removing"}) => p = q

\* The inductive invariant behind both: the file exists exactly as
\* long as it has a creator, and a process that is past the exclusive create
\* of WaitFor and not yet past the remove of Drop is that creator.
LockInv ==
    /\ LockTypeOK
    /\ (creator = NoFile) <=> (pidfile = NoFile)
    /\ pidfile \in Procs => pidfile = creator
    /\ \A p \in Procs : call[p] \in {"created", "held", "removing"} => creator = p
    /\ \A p \in Procs : call[p] = "removing" => pidfile = p

\* Without faults, and as long as no timeout is reached while the holder is
\* alive: a pidfile has a holder that is alive, nobody is refused the lock, and
\* the holder's pid is in the file.
HeldByTheLiving ==
    /\ pidfile # NoFile => call[creator] \in {"created", "held", "removing"}
    /\ \A p \in Procs : call[p] \notin {"refused", "dead"}
    /\ \A p \in Procs : call[p] = "held" => pidfile = p

\* WaitFor and Drop together, at every step: at most one process has the lock,
\* and the pidfile is removed only by the process that created it, although
\* cache.go calls Drop after a WaitFor that failed.
LockKept ==
    [][ /\ MutualExclusion'
        /\ pidfile # NoFile /\ pidfile' = NoFile =>
             creator \in Procs /\ call[creator] = "removing" ]_lockVars
=============================================================================
