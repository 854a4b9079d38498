--------------------------- MODULE Libvirt_proofs ---------------------------
(***************************************************************************)
(* Theorems about the libvirt driver: the book of tunnel ports stays       *)
(* consistent, and what a cluster's network, images, ignition and domains  *)
(* hold, for every number of processes, clusters, nodes and ports, with    *)
(* failing calls and killed processes.                                     *)
(***************************************************************************)
EXTENDS LibvirtNet, LibvirtDriver, TLAPS

-----------------------------------------------------------------------------
(***************************************************************************)
(* The network file and its lock: LibvirtNet.                              *)
(***************************************************************************)

-----------------------------------------------------------------------------
(* The pid lock, as the commands on the network file use it                 *)

\* The lock is free when no process has run: LockInv holds initially.
LEMMA LockInvInit == LockInit => LockInv
  BY PidLockAssumption DEF LockInit, LockInv, LockTypeOK, LockStates

\* Every step of WaitFor, of Drop and every kill preserves LockInv.
LEMMA LockInvStep == LockInv /\ [LockNext]_lockVars => LockInv'
<1> SUFFICES ASSUME LockInv, [LockNext]_lockVars PROVE LockInv'
  OBVIOUS
<1> USE PidLockAssumption DEF LockInv, LockTypeOK, LockStates, goto
<1>1. CASE UNCHANGED lockVars
  BY <1>1 DEF lockVars
<1>2. ASSUME NEW p \in Procs, WaitFor(p) PROVE LockInv'
  BY <1>2 DEF WaitFor
<1>3. ASSUME NEW p \in Procs, CreateFile(p) PROVE LockInv'
  BY <1>3 DEF CreateFile
<1>4. ASSUME NEW p \in Procs, TimeOut(p) PROVE LockInv'
  BY <1>4 DEF TimeOut
<1>5. ASSUME NEW p \in Procs, OpenFails(p) PROVE LockInv'
  BY <1>5 DEF OpenFails
<1>6. ASSUME NEW p \in Procs, WritePid(p) PROVE LockInv'
  BY <1>6 DEF WritePid
<1>7. ASSUME NEW p \in Procs, DropRefused(p) PROVE LockInv'
  BY <1>7 DEF DropRefused
<1>8. ASSUME NEW p \in Procs, DropOwn(p) PROVE LockInv'
  BY <1>8 DEF DropOwn
<1>9. ASSUME NEW p \in Procs, RemoveFile(p) PROVE LockInv'
  BY <1>9 DEF RemoveFile
<1>10. ASSUME NEW p \in Procs, GiveUp(p) PROVE LockInv'
  BY <1>10 DEF GiveUp
<1>11. ASSUME NEW p \in Procs, Die(p) PROVE LockInv'
  BY <1>11 DEF Die
<1> QED
  BY <1>1, <1>2, <1>3, <1>4, <1>5, <1>6, <1>7, <1>8, <1>9, <1>10, <1>11
  DEF LockNext, InWaitFor, InDrop

\* One step of one call removes the file only if its creator is at the
\* remove of Drop.
LEMMA RemoveStep ==
    ASSUME LockInv, [LockNext]_lockVars, pidfile # NoFile, pidfile' = NoFile
    PROVE  creator \in Procs /\ call[creator] = "removing"
<1>1. PICK p \in Procs : RemoveFile(p)
  BY PidLockAssumption
  DEF LockNext, InWaitFor, InDrop, WaitFor, CreateFile, TimeOut, OpenFails, WritePid,
      DropRefused, DropOwn, GiveUp, Die, lockVars
<1> QED
  BY <1>1 DEF RemoveFile, LockInv

\* A step of WaitFor that is no timeout, and a step of Drop, leaves the lock
\* with the living, if no file operation fails.
LEMMA LivingStep ==
    ASSUME LockInv, HeldByTheLiving, ~world.faults, NEW p \in Procs,
           WaitFor(p) \/ CreateFile(p) \/ WritePid(p) \/ InDrop(p)
    PROVE  HeldByTheLiving'
<1> USE PidLockAssumption DEF HeldByTheLiving, LockInv, LockTypeOK, LockStates, goto
<1>1. CASE WaitFor(p)
  BY <1>1 DEF WaitFor
<1>2. CASE CreateFile(p)
  BY <1>2 DEF CreateFile
<1>3. CASE WritePid(p)
  BY <1>3 DEF WritePid
<1>4. CASE DropRefused(p)
  BY <1>4 DEF DropRefused
<1>5. CASE DropOwn(p)
  BY <1>5 DEF DropOwn
<1>6. CASE RemoveFile(p)
  BY <1>6 DEF RemoveFile
<1> QED
  BY <1>1, <1>2, <1>3, <1>4, <1>5, <1>6 DEF InDrop

\* What LockKept says of one step.
LEMMA KeptStep ==
    LockInv /\ LockInv' /\ [LockNext]_lockVars =>
        [ /\ MutualExclusion'
          /\ pidfile # NoFile /\ pidfile' = NoFile =>
               creator \in Procs /\ call[creator] = "removing" ]_lockVars
<1>1. LockInv' => MutualExclusion'
  BY DEF LockInv, MutualExclusion
<1> QED
  BY <1>1, RemoveStep

-----------------------------------------------------------------------------
(* The network file                                                         *)

\* An empty file is a consistent book.
LEMMA EmptyBookOK == EmptyBook \in Books /\ BookOK(EmptyBook)
  BY DEF EmptyBook, Books, BookOK, recorded, Entries

\* addCluster keeps a book consistent if the port is not in it.
LEMMA WithClusterOK ==
    ASSUME NEW book \in Books, BookOK(book), NEW c \in Clusters, NEW r \in Record,
           book.clusters[c] = NoEntry, r.port \notin book.ports
    PROVE  WithCluster(book, c, r) \in Books /\ BookOK(WithCluster(book, c, r))
<1> DEFINE new == WithCluster(book, c, r)
<1>1. /\ new.ips = book.ips \cup recordedIP(r.ip)
      /\ new.ports = book.ports \cup {r.port}
      /\ new.clusters = [book.clusters EXCEPT ![c] = r]
  BY DEF WithCluster, Books
<1>2. new \in Books
  BY NetAssumption DEF WithCluster, Books, Record, Entries, recordedIP, Addresses
<1>3. recorded(new) = recorded(book) \cup {c}
  BY <1>1, NetAssumption DEF recorded, Books
<1>4. \A d \in recorded(book) : new.clusters[d] = book.clusters[d] /\ d # c
  BY <1>1 DEF recorded, Books
<1>5. new.clusters[c] = r
  BY <1>1 DEF Books
<1>6. \A d \in recorded(book) : book.clusters[d].port \in book.ports
  BY DEF BookOK
<1> HIDE DEF new
<1>7. new.ports = {new.clusters[d].port : d \in recorded(new)}
  BY <1>1, <1>3, <1>4, <1>5 DEF BookOK
<1>8. \A d, e \in recorded(new) : new.clusters[d].port = new.clusters[e].port => d = e
  BY <1>3, <1>4, <1>5, <1>6 DEF BookOK
<1> QED
  BY <1>2, <1>7, <1>8 DEF BookOK, new

\* removeCluster keeps a book consistent.
LEMMA WithoutClusterOK ==
    ASSUME NEW book \in Books, BookOK(book), NEW c \in Clusters, book.clusters[c] # NoEntry
    PROVE  WithoutCluster(book, c) \in Books /\ BookOK(WithoutCluster(book, c))
<1> DEFINE new == WithoutCluster(book, c)
<1>1. /\ new.ports = book.ports \ {book.clusters[c].port}
      /\ new.clusters = [book.clusters EXCEPT ![c] = NoEntry]
  BY DEF WithoutCluster, Books
<1>2. new \in Books
  BY DEF WithoutCluster, Books, Entries
<1>3. recorded(new) = recorded(book) \ {c}
  BY <1>1 DEF recorded, Books
<1>4. \A d \in recorded(new) : new.clusters[d] = book.clusters[d] /\ d # c
  BY <1>1, <1>3 DEF recorded, Books
<1>5. c \in recorded(book)
  BY DEF recorded
<1> HIDE DEF new
<1>6. \A d \in recorded(book) : d # c => book.clusters[d].port # book.clusters[c].port
  BY <1>5 DEF BookOK
<1>7. new.ports = {new.clusters[d].port : d \in recorded(new)}
  BY <1>1, <1>3, <1>4, <1>6 DEF BookOK
<1>8. \A d, e \in recorded(new) : new.clusters[d].port = new.clusters[e].port => d = e
  BY <1>3, <1>4 DEF BookOK
<1> QED
  BY <1>2, <1>7, <1>8 DEF BookOK, new

\* The commands use the pid lock only through its own steps.
LEMMA NetLockStep == [Next]_vars => [LockNext]_lockVars
  BY DEF Next, Command, vars, LockNext, lockVars, InWaitFor, InDrop,
         Begin, AlreadyExists, StartCreate, AllocateIP, AllocateIPFails, Lock, LockRefused,
         Unlock, Unlocked, AllocatePort, AllocatePortFails, AddNode, AddNodeFails,
         AddCluster, AddClusterFails, Write, WriteFails, RemoveNodes, RemoveNodesFails,
         RemoveCluster, RemoveClusterFails, Kill

\* The invariant holds with an empty file and no process running.
LEMMA NetInvInit == Init => NetInv
<1> SUFFICES ASSUME Init PROVE NetInv
  OBVIOUS
<1>1. LockInv
  BY LockInvInit DEF Init
<1>2. NetTypeOK
  BY EmptyBookOK DEF Init, NetTypeOK, Entries, Phases, NoWant
<1> QED
  BY <1>1, <1>2, EmptyBookOK DEF Init, NetInv, ProcInv

\* Every step of every command, and every kill, preserves the invariant.
LEMMA NetInvStep == NetInv /\ [Next]_vars => NetInv'
<1> SUFFICES ASSUME NetInv, [Next]_vars PROVE NetInv'
  OBVIOUS
<1>lock. LockInv'
  BY NetLockStep, LockInvStep DEF NetInv
<1>one. \A p, q \in Procs : call[p] = "held" /\ call[q] = "held" => p = q
  BY DEF NetInv, LockInv
<1>frame. ASSUME NEW p \in Procs, NetTypeOK', net' = net, ProcInv(p)',
                 \A q \in Procs \ {p} : /\ phase'[q] = phase[q] /\ call'[q] = call[q]
                                        /\ job'[q] = job[q] /\ want'[q] = want[q]
                                        /\ out'[q] = out[q]
          PROVE  NetInv'
  <2>1. BookOK(net)'
    BY <1>frame DEF NetInv, BookOK, recorded
  <2>2. ASSUME NEW q \in Procs, q # p PROVE ProcInv(q)'
    BY <1>frame, <2>2 DEF NetInv, ProcInv, starts, BookOK, recorded
  <2> QED
    BY <1>frame, <2>1, <2>2, <1>lock DEF NetInv
<1>alone. ASSUME NEW p \in Procs, NetTypeOK', BookOK(net)', ProcInv(p)',
                 phase[p] \in {"add", "write"} \/ call[p] = "held",
                 \A q \in Procs \ {p} : /\ phase'[q] = phase[q] /\ call'[q] = call[q]
                                        /\ job'[q] = job[q] /\ want'[q] = want[q]
          PROVE  NetInv'
  <2>1. ASSUME NEW q \in Procs, q # p PROVE ProcInv(q)'
    <3>1. phase[q] \notin {"node", "add", "write"}
      BY <1>alone, <2>1, <1>one DEF NetInv, ProcInv
    <3> QED
      BY <1>alone, <2>1, <3>1 DEF NetInv, ProcInv, starts
  <2> QED
    BY <1>alone, <2>1, <1>lock DEF NetInv
<1>ended. ASSUME NEW p \in Procs, NEW s \in {"idle", "dead"}, end(p, s),
                 net' = net, vm' = vm, \A q \in Procs \ {p} : call'[q] = call[q]
          PROVE  NetInv'
  <2>1. NetTypeOK'
    BY <1>ended, EmptyBookOK DEF NetInv, NetTypeOK, end, step, Phases, NoWant
  <2>2. ProcInv(p)'
    BY <1>ended DEF NetInv, NetTypeOK, ProcInv, end, step
  <2> QED
    BY <1>ended, <2>1, <2>2, <1>frame DEF NetInv, NetTypeOK, end, step
<1>1. CASE UNCHANGED vars
  BY <1>1, <1>lock DEF vars, NetInv, ProcInv, NetTypeOK, BookOK, recorded, starts
<1>2. ASSUME NEW p \in Procs, NEW j \in Jobs, Begin(p, j) PROVE NetInv'
  <2>1. NetTypeOK'
    BY <1>2 DEF Begin, NetInv, NetTypeOK, step, Phases
  <2>2. ProcInv(p)'
    BY <1>2 DEF Begin, NetInv, NetTypeOK, ProcInv, step
  <2> QED
    BY <1>2, <2>1, <2>2, <1>frame DEF Begin, NetInv, NetTypeOK, step, lockVars
<1>3. ASSUME NEW p \in Procs, AlreadyExists(p) PROVE NetInv'
  BY <1>3, <1>ended DEF AlreadyExists, lockVars
<1>4. ASSUME NEW p \in Procs, StartCreate(p) PROVE NetInv'
  <2>1. NetTypeOK'
    BY <1>4 DEF StartCreate, NetInv, NetTypeOK, step, Phases
  <2>2. ProcInv(p)'
    BY <1>4 DEF StartCreate, NetInv, NetTypeOK, ProcInv, step, starts, lockVars
  <2> QED
    BY <1>4, <2>1, <2>2, <1>frame DEF StartCreate, NetInv, NetTypeOK, step, lockVars
<1>5. ASSUME NEW p \in Procs, AllocateIP(p) PROVE NetInv'
  <2>1. NetTypeOK'
    BY <1>5 DEF AllocateIP, NetInv, NetTypeOK, step, Phases
  <2>2. ProcInv(p)'
    BY <1>5 DEF AllocateIP, NetInv, NetTypeOK, ProcInv, step, starts, lockVars
  <2> QED
    BY <1>5, <2>1, <2>2, <1>frame DEF AllocateIP, NetInv, NetTypeOK, step, lockVars
<1>6. ASSUME NEW p \in Procs, AllocateIPFails(p) PROVE NetInv'
  BY <1>6, <1>ended DEF AllocateIPFails, lockVars
<1>7. ASSUME NEW p \in Procs, Lock(p) PROVE NetInv'
  <2>1. \A q \in Procs \ {p} : call'[q] = call[q]
    BY <1>7 DEF Lock, WaitFor, CreateFile, TimeOut, OpenFails, WritePid, goto, NetInv, LockInv, LockTypeOK
  <2>2. NetTypeOK' /\ ProcInv(p)'
    BY <1>7 DEF Lock, netVars, NetInv, NetTypeOK, ProcInv, starts
  <2> QED
    BY <1>7, <2>1, <2>2, <1>frame DEF Lock, netVars
<1>8. ASSUME NEW p \in Procs, LockRefused(p) PROVE NetInv'
  BY <1>8, <1>ended DEF LockRefused, GiveUp, goto, NetInv, LockInv, LockTypeOK
<1>9. ASSUME NEW p \in Procs, Unlock(p) PROVE NetInv'
  <2>1. \A q \in Procs \ {p} : call'[q] = call[q]
    BY <1>9 DEF Unlock, InDrop, DropRefused, DropOwn, RemoveFile, goto, NetInv, LockInv, LockTypeOK
  <2>2. NetTypeOK' /\ ProcInv(p)'
    BY <1>9 DEF Unlock, netVars, NetInv, NetTypeOK, ProcInv, starts
  <2> QED
    BY <1>9, <2>1, <2>2, <1>frame DEF Unlock, netVars
<1>10. ASSUME NEW p \in Procs, Unlocked(p) PROVE NetInv'
  BY <1>10, <1>ended DEF Unlocked, lockVars
<1>11. ASSUME NEW p \in Procs, AllocatePort(p) PROVE NetInv'
  <2>1. PICK port \in Ports : isFirst(port, freePorts) /\ want' = [want EXCEPT ![p].port = port]
    BY <1>11 DEF AllocatePort
  <2>2. want'[p] \in Record /\ want'[p].port \notin net.ports
    BY <1>11, <2>1 DEF AllocatePort, isFirst, freePorts, NetInv, ProcInv, NetTypeOK, Record, starts
  <2>3. \A q \in Procs \ {p} : want'[q] = want[q]
    BY <2>1 DEF NetInv, NetTypeOK
  <2>4. NetTypeOK'
    BY <1>11, <2>1 DEF AllocatePort, NetInv, NetTypeOK, step, Phases
  <2>5. ProcInv(p)'
    BY <1>11, <2>2 DEF AllocatePort, NetInv, ProcInv, NetTypeOK, step, starts, lockVars
  <2> QED
    BY <1>11, <2>3, <2>4, <2>5, <1>frame DEF AllocatePort, NetInv, NetTypeOK, step, lockVars
<1>12. ASSUME NEW p \in Procs, AllocatePortFails(p) PROVE NetInv'
  <2>1. NetTypeOK'
    BY <1>12 DEF AllocatePortFails, NetInv, NetTypeOK, step, Phases
  <2>2. ProcInv(p)'
    BY <1>12 DEF AllocatePortFails, NetInv, NetTypeOK, ProcInv, step, starts, lockVars
  <2> QED
    BY <1>12, <2>1, <2>2, <1>frame DEF AllocatePortFails, NetInv, NetTypeOK, step, lockVars
<1>13. ASSUME NEW p \in Procs, AddNode(p) PROVE NetInv'
  <2>1. NetTypeOK'
    BY <1>13 DEF AddNode, NetInv, NetTypeOK, step, Phases, ProcInv, target, starts, Jobs, Entries
  <2>2. ProcInv(p)'
    BY <1>13 DEF AddNode, NetInv, NetTypeOK, ProcInv, step, starts, lockVars
  <2> QED
    BY <1>13, <2>1, <2>2, <1>frame DEF AddNode, NetInv, NetTypeOK, step, lockVars
<1>14. ASSUME NEW p \in Procs, AddNodeFails(p) PROVE NetInv'
  <2>1. NetTypeOK'
    BY <1>14 DEF AddNodeFails, NetInv, NetTypeOK, step, Phases
  <2>2. ProcInv(p)'
    BY <1>14 DEF AddNodeFails, NetInv, NetTypeOK, ProcInv, step, starts, lockVars
  <2> QED
    BY <1>14, <2>1, <2>2, <1>frame DEF AddNodeFails, NetInv, NetTypeOK, step, lockVars
<1>15. ASSUME NEW p \in Procs, AddCluster(p) PROVE NetInv'
  <2>1. target(p) \in Clusters
    BY <1>15 DEF AddCluster, NetInv, ProcInv, target, Jobs
  <2>2. out'[p] \in Books /\ BookOK(out'[p])
    BY <1>15, <2>1, WithClusterOK DEF AddCluster, NetInv, ProcInv, NetTypeOK
  <2>3. BookOK(net)' /\ net' \in Books
    BY <1>15, EmptyBookOK DEF AddCluster, BookOK, recorded
  <2>4. NetTypeOK'
    BY <1>15, <2>2, <2>3 DEF AddCluster, NetInv, NetTypeOK, step, Phases
  <2>5. ProcInv(p)'
    BY <1>15, <2>2 DEF AddCluster, NetInv, ProcInv, NetTypeOK, step, lockVars, BookOK, recorded
  <2> QED
    BY <1>15, <2>3, <2>4, <2>5, <1>alone DEF AddCluster, NetInv, NetTypeOK, step, lockVars
<1>16. ASSUME NEW p \in Procs, AddClusterFails(p) PROVE NetInv'
  <2>1. NetTypeOK'
    BY <1>16 DEF AddClusterFails, NetInv, NetTypeOK, step, Phases
  <2>2. ProcInv(p)'
    BY <1>16 DEF AddClusterFails, NetInv, NetTypeOK, ProcInv, step, starts, lockVars
  <2> QED
    BY <1>16, <2>1, <2>2, <1>frame DEF AddClusterFails, NetInv, NetTypeOK, step, lockVars
<1>17. ASSUME NEW p \in Procs, Write(p) PROVE NetInv'
  <2>1. BookOK(net)'
    BY <1>17 DEF Write, NetInv, ProcInv, BookOK, recorded
  <2>2. NetTypeOK'
    BY <1>17 DEF Write, NetInv, NetTypeOK, step, Phases
  <2>3. ProcInv(p)'
    BY <1>17 DEF Write, NetInv, NetTypeOK, ProcInv, step
  <2> QED
    BY <1>17, <2>1, <2>2, <2>3, <1>alone DEF Write, NetInv, NetTypeOK, step, lockVars
<1>18. ASSUME NEW p \in Procs, RemoveNodes(p) PROVE NetInv'
  <2>1. NetTypeOK'
    BY <1>18 DEF RemoveNodes, NetInv, NetTypeOK, step, Phases, Entries
  <2>2. ProcInv(p)'
    BY <1>18 DEF RemoveNodes, NetInv, NetTypeOK, ProcInv, step, starts, lockVars
  <2> QED
    BY <1>18, <2>1, <2>2, <1>frame DEF RemoveNodes, NetInv, NetTypeOK, step, lockVars
<1>19. ASSUME NEW p \in Procs, RemoveNodesFails(p) PROVE NetInv'
  BY <1>19, <1>ended DEF RemoveNodesFails, lockVars
<1>20. ASSUME NEW p \in Procs, RemoveCluster(p) PROVE NetInv'
  <2>1. target(p) \in Clusters
    BY <1>20 DEF RemoveCluster, NetInv, ProcInv, target, Jobs
  <2>2. CASE net.clusters[target(p)] = NoEntry
    <3>1. NetTypeOK'
      BY <1>20, <2>2 DEF RemoveCluster, NetInv, NetTypeOK, step, Phases
    <3>2. ProcInv(p)'
      BY <1>20, <2>2 DEF RemoveCluster, NetInv, NetTypeOK, ProcInv, step
    <3> QED
      BY <1>20, <2>2, <3>1, <3>2, <1>frame DEF RemoveCluster, NetInv, NetTypeOK, step, lockVars
  <2>3. CASE net.clusters[target(p)] # NoEntry
    <3>1. out' = [out EXCEPT ![p] = WithoutCluster(net, target(p))] /\ net' = EmptyBook
          /\ step(p, "write")
      BY <1>20, <2>3 DEF RemoveCluster
    <3>2. out'[p] \in Books /\ BookOK(out'[p])
      BY <3>1, <2>1, <2>3, WithoutClusterOK DEF NetInv, NetTypeOK
    <3>3. BookOK(net)' /\ net' \in Books
      BY <3>1, EmptyBookOK DEF BookOK, recorded
    <3>4. NetTypeOK'
      BY <1>20, <3>1, <3>2, <3>3 DEF RemoveCluster, NetInv, NetTypeOK, step, Phases
    <3>5. ProcInv(p)'
      BY <1>20, <3>1, <3>2
      DEF RemoveCluster, NetInv, ProcInv, NetTypeOK, step, lockVars, BookOK, recorded
    <3> QED
      BY <1>20, <3>1, <3>3, <3>4, <3>5, <1>alone
      DEF RemoveCluster, NetInv, NetTypeOK, step, lockVars
  <2> QED
    BY <2>2, <2>3
<1>21. ASSUME NEW p \in Procs, Kill(p) PROVE NetInv'
  BY <1>21, <1>ended DEF Kill, Die, goto, NetInv, LockInv, LockTypeOK
<1>22. ASSUME NEW p \in Procs, WriteFails(p) PROVE NetInv'
  <2>1. NetTypeOK'
    BY <1>22 DEF WriteFails, NetInv, NetTypeOK, step, Phases
  <2>2. ProcInv(p)'
    BY <1>22 DEF WriteFails, NetInv, NetTypeOK, ProcInv, step, starts, lockVars
  <2> QED
    BY <1>22, <2>1, <2>2, <1>frame DEF WriteFails, NetInv, NetTypeOK, step, lockVars
<1>23. ASSUME NEW p \in Procs, RemoveClusterFails(p) PROVE NetInv'
  <2>1. NetTypeOK'
    BY <1>23 DEF RemoveClusterFails, NetInv, NetTypeOK, step, Phases
  <2>2. ProcInv(p)'
    BY <1>23 DEF RemoveClusterFails, NetInv, NetTypeOK, ProcInv, step, starts, lockVars
  <2> QED
    BY <1>23, <2>1, <2>2, <1>frame DEF RemoveClusterFails, NetInv, NetTypeOK, step, lockVars
<1> QED
  BY <1>1, <1>2, <1>3, <1>4, <1>5, <1>6, <1>7, <1>8, <1>9, <1>10, <1>11, <1>12, <1>13, <1>14,
     <1>15, <1>16, <1>17, <1>18, <1>19, <1>20, <1>21, <1>22, <1>23
  DEF Next, Command

\* The invariant holds in every reachable state.
THEOREM NetInvHolds == Spec => []NetInv
  BY NetInvInit, NetInvStep, PTL DEF Spec

\* No tunnel port is recorded for two clusters and none is leaked, whatever
\* commands overlap, fail or are killed.
THEOREM PortsStayConsistent == Spec => []PortsConsistent
<1>1. NetInv => PortsConsistent
  BY DEF NetInv, PortsConsistent
<1> QED
  BY <1>1, NetInvHolds, PTL

-----------------------------------------------------------------------------
(***************************************************************************)
(* A careful world.                                                        *)
(***************************************************************************)

\* A step of one process.
NetStep(p) == Command(p) \/ Kill(p) \/ \E j \in Jobs : Begin(p, j)

\* A step of one process leaves the others, and the circumstances, as they are.
LEMMA NetOthers ==
    ASSUME NEW p \in Procs, NetInv, NetStep(p)
    PROVE  /\ world' = world
           /\ \A q \in Procs \ {p} : /\ call'[q] = call[q] /\ phase'[q] = phase[q]
                                     /\ job'[q] = job[q] /\ want'[q] = want[q]
                                     /\ out'[q] = out[q]
<1> USE DEF NetInv, NetTypeOK, LockInv, LockTypeOK
<1>1. CASE Lock(p)
  BY <1>1 DEF Lock, WaitFor, CreateFile, TimeOut, OpenFails, WritePid, goto, netVars
<1>2. CASE Unlock(p)
  BY <1>2 DEF Unlock, InDrop, DropRefused, DropOwn, RemoveFile, goto, netVars
<1>3. CASE AlreadyExists(p) \/ AllocateIPFails(p) \/ Unlocked(p) \/ RemoveNodesFails(p)
  BY <1>3 DEF AlreadyExists, AllocateIPFails, Unlocked, RemoveNodesFails, end, step, lockVars
<1>4. CASE LockRefused(p) \/ Kill(p)
  BY <1>4 DEF LockRefused, GiveUp, Kill, Die, goto, end, step
<1>5. CASE \/ StartCreate(p) \/ AllocatePortFails(p) \/ AddNode(p) \/ AddNodeFails(p)
           \/ AddClusterFails(p) \/ Write(p) \/ WriteFails(p) \/ RemoveNodes(p)
           \/ RemoveClusterFails(p)
  BY <1>5 DEF StartCreate, AllocatePortFails, AddNode, AddNodeFails, AddClusterFails, Write,
     WriteFails, RemoveNodes, RemoveClusterFails, step, lockVars
<1>6. CASE AllocateIP(p) \/ AllocatePort(p)
  BY <1>6 DEF AllocateIP, AllocatePort, step, lockVars
<1>7. CASE AddCluster(p) \/ RemoveCluster(p)
  BY <1>7 DEF AddCluster, RemoveCluster, step, lockVars
<1>8. CASE \E j \in Jobs : Begin(p, j)
  BY <1>8 DEF Begin, step, lockVars
<1> QED
  BY <1>1, <1>2, <1>3, <1>4, <1>5, <1>6, <1>7, <1>8 DEF NetStep, Command

\* A command line names a cluster.
LEMMA TargetNamed == \A p \in Procs : job[p] \in Jobs => target(p) \in Clusters
  BY DEF Jobs, target

\* In a careful world nobody is refused the lock or killed while holding it.
LEMMA NetLivingStep ==
    ASSUME NetInv, HeldByTheLiving, careful, NEW p \in Procs, NetStep(p)
    PROVE  HeldByTheLiving'
<1>1. CASE Lock(p) \/ Unlock(p)
  <2>1. ~(TimeOut(p) /\ (world.slow \/ holderGone)) /\ ~OpenFails(p)
    BY PidLockAssumption
    DEF careful, TimeOut, OpenFails, holderGone, HeldByTheLiving, NetInv, LockInv, LockTypeOK
  <2> QED
    BY <1>1, <2>1, LivingStep DEF Lock, Unlock, careful, NetInv
<1>2. CASE ~(Lock(p) \/ Unlock(p))
  <2>1. ~LockRefused(p) /\ ~Kill(p)
    BY DEF LockRefused, GiveUp, Kill, careful, HeldByTheLiving
  <2>2. UNCHANGED lockVars
    BY <1>2, <2>1 DEF NetStep, Command, Begin, AlreadyExists, StartCreate, AllocateIP,
       AllocateIPFails, Unlocked, AllocatePort, AllocatePortFails, AddNode, AddNodeFails,
       AddCluster, AddClusterFails, Write, WriteFails, RemoveNodes, RemoveNodesFails,
       RemoveCluster, RemoveClusterFails
  <2> QED
    BY <2>2 DEF HeldByTheLiving, lockVars
<1> QED
  BY <1>1, <1>2

\* What the step of a running process on its own cluster leaves alone: the
\* other clusters lag as before.
LEMMA LagsElsewhere ==
    ASSUME NEW p \in Procs, p \in running,
           \A q \in Procs \ {p} : phase'[q] = phase[q] /\ job'[q] = job[q],
           job'[p] = job[p] \/ phase'[p] \in {"idle", "dead"}
    PROVE  \A c : c # target(p) => (lags(c)' <=> lags(c))
  BY DEF lags, lagging, running, target, starts

\* A process in one of these phases is the only one busy with its cluster.
LEMMA LagsHere ==
    ASSUME CarefulInv, NEW p \in Procs, p \in running
    PROVE  lags(target(p)) <=> lagging(p)
  BY DEF CarefulInv, lags

\* The step of a process on its own cluster that neither writes the file nor
\* is about to.
LEMMA CarefulFrame ==
    ASSUME NetInv, CarefulInv, NEW p \in Procs, NetStep(p), p \in running, HeldByTheLiving',
           net' = net, phase[p] # "write", phase'[p] # "write",
           job'[p] = job[p] \/ phase'[p] \in {"idle", "dead"},
           \A c \in Clusters : c # target(p) => vm'[c] = vm[c],
           phase'[p] \in {"ip", "lock", "node"} => vm'[target(p)] = NoEntry,
           phase'[p] = "add" => net.clusters[target(p)] = NoEntry /\ vm'[target(p)] = want'[p],
           (lagging(p)' /\ job'[p] = job[p]) \/ (~lagging(p) /\ vm'[target(p)] = vm[target(p)])
    PROVE  CarefulInv'
<1>others. \A q \in Procs \ {p} : /\ call'[q] = call[q] /\ phase'[q] = phase[q]
                                  /\ job'[q] = job[q] /\ want'[q] = want[q]
                                  /\ out'[q] = out[q]
  BY NetOthers
<1>1. \A q, r \in running' : target(q)' = target(r)' => q = r
  BY <1>others DEF CarefulInv, running, target
<1>2. ASSUME NEW q \in Procs, q # p
      PROVE  /\ phase'[q] \in {"ip", "lock", "node"} => vm'[target(q)'] = NoEntry
             /\ phase'[q] = "add" => net'.clusters[target(q)'] = NoEntry
                                       /\ vm'[target(q)'] = want'[q]
  <2>1. phase[q] \in {"ip", "lock", "node", "add"} => target(q) \in Clusters /\ target(q) # target(p)
    BY <1>2, TargetNamed DEF NetInv, ProcInv, CarefulInv, running
  <2>2. target(q)' = target(q)
    BY <1>others, <1>2 DEF target
  <2> QED
    BY <1>2, <1>others, <2>1, <2>2 DEF CarefulInv
<1>3. target(p)' = target(p) \/ phase'[p] \in {"idle", "dead"}
  BY DEF target
<1>4. ASSUME NEW book, Described(book) PROVE \A c \in Clusters : lags(c)' \/ book.clusters[c] = vm'[c]
  <2> SUFFICES ASSUME NEW c \in Clusters PROVE lags(c)' \/ book.clusters[c] = vm'[c]
    OBVIOUS
  <2>1. CASE c # target(p)
    BY <2>1, <1>4, <1>others, LagsElsewhere DEF Described
  <2>2. CASE c = target(p) /\ lagging(p)' /\ job'[p] = job[p]
    BY <2>2 DEF lags, lagging, running, target
  <2>3. CASE c = target(p) /\ ~lagging(p) /\ vm'[target(p)] = vm[target(p)]
    BY <2>3, <1>4, LagsHere DEF Described
  <2> QED
    BY <2>1, <2>2, <2>3
<1>5. \A q \in Procs : phase'[q] = "write" => Described(out[q])'
  BY <1>4, <1>others DEF CarefulInv, Described
<1>6. (\A q \in Procs : phase'[q] # "write") => Described(net)'
  BY <1>4, <1>others DEF CarefulInv, Described
<1> QED
  BY <1>1, <1>2, <1>3, <1>5, <1>6 DEF CarefulInv

\* The steps of the process that holds the lock and reads and writes the file.
LEMMA CarefulWrite ==
    ASSUME NetInv, CarefulInv, NEW p \in Procs, NetStep(p), p \in running, HeldByTheLiving',
           call[p] = "held", call'[p] = "held", vm' = vm, job' = job, want' = want,
           phase'[p] \in {"write", "unlock"},
           phase'[p] = "write" => Described(out[p])',
           phase'[p] = "unlock" => Described(net)'
    PROVE  CarefulInv'
<1>others. \A q \in Procs \ {p} : phase'[q] = phase[q] /\ call'[q] = call[q]
  BY NetOthers
<1>alone. \A q \in Procs \ {p} : phase[q] \notin {"node", "add", "write"}
  BY DEF NetInv, ProcInv, LockInv
<1>1. \A q, r \in running' : target(q)' = target(r)' => q = r
  BY <1>others DEF CarefulInv, running, target
<1>2. \A q \in Procs \ {p} : phase'[q] \in {"ip", "lock", "node"} => vm'[target(q)'] = NoEntry
  BY <1>others DEF CarefulInv, target
<1> QED
  BY <1>others, <1>alone, <1>1, <1>2 DEF CarefulInv

\* Every step of a command keeps CarefulInv in a careful world.
LEMMA CarefulStep ==
    ASSUME NetInv, CarefulInv, careful, NEW p \in Procs, NetStep(p)
    PROVE  CarefulInv'
<1>living. HeldByTheLiving'
  BY NetLivingStep DEF CarefulInv
<1>type. /\ net \in Books /\ phase \in [Procs -> Phases] /\ vm \in [Clusters -> Entries]
         /\ job \in [Procs -> Jobs \cup {NoJob}] /\ out \in [Procs -> Books]
  BY DEF NetInv, NetTypeOK
<1>wtype. want \in [Procs -> [ip : Addresses \cup {NoEntry}, port : Ports \cup {NoEntry}]]
  BY DEF NetInv, NetTypeOK
<1>p. ProcInv(p)
  BY DEF NetInv
<1>target. phase[p] \in {"begin", "ip", "lock", "node", "add"} => target(p) \in Clusters
  BY <1>p, TargetNamed DEF ProcInv
<1>current. phase[p] \in {"node", "add"} \/ call[p] = "held" => phase[p] = "write" \/ Described(net)
  <2>1. phase[p] \in {"node", "add"} \/ call[p] = "held" => \A q \in Procs \ {p} : phase[q] # "write"
    BY DEF NetInv, ProcInv, LockInv
  <2> QED
    BY <2>1 DEF CarefulInv
<1>frame. ASSUME p \in running, net' = net, phase[p] # "write", phase'[p] # "write",
                 job'[p] = job[p] \/ phase'[p] \in {"idle", "dead"}, vm' = vm,
                 phase'[p] \in {"ip", "lock", "node"} => vm[target(p)] = NoEntry,
                 phase'[p] = "add" => phase[p] = "add" /\ want' = want,
                 (lagging(p)' /\ job'[p] = job[p]) \/ ~lagging(p)
          PROVE  CarefulInv'
  <2>1. phase'[p] = "add" => net.clusters[target(p)] = NoEntry /\ vm'[target(p)] = want'[p]
    BY <1>frame DEF CarefulInv
  <2> QED
    BY <1>frame, <2>1, <1>living, CarefulFrame
<1>1. CASE Lock(p) \/ Unlock(p)
  <2>1. phase[p] \in {"lock", "unlock"} /\ UNCHANGED netVars
    BY <1>1 DEF Lock, Unlock
  <2> QED
    BY <2>1, <1>frame DEF netVars, running, lagging, starts, CarefulInv
<1>2. CASE AlreadyExists(p) \/ AllocateIPFails(p) \/ Unlocked(p) \/ RemoveNodesFails(p)
  <2>1. /\ phase[p] \in {"begin", "ip", "unlock"} /\ net' = net /\ vm' = vm /\ phase'[p] = "idle"
    BY <1>2, <1>type
    DEF AlreadyExists, AllocateIPFails, Unlocked, RemoveNodesFails, end, step
  <2> QED
    BY <2>1, <1>frame DEF running, lagging
<1>3. CASE LockRefused(p) \/ Kill(p)
  BY <1>3 DEF LockRefused, GiveUp, Kill, careful, CarefulInv, HeldByTheLiving
<1>4. CASE StartCreate(p)
  BY <1>4, <1>frame, <1>type DEF StartCreate, step, running, lagging
<1>5. CASE AllocateIP(p)
  <2>1. phase[p] = "ip" /\ phase'[p] = "lock" /\ UNCHANGED <<net, vm, job>>
    BY <1>5, <1>type DEF AllocateIP, step
  <2> QED
    BY <2>1, <1>frame DEF running, lagging, CarefulInv
<1>6. CASE AllocatePort(p)
  <2>1. phase[p] = "lock" /\ starts(p) /\ phase'[p] = "node" /\ UNCHANGED <<net, vm, job>>
    BY <1>6, <1>type DEF AllocatePort, step
  <2> QED
    BY <2>1, <1>frame DEF running, lagging, CarefulInv
<1>7. CASE AllocatePortFails(p)
  <2>1. phase[p] = "lock" /\ starts(p) /\ phase'[p] = "unlock" /\ UNCHANGED <<net, vm, job>>
    BY <1>7, <1>type DEF AllocatePortFails, step
  <2> QED
    BY <2>1, <1>frame DEF running, lagging
<1>8. CASE AddNode(p)
  <2>1. /\ phase[p] = "node" /\ phase'[p] = "add" /\ UNCHANGED <<net, job, want>>
        /\ vm' = [vm EXCEPT ![target(p)] = want[p]] /\ vm[target(p)] = NoEntry
    BY <1>8, <1>type DEF AddNode, step
  <2>2. p \in running /\ ~lagging(p)
    BY <2>1 DEF running, lagging
  <2>3. net.clusters[target(p)] = NoEntry
    BY <2>1, <2>2, <1>target, <1>current, LagsHere DEF Described
  <2> QED
    BY <2>1, <2>2, <2>3, <1>living, <1>type, <1>target, CarefulFrame DEF lagging
<1>9. CASE AddNodeFails(p)
  <2>1. phase[p] = "node" /\ phase'[p] = "unlock" /\ UNCHANGED <<net, vm, job>>
    BY <1>9, <1>type DEF AddNodeFails, step
  <2> QED
    BY <2>1, <1>frame DEF running, lagging
<1>10. CASE AddCluster(p)
  <2>1. /\ phase[p] = "add" /\ phase'[p] = "write" /\ UNCHANGED <<lockVars, vm, job, want>>
        /\ phase' = [phase EXCEPT ![p] = "write"]
        /\ out'[p] = WithCluster(net, target(p), want[p])
    BY <1>10, <1>type DEF AddCluster, step
  <2>2. p \in running /\ call[p] = "held" /\ call'[p] = "held"
    BY <2>1, <1>p DEF running, ProcInv, lockVars
  <2>3. out'[p].clusters = [net.clusters EXCEPT ![target(p)] = want[p]]
    BY <2>1, <1>type DEF WithCluster, Books
  <2>4. Described(out[p])'
    <3> SUFFICES ASSUME NEW c \in Clusters PROVE lags(c)' \/ out'[p].clusters[c] = vm'[c]
      BY DEF Described
    <3>1. CASE c = target(p)
      BY <3>1, <2>1, <2>3, <1>type DEF CarefulInv, Books
    <3>2. CASE c # target(p)
      <4>1. lags(c)' <=> lags(c)
        BY <3>2, <2>1, <2>2, <1>type, LagsElsewhere
      <4>2. lags(c) \/ net.clusters[c] = vm[c]
        BY <2>1, <1>current DEF Described
      <4>3. out'[p].clusters[c] = net.clusters[c]
        BY <3>2, <2>3, <1>type DEF Books
      <4> QED
        BY <4>1, <4>2, <4>3, <2>1
    <3> QED
      BY <3>1, <3>2
  <2> QED
    BY <2>1, <2>2, <2>4, <1>living, CarefulWrite
<1>11. CASE AddClusterFails(p)
  BY <1>11 DEF AddClusterFails, careful, CarefulInv
<1>12. CASE Write(p)
  <2>1. /\ phase[p] = "write" /\ phase' = [phase EXCEPT ![p] = "unlock"]
        /\ phase'[p] = "unlock" /\ UNCHANGED <<lockVars, vm, job, want>>
        /\ net' = out[p]
    BY <1>12, <1>type DEF Write, step
  <2>2. p \in running /\ call[p] = "held" /\ call'[p] = "held"
    BY <2>1, <1>p DEF running, ProcInv, lockVars
  <2>3. \A c : lags(c)' <=> lags(c)
    BY <2>1, <1>type DEF lags, lagging, running, target, starts
  <2>4. Described(net)'
    BY <2>1, <2>3 DEF CarefulInv, Described
  <2> QED
    BY <2>1, <2>2, <2>4, <1>living, CarefulWrite
<1>13. CASE WriteFails(p) \/ RemoveClusterFails(p)
  BY <1>13 DEF WriteFails, RemoveClusterFails, careful
<1>14. CASE RemoveNodes(p)
  <2>1. /\ phase[p] = "begin" /\ phase'[p] = "lock" /\ ~starts(p) /\ UNCHANGED <<net, job, want>>
        /\ vm' = [vm EXCEPT ![target(p)] = NoEntry]
    BY <1>14, <1>type DEF RemoveNodes, step, starts
  <2>2. p \in running /\ lagging(p)'
    BY <2>1 DEF running, lagging, starts
  <2> QED
    BY <2>1, <2>2, <1>living, <1>type, <1>target, CarefulFrame
<1>15. CASE RemoveCluster(p)
  <2>1. /\ phase[p] = "lock" /\ ~starts(p) /\ UNCHANGED <<lockVars, vm, job, want>>
        /\ call[p] = "held" /\ call'[p] = "held" /\ p \in running
        /\ vm[target(p)] = NoEntry /\ Described(net)
    BY <1>15, <1>current DEF RemoveCluster, starts, lockVars, running, CarefulInv
  <2>2. CASE net.clusters[target(p)] = NoEntry
    <3>1. phase' = [phase EXCEPT ![p] = "unlock"] /\ phase'[p] = "unlock" /\ net' = net
      BY <1>15, <2>2, <1>type DEF RemoveCluster, step
    <3>2. ASSUME NEW c \in Clusters PROVE lags(c)' \/ net'.clusters[c] = vm'[c]
      <4>1. CASE c = target(p)
        BY <4>1, <2>1, <2>2, <3>1
      <4>2. CASE c # target(p)
        <5>1. lags(c)' <=> lags(c)
          BY <4>2, <2>1, <3>1, <1>type, LagsElsewhere
        <5> QED
          BY <5>1, <2>1, <3>1 DEF Described
      <4> QED
        BY <4>1, <4>2
    <3>3. Described(net)'
      BY <3>2 DEF Described
    <3> QED
      BY <2>1, <3>1, <3>3, <1>living, CarefulWrite
  <2>3. CASE net.clusters[target(p)] # NoEntry
    <3>1. /\ phase' = [phase EXCEPT ![p] = "write"] /\ phase'[p] = "write"
          /\ out'[p] = WithoutCluster(net, target(p))
      BY <1>15, <2>3, <1>type DEF RemoveCluster, step
    <3>2. out'[p].clusters = [net.clusters EXCEPT ![target(p)] = NoEntry]
      BY <3>1, <1>type DEF WithoutCluster, Books
    <3>3. ASSUME NEW c \in Clusters PROVE lags(c)' \/ out'[p].clusters[c] = vm'[c]
      <4>1. CASE c = target(p)
        BY <4>1, <2>1, <3>2, <1>type DEF Books
      <4>2. CASE c # target(p)
        <5>1. lags(c)' <=> lags(c)
          BY <4>2, <2>1, <3>1, <1>type, LagsElsewhere
        <5>2. out'[p].clusters[c] = net.clusters[c]
          BY <4>2, <3>2, <1>type DEF Books
        <5> QED
          BY <5>1, <5>2, <2>1, <3>1 DEF Described
      <4> QED
        BY <4>1, <4>2
    <3>4. Described(out[p])'
      BY <3>3 DEF Described
    <3> QED
      BY <2>1, <3>1, <3>4, <1>living, CarefulWrite
  <2> QED
    BY <2>2, <2>3
<1>16. ASSUME NEW j \in Jobs, Begin(p, j) PROVE CarefulInv'
  <2>1. /\ phase' = [phase EXCEPT ![p] = "begin"] /\ job' = [job EXCEPT ![p] = j]
        /\ p \notin running /\ UNCHANGED <<net, vm, want, out>>
        /\ \A q \in running : target(q) # j.name
    BY <1>16 DEF Begin, step, running, careful
  <2>2. running' = running \cup {p} /\ \A q \in running : target(q)' = target(q)
    BY <2>1, <1>type DEF running, target
  <2>3. target(p)' = j.name
    BY <2>1, <1>type DEF target
  <2>4. \A c : lags(c)' <=> lags(c)
    BY <2>1, <2>2, <1>type DEF lags, lagging, running, target, starts
  <2>5. \A q \in Procs : phase'[q] # "begin" => phase'[q] = phase[q] /\ target(q)' = target(q)
    BY <2>1, <1>type DEF target
  <2>6. \A q \in Procs : phase'[q] = "begin" \/ phase'[q] = phase[q]
    BY <2>1, <1>type
  <2>7. (\A q \in Procs : phase'[q] # "write") => Described(net)'
    <3>1. (\A q \in Procs : phase'[q] # "write") => \A q \in Procs : phase[q] # "write"
      BY <2>1, <1>type DEF running
    <3> QED
      BY <3>1, <2>1, <2>4 DEF CarefulInv, Described
  <2>8. \A q \in Procs : phase'[q] = "write" => Described(out[q])'
    BY <2>1, <2>4, <2>5 DEF CarefulInv, Described
  <2>9. \A q, r \in running' : target(q)' = target(r)' => q = r
    BY <2>1, <2>2, <2>3 DEF CarefulInv
  <2> QED
    BY <2>1, <2>5, <2>7, <2>8, <2>9, <1>living DEF CarefulInv
<1> QED
  BY <1>1, <1>2, <1>3, <1>4, <1>5, <1>6, <1>7, <1>8, <1>9, <1>10, <1>11, <1>12, <1>13,
     <1>14, <1>15, <1>16 DEF NetStep, Command

\* The strengthened invariant holds in every reachable state.
THEOREM DescribedInvHolds == Spec => []DescribedInv
<1>1. Init => DescribedInv
  <2> SUFFICES ASSUME Init PROVE DescribedInv
    OBVIOUS
  <2>1. CarefulInv
    BY DEF Init, LockInit, CarefulInv, HeldByTheLiving, running, Described, EmptyBook
  <2> QED
    BY <2>1, NetInvInit DEF DescribedInv
<1>2. DescribedInv /\ [Next]_vars => DescribedInv'
  <2> SUFFICES ASSUME DescribedInv, [Next]_vars PROVE DescribedInv'
    OBVIOUS
  <2>1. NetInv'
    BY NetInvStep DEF DescribedInv
  <2>2. CASE UNCHANGED vars
    BY <2>1, <2>2 DEF DescribedInv, vars, careful, CarefulInv, HeldByTheLiving, running, target,
       Described, lags, lagging, starts
  <2>3. ASSUME NEW p \in Procs, NetStep(p) PROVE DescribedInv'
    <3>1. world' = world
      BY <2>3, NetOthers DEF DescribedInv
    <3>2. careful => CarefulInv'
      BY <2>3, CarefulStep DEF DescribedInv
    <3> QED
      BY <2>1, <3>1, <3>2 DEF DescribedInv, careful
  <2> QED
    BY <2>2, <2>3 DEF Next, NetStep
<1> QED
  BY <1>1, <1>2, PTL DEF Spec

\* Without faults, slow holders and two commands on one cluster, the network
\* file describes the virtual machines that exist and no two of them forward
\* the same port of the host, however commands on different clusters overlap.
THEOREM FileDescribes == Spec => []FileDescribesVMs
<1>1. DescribedInv => VMPortsDistinct
  <2> SUFFICES ASSUME DescribedInv, careful, NEW c \in Clusters, NEW d \in Clusters,
                      vm[c] # NoEntry, vm[d] # NoEntry, vm[c].port = vm[d].port
               PROVE  c = d
    BY DEF VMPortsDistinct
  <2>1. NetInv /\ CarefulInv
    BY DEF DescribedInv
  <2>2. ASSUME NEW e \in Clusters, lags(e), vm[e] # NoEntry
        PROVE  \E p \in Procs : /\ phase[p] = "add" /\ target(p) = e /\ vm[e] = want[p]
                                /\ vm[e].port \notin net.ports
    BY <2>1, <2>2 DEF lags, lagging, running, CarefulInv, NetInv, ProcInv
  <2>3. ASSUME NEW p \in Procs, phase[p] = "write" PROVE c = d
    <3>1. \A q \in Procs : phase[q] # "add"
      BY <2>1, <2>3 DEF NetInv, ProcInv, LockInv
    <3>2. out[p].clusters[c] = vm[c] /\ out[p].clusters[d] = vm[d]
      BY <2>1, <2>2, <2>3, <3>1 DEF CarefulInv, Described
    <3> QED
      BY <2>1, <2>3, <3>2 DEF NetInv, ProcInv, BookOK, recorded
  <2>4. ASSUME \A p \in Procs : phase[p] # "write" PROVE c = d
    <3>1. \A e \in Clusters : lags(e) \/ net.clusters[e] = vm[e]
      BY <2>1, <2>4 DEF CarefulInv, Described
    <3>2. \A e \in Clusters : vm[e] # NoEntry /\ ~lags(e) => vm[e].port \in net.ports
      BY <2>1, <3>1 DEF NetInv, BookOK, recorded
    <3>3. CASE ~lags(c) /\ ~lags(d)
      BY <2>1, <3>1, <3>3 DEF NetInv, BookOK, recorded
    <3>4. CASE lags(c) /\ lags(d)
      BY <2>1, <2>2, <3>4 DEF NetInv, ProcInv, LockInv
    <3>5. CASE lags(c) /\ ~lags(d)
      BY <2>2, <3>2, <3>5
    <3>6. CASE ~lags(c) /\ lags(d)
      BY <2>2, <3>2, <3>6
    <3> QED
      BY <3>3, <3>4, <3>5, <3>6
  <2> QED
    BY <2>3, <2>4
<1>2. DescribedInv => RecordMatchesVM
  BY DEF DescribedInv, RecordMatchesVM, CarefulInv, Described, lags
<1> QED
  BY <1>1, <1>2, DescribedInvHolds, PTL DEF FileDescribesVMs

\* The libvirt commands implement the calls of the pid lock, and keep its
\* promise: it excludes, and no process removes another's pidfile.
THEOREM NetKeepsLock == Spec => LockKept
<1>1. NetInv => LockInv
  BY DEF NetInv
<1> QED
  BY <1>1, NetInvHolds, NetLockStep, KeptStep, PTL DEF Spec, LockKept

-----------------------------------------------------------------------------
(***************************************************************************)
(* The nodes of a cluster: LibvirtDriver.                                  *)
(***************************************************************************)

\* Nothing of the other clusters changes.
OthersKept(c) ==
    \A d \in ClusterNames \ {c} :
        /\ boot'[d] = boot[d] /\ ign'[d] = ign[d] /\ dom'[d] = dom[d] /\ kube'[d] = kube[d]
        /\ stage'[d] = stage[d] /\ node'[d] = node[d] /\ todo'[d] = todo[d] /\ last'[d] = last[d]

\* The base image is written only by the holder of the lock, which changes hands
\* only by c, or is replaced.
SharedKept(c) ==
    /\ base' # base => holder = c \/ base' = "replaced"
    /\ base = "replaced" => base' = "replaced"
    /\ base # "none" => base' # "none"
    /\ \/ holder' = holder
       \/ holder = Nobody /\ holder' = c
       \/ holder = c /\ holder' \notin ClusterNames
       \/ holder = Stale /\ holder' = Nobody

\* A step on c keeps the parts of the invariant about other clusters.
LEMMA FrameOthers ==
    ASSUME DriverInv, NEW c \in ClusterNames, OthersKept(c), SharedKept(c),
           TypeOK', issued' >= 0, HostInv(c)', CommandInv(c)'
    PROVE  DriverInv'
<1>1. ASSUME NEW d \in ClusterNames \ {c} PROVE HostInv(d)' /\ CommandInv(d)'
    <2>1. HostInv(d) /\ CommandInv(d)
        BY DEF DriverInv
    <2>2. HostInv(d)'
        BY <2>1 DEF HostInv, OthersKept, SharedKept
    <2>3. inLock(d)' <=> inLock(d)
        BY DEF OthersKept, inLock
    <2>4. holder' = d <=> holder = d
        BY DriverAssumption DEF SharedKept
    <2> QED BY <2>1, <2>2, <2>3, <2>4 DEF CommandInv, OthersKept, SharedKept
<1> QED BY <1>1 DEF DriverInv

\* What a command that returns leaves of its own state.
LEMMA FinishTypes ==
    ASSUME TypeOK, NEW c \in ClusterNames, NEW how, finish(c, how)
    PROVE  /\ stage' \in [ClusterNames -> Stages]
           /\ node' \in [ClusterNames -> Nodes]
           /\ todo' \in [ClusterNames -> SUBSET Nodes]
<1>1. stage' \in [ClusterNames -> Stages]
    BY DEF TypeOK, finish, move, Stages
<1>2. node' \in [ClusterNames -> Nodes]
    BY DEF TypeOK, finish, Nodes
<1>3. todo' \in [ClusterNames -> SUBSET Nodes]
    BY DEF TypeOK, finish
<1> QED BY <1>1, <1>2, <1>3

\* The host is empty and nothing runs.
LEMMA DriverInvInit == DriverInit => DriverInv
<1> SUFFICES ASSUME DriverInit PROVE DriverInv
    OBVIOUS
<1>1. TypeOK
    BY DriverAssumption DEF DriverInit, TypeOK, Stages, Nodes, NoVolume, NoIgnition
<1>2. ASSUME NEW c \in ClusterNames PROVE HostInv(c) /\ CommandInv(c)
    BY DriverAssumption DEF DriverInit, HostInv, CommandInv, inLock, NoVolume, NoIgnition
<1> QED BY <1>1, <1>2 DEF DriverInv, DriverInit

\* BeginStart keeps the invariant.
LEMMA BeginStartStep ==
    ASSUME DriverInv, NEW c \in ClusterNames, BeginStart(c)
    PROVE  DriverInv'
<1> USE DriverAssumption DEF DriverInv, BeginStart, move, finish, hostVars
<1>0. HostInv(c) /\ CommandInv(c)
    OBVIOUS
<1>1. TypeOK' /\ issued' >= 0
    BY DEF TypeOK, Stages, Nodes, NoVolume, NoIgnition, Blank, firstBoot, nextNode, afterNode
<1>2. OthersKept(c) /\ SharedKept(c)
    BY <1>0 DEF TypeOK, OthersKept, SharedKept, nextNode, afterNode, CommandInv, inLock
<1>3. HostInv(c)'
    BY <1>0 DEF TypeOK, HostInv, CommandInv, Nodes, NoVolume, NoIgnition, Blank, firstBoot, nextNode, afterNode
<1>4. CommandInv(c)'
    BY <1>0 DEF TypeOK, CommandInv, inLock, Nodes, NoVolume, Blank, firstBoot, nextNode, afterNode, up
<1> QED BY <1>1, <1>2, <1>3, <1>4, FrameOthers

\* StartExisting keeps the invariant.
LEMMA StartExistingStep ==
    ASSUME DriverInv, NEW c \in ClusterNames, StartExisting(c)
    PROVE  DriverInv'
<1> USE DriverAssumption DEF DriverInv, StartExisting, move, finish, hostVars
<1>0. HostInv(c) /\ CommandInv(c)
    OBVIOUS
<1>n. First \in Nodes /\ Others \subseteq Nodes
    BY DEF Nodes
<1>1. TypeOK' /\ issued' >= 0
    <2>1. boot' \in [ClusterNames -> [Nodes -> Int]] /\ ign' \in [ClusterNames -> [Nodes -> Int]]
        BY <1>n DEF TypeOK, NoVolume, NoIgnition, Blank, firstBoot
    <2>2. dom' \in [ClusterNames -> [Nodes -> {"none", "off", "on"}]]
        BY <1>n DEF TypeOK
    <2>3. kube' \in [ClusterNames -> Int] /\ issued' \in Int /\ issued' >= 0 /\ base' = base
        BY DEF TypeOK, NoIgnition
    <2>4. stage' \in [ClusterNames -> Stages] /\ node' \in [ClusterNames -> Nodes]
        BY <1>n DEF TypeOK, Stages, nextNode, afterNode
    <2>5. todo' \in [ClusterNames -> SUBSET Nodes]
        BY <1>n DEF TypeOK, nextNode, afterNode
    <2>6. /\ holder' \in ClusterNames \cup {Nobody, Stale}
          /\ last' \in [ClusterNames -> {"failed", "started", "deleted"}]
        BY DEF TypeOK, nextNode, afterNode
    <2> QED BY <2>1, <2>2, <2>3, <2>4, <2>5, <2>6 DEF TypeOK
<1>2. OthersKept(c) /\ SharedKept(c)
    BY <1>0 DEF TypeOK, OthersKept, SharedKept, nextNode, afterNode, CommandInv, inLock
<1>3. HostInv(c)'
    BY <1>0 DEF TypeOK, HostInv, CommandInv, Nodes, NoVolume, NoIgnition, Blank, firstBoot, nextNode, afterNode
<1>4. CommandInv(c)'
    BY <1>0 DEF TypeOK, CommandInv, inLock, Nodes, NoVolume, Blank, firstBoot, nextNode, afterNode, up
<1> QED BY <1>1, <1>2, <1>3, <1>4, FrameOthers

\* Alive keeps the invariant.
LEMMA AliveStep ==
    ASSUME DriverInv, NEW c \in ClusterNames, Alive(c)
    PROVE  DriverInv'
<1> USE DriverAssumption DEF DriverInv, Alive, move, finish, hostVars
<1>0. HostInv(c) /\ CommandInv(c)
    OBVIOUS
<1>1. TypeOK' /\ issued' >= 0
    BY DEF TypeOK, Stages, Nodes, NoVolume, NoIgnition, Blank, firstBoot, nextNode, afterNode
<1>2. OthersKept(c) /\ SharedKept(c)
    BY <1>0 DEF TypeOK, OthersKept, SharedKept, nextNode, afterNode, CommandInv, inLock
<1>3. HostInv(c)'
    BY <1>0 DEF TypeOK, HostInv, CommandInv, Nodes, NoVolume, NoIgnition, Blank, firstBoot, nextNode, afterNode
<1>4. CommandInv(c)'
    BY <1>0 DEF TypeOK, CommandInv, inLock, Nodes, NoVolume, Blank, firstBoot, nextNode, afterNode, up
<1> QED BY <1>1, <1>2, <1>3, <1>4, FrameOthers

\* StartNew keeps the invariant.
LEMMA StartNewStep ==
    ASSUME DriverInv, NEW c \in ClusterNames, StartNew(c)
    PROVE  DriverInv'
<1> USE DriverAssumption DEF DriverInv, StartNew, move, finish, hostVars
<1>0. HostInv(c) /\ CommandInv(c)
    OBVIOUS
<1>1. TypeOK' /\ issued' >= 0
    BY DEF TypeOK, Stages, Nodes, NoVolume, NoIgnition, Blank, firstBoot, nextNode, afterNode
<1>2. OthersKept(c) /\ SharedKept(c)
    BY <1>0 DEF TypeOK, OthersKept, SharedKept, nextNode, afterNode, CommandInv, inLock
<1>3. HostInv(c)'
    BY <1>0 DEF TypeOK, HostInv, CommandInv, Nodes, NoVolume, NoIgnition, Blank, firstBoot, nextNode, afterNode
<1>4. CommandInv(c)'
    BY <1>0 DEF TypeOK, CommandInv, inLock, Nodes, NoVolume, Blank, firstBoot, nextNode, afterNode, up
<1> QED BY <1>1, <1>2, <1>3, <1>4, FrameOthers

\* TakeLock keeps the invariant.
LEMMA TakeLockStep ==
    ASSUME DriverInv, NEW c \in ClusterNames, TakeLock(c)
    PROVE  DriverInv'
<1> USE DriverAssumption DEF DriverInv, TakeLock, move, finish, hostVars
<1>0. HostInv(c) /\ CommandInv(c)
    OBVIOUS
<1>1. TypeOK' /\ issued' >= 0
    BY DEF TypeOK, Stages, Nodes, NoVolume, NoIgnition, Blank, firstBoot, nextNode, afterNode
<1>2. OthersKept(c) /\ SharedKept(c)
    BY <1>0 DEF TypeOK, OthersKept, SharedKept, nextNode, afterNode, CommandInv, inLock
<1>3. HostInv(c)'
    BY <1>0 DEF TypeOK, HostInv, CommandInv, Nodes, NoVolume, NoIgnition, Blank, firstBoot, nextNode, afterNode
<1>4. CommandInv(c)'
    BY <1>0 DEF TypeOK, CommandInv, inLock, Nodes, NoVolume, Blank, firstBoot, nextNode, afterNode, up
<1> QED BY <1>1, <1>2, <1>3, <1>4, FrameOthers

\* GeneratePKI keeps the invariant.
LEMMA GeneratePKIStep ==
    ASSUME DriverInv, NEW c \in ClusterNames, GeneratePKI(c)
    PROVE  DriverInv'
<1> USE DriverAssumption DEF DriverInv, GeneratePKI, move, finish, hostVars
<1>0. HostInv(c) /\ CommandInv(c)
    OBVIOUS
<1>n. First \in Nodes /\ Others \subseteq Nodes
    BY DEF Nodes
<1>1. TypeOK' /\ issued' >= 0
    <2>1. boot' \in [ClusterNames -> [Nodes -> Int]] /\ ign' \in [ClusterNames -> [Nodes -> Int]]
        BY <1>n DEF TypeOK, NoVolume, NoIgnition, Blank, firstBoot
    <2>2. dom' \in [ClusterNames -> [Nodes -> {"none", "off", "on"}]]
        BY <1>n DEF TypeOK
    <2>3. kube' \in [ClusterNames -> Int] /\ issued' \in Int /\ issued' >= 0 /\ base' = base
        BY DEF TypeOK, NoIgnition
    <2>4. stage' \in [ClusterNames -> Stages] /\ node' \in [ClusterNames -> Nodes]
        BY <1>n DEF TypeOK, Stages, nextNode, afterNode
    <2>5. todo' \in [ClusterNames -> SUBSET Nodes]
        BY <1>n DEF TypeOK, nextNode, afterNode
    <2>6. /\ holder' \in ClusterNames \cup {Nobody, Stale}
          /\ last' \in [ClusterNames -> {"failed", "started", "deleted"}]
        BY DEF TypeOK, nextNode, afterNode
    <2> QED BY <2>1, <2>2, <2>3, <2>4, <2>5, <2>6 DEF TypeOK
<1>2. OthersKept(c) /\ SharedKept(c)
    BY <1>0 DEF TypeOK, OthersKept, SharedKept, nextNode, afterNode, CommandInv, inLock
<1>3. HostInv(c)'
    BY <1>0 DEF TypeOK, HostInv, CommandInv, Nodes, NoVolume, NoIgnition, Blank, firstBoot, nextNode, afterNode
<1>4. CommandInv(c)'
    BY <1>0 DEF TypeOK, CommandInv, inLock, Nodes, NoVolume, Blank, firstBoot, nextNode, afterNode, up
<1> QED BY <1>1, <1>2, <1>3, <1>4, FrameOthers

\* FindImage keeps the invariant.
LEMMA FindImageStep ==
    ASSUME DriverInv, NEW c \in ClusterNames, FindImage(c)
    PROVE  DriverInv'
<1> USE DriverAssumption DEF DriverInv, FindImage, move, finish, hostVars
<1>0. HostInv(c) /\ CommandInv(c)
    OBVIOUS
<1>1. TypeOK' /\ issued' >= 0
    BY DEF TypeOK, Stages, Nodes, NoVolume, NoIgnition, Blank, firstBoot, nextNode, afterNode
<1>2. OthersKept(c) /\ SharedKept(c)
    BY <1>0 DEF TypeOK, OthersKept, SharedKept, nextNode, afterNode, CommandInv, inLock
<1>3. HostInv(c)'
    BY <1>0 DEF TypeOK, HostInv, CommandInv, Nodes, NoVolume, NoIgnition, Blank, firstBoot, nextNode, afterNode
<1>4. CommandInv(c)'
    BY <1>0 DEF TypeOK, CommandInv, inLock, Nodes, NoVolume, Blank, firstBoot, nextNode, afterNode, up
<1> QED BY <1>1, <1>2, <1>3, <1>4, FrameOthers

\* MissImage keeps the invariant.
LEMMA MissImageStep ==
    ASSUME DriverInv, NEW c \in ClusterNames, MissImage(c)
    PROVE  DriverInv'
<1> USE DriverAssumption DEF DriverInv, MissImage, move, finish, hostVars
<1>0. HostInv(c) /\ CommandInv(c)
    OBVIOUS
<1>1. TypeOK' /\ issued' >= 0
    BY DEF TypeOK, Stages, Nodes, NoVolume, NoIgnition, Blank, firstBoot, nextNode, afterNode
<1>2. OthersKept(c) /\ SharedKept(c)
    BY <1>0 DEF TypeOK, OthersKept, SharedKept, nextNode, afterNode, CommandInv, inLock
<1>3. HostInv(c)'
    BY <1>0 DEF TypeOK, HostInv, CommandInv, Nodes, NoVolume, NoIgnition, Blank, firstBoot, nextNode, afterNode
<1>4. CommandInv(c)'
    BY <1>0 DEF TypeOK, CommandInv, inLock, Nodes, NoVolume, Blank, firstBoot, nextNode, afterNode, up
<1> QED BY <1>1, <1>2, <1>3, <1>4, FrameOthers

\* CreateImage keeps the invariant.
LEMMA CreateImageStep ==
    ASSUME DriverInv, NEW c \in ClusterNames, CreateImage(c)
    PROVE  DriverInv'
<1> USE DriverAssumption DEF DriverInv, CreateImage, move, finish, hostVars
<1>0. HostInv(c) /\ CommandInv(c)
    OBVIOUS
<1>1. TypeOK' /\ issued' >= 0
    BY DEF TypeOK, Stages, Nodes, NoVolume, NoIgnition, Blank, firstBoot, nextNode, afterNode
<1>2. OthersKept(c) /\ SharedKept(c)
    BY <1>0 DEF TypeOK, OthersKept, SharedKept, nextNode, afterNode, CommandInv, inLock
<1>3. HostInv(c)'
    BY <1>0 DEF TypeOK, HostInv, CommandInv, Nodes, NoVolume, NoIgnition, Blank, firstBoot, nextNode, afterNode
<1>4. CommandInv(c)'
    BY <1>0 DEF TypeOK, CommandInv, inLock, Nodes, NoVolume, Blank, firstBoot, nextNode, afterNode, up
<1> QED BY <1>1, <1>2, <1>3, <1>4, FrameOthers

\* ImageCreated keeps the invariant.
LEMMA ImageCreatedStep ==
    ASSUME DriverInv, NEW c \in ClusterNames, ImageCreated(c)
    PROVE  DriverInv'
<1> USE DriverAssumption DEF DriverInv, ImageCreated, move, finish, hostVars
<1>0. HostInv(c) /\ CommandInv(c)
    OBVIOUS
<1>1. TypeOK' /\ issued' >= 0
    BY DEF TypeOK, Stages, Nodes, NoVolume, NoIgnition, Blank, firstBoot, nextNode, afterNode
<1>2. OthersKept(c) /\ SharedKept(c)
    BY <1>0 DEF TypeOK, OthersKept, SharedKept, nextNode, afterNode, CommandInv, inLock
<1>3. HostInv(c)'
    BY <1>0 DEF TypeOK, HostInv, CommandInv, Nodes, NoVolume, NoIgnition, Blank, firstBoot, nextNode, afterNode
<1>4. CommandInv(c)'
    BY <1>0 DEF TypeOK, CommandInv, inLock, Nodes, NoVolume, Blank, firstBoot, nextNode, afterNode, up
<1> QED BY <1>1, <1>2, <1>3, <1>4, FrameOthers

\* UploadImage keeps the invariant.
LEMMA UploadImageStep ==
    ASSUME DriverInv, NEW c \in ClusterNames, UploadImage(c)
    PROVE  DriverInv'
<1> USE DriverAssumption DEF DriverInv, UploadImage, move, finish, hostVars
<1>0. HostInv(c) /\ CommandInv(c)
    OBVIOUS
<1>1. TypeOK' /\ issued' >= 0
    BY DEF TypeOK, Stages, Nodes, NoVolume, NoIgnition, Blank, firstBoot, nextNode, afterNode
<1>2. OthersKept(c) /\ SharedKept(c)
    BY <1>0 DEF TypeOK, OthersKept, SharedKept, nextNode, afterNode, CommandInv, inLock
<1>3. HostInv(c)'
    BY <1>0 DEF TypeOK, HostInv, CommandInv, Nodes, NoVolume, NoIgnition, Blank, firstBoot, nextNode, afterNode
<1>4. CommandInv(c)'
    BY <1>0 DEF TypeOK, CommandInv, inLock, Nodes, NoVolume, Blank, firstBoot, nextNode, afterNode, up
<1> QED BY <1>1, <1>2, <1>3, <1>4, FrameOthers

\* MakeVolume keeps the invariant.
LEMMA MakeVolumeStep ==
    ASSUME DriverInv, NEW c \in ClusterNames, MakeVolume(c)
    PROVE  DriverInv'
<1> USE DriverAssumption DEF DriverInv, MakeVolume, move, finish, hostVars
<1>0. HostInv(c) /\ CommandInv(c)
    OBVIOUS
<1>n. First \in Nodes /\ Others \subseteq Nodes
    BY DEF Nodes
<1>1. TypeOK' /\ issued' >= 0
    <2>1. boot' \in [ClusterNames -> [Nodes -> Int]] /\ ign' \in [ClusterNames -> [Nodes -> Int]]
        BY <1>n DEF TypeOK, NoVolume, NoIgnition, Blank, firstBoot
    <2>2. dom' \in [ClusterNames -> [Nodes -> {"none", "off", "on"}]]
        BY <1>n DEF TypeOK
    <2>3. kube' \in [ClusterNames -> Int] /\ issued' \in Int /\ issued' >= 0 /\ base' = base
        BY DEF TypeOK, NoIgnition
    <2>4. stage' \in [ClusterNames -> Stages] /\ node' \in [ClusterNames -> Nodes]
        BY <1>n DEF TypeOK, Stages, nextNode, afterNode
    <2>5. todo' \in [ClusterNames -> SUBSET Nodes]
        BY <1>n DEF TypeOK, nextNode, afterNode
    <2>6. /\ holder' \in ClusterNames \cup {Nobody, Stale}
          /\ last' \in [ClusterNames -> {"failed", "started", "deleted"}]
        BY DEF TypeOK, nextNode, afterNode
    <2> QED BY <2>1, <2>2, <2>3, <2>4, <2>5, <2>6 DEF TypeOK
<1>2. OthersKept(c) /\ SharedKept(c)
    BY <1>0 DEF TypeOK, OthersKept, SharedKept, nextNode, afterNode, CommandInv, inLock
<1>3. HostInv(c)'
    BY <1>0 DEF TypeOK, HostInv, CommandInv, Nodes, NoVolume, NoIgnition, Blank, firstBoot, nextNode, afterNode
<1>4. CommandInv(c)'
    BY <1>0 DEF TypeOK, CommandInv, inLock, Nodes, NoVolume, Blank, firstBoot, nextNode, afterNode, up
<1> QED BY <1>1, <1>2, <1>3, <1>4, FrameOthers

\* UploadIgnition keeps the invariant.
LEMMA UploadIgnitionStep ==
    ASSUME DriverInv, NEW c \in ClusterNames, UploadIgnition(c)
    PROVE  DriverInv'
<1> USE DriverAssumption DEF DriverInv, UploadIgnition, move, finish, hostVars
<1>0. HostInv(c) /\ CommandInv(c)
    OBVIOUS
<1>1. TypeOK' /\ issued' >= 0
    BY DEF TypeOK, Stages, Nodes, NoVolume, NoIgnition, Blank, firstBoot, nextNode, afterNode
<1>2. OthersKept(c) /\ SharedKept(c)
    BY <1>0 DEF TypeOK, OthersKept, SharedKept, nextNode, afterNode, CommandInv, inLock
<1>3. HostInv(c)'
    BY <1>0 DEF TypeOK, HostInv, CommandInv, Nodes, NoVolume, NoIgnition, Blank, firstBoot, nextNode, afterNode
<1>4. CommandInv(c)'
    BY <1>0 DEF TypeOK, CommandInv, inLock, Nodes, NoVolume, Blank, firstBoot, nextNode, afterNode, up
<1> QED BY <1>1, <1>2, <1>3, <1>4, FrameOthers

\* DefineDomain keeps the invariant.
LEMMA DefineDomainStep ==
    ASSUME DriverInv, NEW c \in ClusterNames, DefineDomain(c)
    PROVE  DriverInv'
<1> USE DriverAssumption DEF DriverInv, DefineDomain, move, finish, hostVars
<1>0. HostInv(c) /\ CommandInv(c)
    OBVIOUS
<1>n. First \in Nodes /\ Others \subseteq Nodes
    BY DEF Nodes
<1>1. TypeOK' /\ issued' >= 0
    <2>1. boot' \in [ClusterNames -> [Nodes -> Int]] /\ ign' \in [ClusterNames -> [Nodes -> Int]]
        BY <1>n DEF TypeOK, NoVolume, NoIgnition, Blank, firstBoot
    <2>2. dom' \in [ClusterNames -> [Nodes -> {"none", "off", "on"}]]
        BY <1>n DEF TypeOK
    <2>3. kube' \in [ClusterNames -> Int] /\ issued' \in Int /\ issued' >= 0 /\ base' = base
        BY DEF TypeOK, NoIgnition
    <2>4. /\ stage' \in [ClusterNames -> Stages] /\ node' \in [ClusterNames -> Nodes]
          /\ todo' \in [ClusterNames -> SUBSET Nodes]
        <3>1. CASE node[c] = First
            BY <3>1 DEF TypeOK, Stages, nextNode
        <3>2. CASE node[c] # First /\ todo[c] = {}
            <4>1. finish(c, "started")
                BY <3>2 DEF nextNode
            <4> QED BY <1>n, <4>1, FinishTypes
        <3>3. CASE node[c] # First /\ todo[c] # {}
            <4>1. PICK n \in todo[c] : /\ node' = [node EXCEPT ![c] = n]
                                       /\ todo' = [todo EXCEPT ![c] = @ \ {n}]
                BY <3>3 DEF nextNode
            <4>2. stage' = [stage EXCEPT ![c] = "image"]
                BY <3>3 DEF nextNode
            <4>3. n \in Nodes
                BY DEF TypeOK
            <4> QED BY <4>1, <4>2, <4>3 DEF TypeOK, Stages
        <3> QED BY <3>1, <3>2, <3>3
    <2>6. /\ holder' \in ClusterNames \cup {Nobody, Stale}
          /\ last' \in [ClusterNames -> {"failed", "started", "deleted"}]
        BY DEF TypeOK, nextNode, afterNode
    <2> QED BY <2>1, <2>2, <2>3, <2>4, <2>6 DEF TypeOK
<1>2. OthersKept(c) /\ SharedKept(c)
    BY <1>0 DEF TypeOK, OthersKept, SharedKept, nextNode, afterNode, CommandInv, inLock
<1>3. HostInv(c)'
    BY <1>0 DEF TypeOK, HostInv, CommandInv, Nodes, NoVolume, NoIgnition, Blank, firstBoot, nextNode, afterNode
<1>4. CommandInv(c)'
    BY <1>0 DEF TypeOK, CommandInv, inLock, Nodes, NoVolume, Blank, firstBoot, nextNode, afterNode, up
<1> QED BY <1>1, <1>2, <1>3, <1>4, FrameOthers

\* Answers keeps the invariant.
LEMMA AnswersStep ==
    ASSUME DriverInv, NEW c \in ClusterNames, Answers(c)
    PROVE  DriverInv'
<1> USE DriverAssumption DEF DriverInv, Answers, move, finish, hostVars
<1>0. HostInv(c) /\ CommandInv(c)
    OBVIOUS
<1>n. First \in Nodes /\ Others \subseteq Nodes
    BY DEF Nodes
<1>1. TypeOK' /\ issued' >= 0
    <2>1. boot' \in [ClusterNames -> [Nodes -> Int]] /\ ign' \in [ClusterNames -> [Nodes -> Int]]
        BY <1>n DEF TypeOK, NoVolume, NoIgnition, Blank, firstBoot
    <2>2. dom' \in [ClusterNames -> [Nodes -> {"none", "off", "on"}]]
        BY <1>n DEF TypeOK
    <2>3. kube' \in [ClusterNames -> Int] /\ issued' \in Int /\ issued' >= 0 /\ base' = base
        BY DEF TypeOK, NoIgnition
    <2>4. stage' \in [ClusterNames -> Stages] /\ node' \in [ClusterNames -> Nodes]
        <3>1. CASE Others = {}
            BY <3>1, FinishTypes
        <3>2. CASE Others # {}
            BY <3>2 DEF TypeOK, Stages
        <3> QED BY <3>1, <3>2
    <2>5. todo' \in [ClusterNames -> SUBSET Nodes]
        BY <1>n DEF TypeOK, nextNode, afterNode
    <2>6. /\ holder' \in ClusterNames \cup {Nobody, Stale}
          /\ last' \in [ClusterNames -> {"failed", "started", "deleted"}]
        BY DEF TypeOK, nextNode, afterNode
    <2> QED BY <2>1, <2>2, <2>3, <2>4, <2>5, <2>6 DEF TypeOK
<1>2. OthersKept(c) /\ SharedKept(c)
    BY <1>0 DEF TypeOK, OthersKept, SharedKept, nextNode, afterNode, CommandInv, inLock
<1>3. HostInv(c)'
    BY <1>0 DEF TypeOK, HostInv, CommandInv, Nodes, NoVolume, NoIgnition, Blank, firstBoot, nextNode, afterNode
<1>4. CommandInv(c)'
    BY <1>0 DEF TypeOK, CommandInv, inLock, Nodes, NoVolume, Blank, firstBoot, nextNode, afterNode, up
<1> QED BY <1>1, <1>2, <1>3, <1>4, FrameOthers

\* CreateJoinToken keeps the invariant.
LEMMA CreateJoinTokenStep ==
    ASSUME DriverInv, NEW c \in ClusterNames, CreateJoinToken(c)
    PROVE  DriverInv'
<1> USE DriverAssumption DEF DriverInv, CreateJoinToken, move, finish, hostVars
<1>0. HostInv(c) /\ CommandInv(c)
    OBVIOUS
<1>n. First \in Nodes /\ Others \subseteq Nodes
    BY DEF Nodes
<1>1. TypeOK' /\ issued' >= 0
    <2>1. boot' \in [ClusterNames -> [Nodes -> Int]] /\ ign' \in [ClusterNames -> [Nodes -> Int]]
        BY <1>n DEF TypeOK, NoVolume, NoIgnition, Blank, firstBoot
    <2>2. dom' \in [ClusterNames -> [Nodes -> {"none", "off", "on"}]]
        BY <1>n DEF TypeOK
    <2>3. kube' \in [ClusterNames -> Int] /\ issued' \in Int /\ issued' >= 0 /\ base' = base
        BY DEF TypeOK, NoIgnition
    <2>4. stage' \in [ClusterNames -> Stages] /\ node' \in [ClusterNames -> Nodes]
        BY <1>n DEF TypeOK, Stages, nextNode, afterNode
    <2>5. todo' \in [ClusterNames -> SUBSET Nodes]
        BY <1>n DEF TypeOK, nextNode, afterNode
    <2>6. /\ holder' \in ClusterNames \cup {Nobody, Stale}
          /\ last' \in [ClusterNames -> {"failed", "started", "deleted"}]
        BY DEF TypeOK, nextNode, afterNode
    <2> QED BY <2>1, <2>2, <2>3, <2>4, <2>5, <2>6 DEF TypeOK
<1>2. OthersKept(c) /\ SharedKept(c)
    BY <1>0 DEF TypeOK, OthersKept, SharedKept, nextNode, afterNode, CommandInv, inLock
<1>3. HostInv(c)'
    BY <1>0 DEF TypeOK, HostInv, CommandInv, Nodes, NoVolume, NoIgnition, Blank, firstBoot, nextNode, afterNode
<1>4. CommandInv(c)'
    BY <1>0 DEF TypeOK, CommandInv, inLock, Nodes, NoVolume, Blank, firstBoot, nextNode, afterNode, up
<1> QED BY <1>1, <1>2, <1>3, <1>4, FrameOthers

\* JoinTokenFails keeps the invariant.
LEMMA JoinTokenFailsStep ==
    ASSUME DriverInv, NEW c \in ClusterNames, JoinTokenFails(c)
    PROVE  DriverInv'
<1> USE DriverAssumption DEF DriverInv, JoinTokenFails, move, finish, hostVars
<1>0. HostInv(c) /\ CommandInv(c)
    OBVIOUS
<1>1. TypeOK' /\ issued' >= 0
    BY DEF TypeOK, Stages, Nodes, NoVolume, NoIgnition, Blank, firstBoot, nextNode, afterNode
<1>2. OthersKept(c) /\ SharedKept(c)
    BY <1>0 DEF TypeOK, OthersKept, SharedKept, nextNode, afterNode, CommandInv, inLock
<1>3. HostInv(c)'
    BY <1>0 DEF TypeOK, HostInv, CommandInv, Nodes, NoVolume, NoIgnition, Blank, firstBoot, nextNode, afterNode
<1>4. CommandInv(c)'
    BY <1>0 DEF TypeOK, CommandInv, inLock, Nodes, NoVolume, Blank, firstBoot, nextNode, afterNode, up
<1> QED BY <1>1, <1>2, <1>3, <1>4, FrameOthers

\* BeginDelete keeps the invariant.
LEMMA BeginDeleteStep ==
    ASSUME DriverInv, NEW c \in ClusterNames, BeginDelete(c)
    PROVE  DriverInv'
<1> USE DriverAssumption DEF DriverInv, BeginDelete, move, finish, hostVars
<1>0. HostInv(c) /\ CommandInv(c)
    OBVIOUS
<1>1. TypeOK' /\ issued' >= 0
    BY DEF TypeOK, Stages, Nodes, NoVolume, NoIgnition, Blank, firstBoot, nextNode, afterNode
<1>2. OthersKept(c) /\ SharedKept(c)
    BY <1>0 DEF TypeOK, OthersKept, SharedKept, nextNode, afterNode, CommandInv, inLock
<1>3. HostInv(c)'
    BY <1>0 DEF TypeOK, HostInv, CommandInv, Nodes, NoVolume, NoIgnition, Blank, firstBoot, nextNode, afterNode
<1>4. CommandInv(c)'
    BY <1>0 DEF TypeOK, CommandInv, inLock, Nodes, NoVolume, Blank, firstBoot, nextNode, afterNode, up
<1> QED BY <1>1, <1>2, <1>3, <1>4, FrameOthers

\* ListDomains keeps the invariant.
LEMMA ListDomainsStep ==
    ASSUME DriverInv, NEW c \in ClusterNames, ListDomains(c)
    PROVE  DriverInv'
<1> USE DriverAssumption DEF DriverInv, ListDomains, move, finish, hostVars
<1>0. HostInv(c) /\ CommandInv(c)
    OBVIOUS
<1>n. First \in Nodes /\ Others \subseteq Nodes
    BY DEF Nodes
<1>1. TypeOK' /\ issued' >= 0
    <2>1. boot' \in [ClusterNames -> [Nodes -> Int]] /\ ign' \in [ClusterNames -> [Nodes -> Int]]
        BY <1>n DEF TypeOK, NoVolume, NoIgnition, Blank, firstBoot
    <2>2. dom' \in [ClusterNames -> [Nodes -> {"none", "off", "on"}]]
        BY <1>n DEF TypeOK
    <2>3. kube' \in [ClusterNames -> Int] /\ issued' \in Int /\ issued' >= 0 /\ base' = base
        BY DEF TypeOK, NoIgnition
    <2>4. stage' \in [ClusterNames -> Stages] /\ node' \in [ClusterNames -> Nodes]
        BY <1>n DEF TypeOK, Stages, nextNode, afterNode
    <2>5. todo' \in [ClusterNames -> SUBSET Nodes]
        BY <1>n DEF TypeOK, nextNode, afterNode
    <2>6. /\ holder' \in ClusterNames \cup {Nobody, Stale}
          /\ last' \in [ClusterNames -> {"failed", "started", "deleted"}]
        BY DEF TypeOK, nextNode, afterNode
    <2> QED BY <2>1, <2>2, <2>3, <2>4, <2>5, <2>6 DEF TypeOK
<1>2. OthersKept(c) /\ SharedKept(c)
    BY <1>0 DEF TypeOK, OthersKept, SharedKept, nextNode, afterNode, CommandInv, inLock
<1>3. HostInv(c)'
    BY <1>0 DEF TypeOK, HostInv, CommandInv, Nodes, NoVolume, NoIgnition, Blank, firstBoot, nextNode, afterNode
<1>4. CommandInv(c)'
    BY <1>0 DEF TypeOK, CommandInv, inLock, Nodes, NoVolume, Blank, firstBoot, nextNode, afterNode, up
<1> QED BY <1>1, <1>2, <1>3, <1>4, FrameOthers

\* DeleteIgnition keeps the invariant.
LEMMA DeleteIgnitionStep ==
    ASSUME DriverInv, NEW c \in ClusterNames, DeleteIgnition(c)
    PROVE  DriverInv'
<1> USE DriverAssumption DEF DriverInv, DeleteIgnition, move, finish, hostVars
<1>0. HostInv(c) /\ CommandInv(c)
    OBVIOUS
<1>n. First \in Nodes /\ Others \subseteq Nodes
    BY DEF Nodes
<1>1. TypeOK' /\ issued' >= 0
    <2>1. boot' \in [ClusterNames -> [Nodes -> Int]] /\ ign' \in [ClusterNames -> [Nodes -> Int]]
        BY <1>n DEF TypeOK, NoVolume, NoIgnition, Blank, firstBoot
    <2>2. dom' \in [ClusterNames -> [Nodes -> {"none", "off", "on"}]]
        BY <1>n DEF TypeOK
    <2>3. kube' \in [ClusterNames -> Int] /\ issued' \in Int /\ issued' >= 0 /\ base' = base
        BY DEF TypeOK, NoIgnition
    <2>4. stage' \in [ClusterNames -> Stages] /\ node' \in [ClusterNames -> Nodes]
        BY <1>n DEF TypeOK, Stages, nextNode, afterNode
    <2>5. todo' \in [ClusterNames -> SUBSET Nodes]
        BY <1>n DEF TypeOK, nextNode, afterNode
    <2>6. /\ holder' \in ClusterNames \cup {Nobody, Stale}
          /\ last' \in [ClusterNames -> {"failed", "started", "deleted"}]
        BY DEF TypeOK, nextNode, afterNode
    <2> QED BY <2>1, <2>2, <2>3, <2>4, <2>5, <2>6 DEF TypeOK
<1>2. OthersKept(c) /\ SharedKept(c)
    BY <1>0 DEF TypeOK, OthersKept, SharedKept, nextNode, afterNode, CommandInv, inLock
<1>3. HostInv(c)'
    BY <1>0 DEF TypeOK, HostInv, CommandInv, Nodes, NoVolume, NoIgnition, Blank, firstBoot, nextNode, afterNode
<1>4. CommandInv(c)'
    BY <1>0 DEF TypeOK, CommandInv, inLock, Nodes, NoVolume, Blank, firstBoot, nextNode, afterNode, up
<1> QED BY <1>1, <1>2, <1>3, <1>4, FrameOthers

\* DeleteVolume keeps the invariant.
LEMMA DeleteVolumeStep ==
    ASSUME DriverInv, NEW c \in ClusterNames, DeleteVolume(c)
    PROVE  DriverInv'
<1> USE DriverAssumption DEF DriverInv, DeleteVolume, move, finish, hostVars
<1>0. HostInv(c) /\ CommandInv(c)
    OBVIOUS
<1>n. First \in Nodes /\ Others \subseteq Nodes
    BY DEF Nodes
<1>1. TypeOK' /\ issued' >= 0
    <2>1. boot' \in [ClusterNames -> [Nodes -> Int]] /\ ign' \in [ClusterNames -> [Nodes -> Int]]
        BY <1>n DEF TypeOK, NoVolume, NoIgnition, Blank, firstBoot
    <2>2. dom' \in [ClusterNames -> [Nodes -> {"none", "off", "on"}]]
        BY <1>n DEF TypeOK
    <2>3. kube' \in [ClusterNames -> Int] /\ issued' \in Int /\ issued' >= 0 /\ base' = base
        BY DEF TypeOK, NoIgnition
    <2>4. stage' \in [ClusterNames -> Stages] /\ node' \in [ClusterNames -> Nodes]
        BY <1>n DEF TypeOK, Stages, nextNode, afterNode
    <2>5. todo' \in [ClusterNames -> SUBSET Nodes]
        BY <1>n DEF TypeOK, nextNode, afterNode
    <2>6. /\ holder' \in ClusterNames \cup {Nobody, Stale}
          /\ last' \in [ClusterNames -> {"failed", "started", "deleted"}]
        BY DEF TypeOK, nextNode, afterNode
    <2> QED BY <2>1, <2>2, <2>3, <2>4, <2>5, <2>6 DEF TypeOK
<1>2. OthersKept(c) /\ SharedKept(c)
    BY <1>0 DEF TypeOK, OthersKept, SharedKept, nextNode, afterNode, CommandInv, inLock
<1>3. HostInv(c)'
    BY <1>0 DEF TypeOK, HostInv, CommandInv, Nodes, NoVolume, NoIgnition, Blank, firstBoot, nextNode, afterNode
<1>4. CommandInv(c)'
    BY <1>0 DEF TypeOK, CommandInv, inLock, Nodes, NoVolume, Blank, firstBoot, nextNode, afterNode, up
<1> QED BY <1>1, <1>2, <1>3, <1>4, FrameOthers

\* RemoveKubeconfigs keeps the invariant.
LEMMA RemoveKubeconfigsStep ==
    ASSUME DriverInv, NEW c \in ClusterNames, RemoveKubeconfigs(c)
    PROVE  DriverInv'
<1> USE DriverAssumption DEF DriverInv, RemoveKubeconfigs, move, finish, hostVars
<1>0. HostInv(c) /\ CommandInv(c)
    OBVIOUS
<1>n. First \in Nodes /\ Others \subseteq Nodes
    BY DEF Nodes
<1>1. TypeOK' /\ issued' >= 0
    <2>1. boot' \in [ClusterNames -> [Nodes -> Int]] /\ ign' \in [ClusterNames -> [Nodes -> Int]]
        BY <1>n DEF TypeOK, NoVolume, NoIgnition, Blank, firstBoot
    <2>2. dom' \in [ClusterNames -> [Nodes -> {"none", "off", "on"}]]
        BY <1>n DEF TypeOK
    <2>3. kube' \in [ClusterNames -> Int] /\ issued' \in Int /\ issued' >= 0 /\ base' = base
        BY DEF TypeOK, NoIgnition
    <2>4. stage' \in [ClusterNames -> Stages] /\ node' \in [ClusterNames -> Nodes]
        BY <1>n DEF TypeOK, Stages, nextNode, afterNode
    <2>5. todo' \in [ClusterNames -> SUBSET Nodes]
        BY <1>n DEF TypeOK, nextNode, afterNode
    <2>6. /\ holder' \in ClusterNames \cup {Nobody, Stale}
          /\ last' \in [ClusterNames -> {"failed", "started", "deleted"}]
        BY DEF TypeOK, nextNode, afterNode
    <2> QED BY <2>1, <2>2, <2>3, <2>4, <2>5, <2>6 DEF TypeOK
<1>2. OthersKept(c) /\ SharedKept(c)
    BY <1>0 DEF TypeOK, OthersKept, SharedKept, nextNode, afterNode, CommandInv, inLock
<1>3. HostInv(c)'
    BY <1>0 DEF TypeOK, HostInv, CommandInv, Nodes, NoVolume, NoIgnition, Blank, firstBoot, nextNode, afterNode
<1>4. CommandInv(c)'
    BY <1>0 DEF TypeOK, CommandInv, inLock, Nodes, NoVolume, Blank, firstBoot, nextNode, afterNode, up
<1> QED BY <1>1, <1>2, <1>3, <1>4, FrameOthers

\* RemoveRecord keeps the invariant.
LEMMA RemoveRecordStep ==
    ASSUME DriverInv, NEW c \in ClusterNames, RemoveRecord(c)
    PROVE  DriverInv'
<1> USE DriverAssumption DEF DriverInv, RemoveRecord, move, finish, hostVars
<1>0. HostInv(c) /\ CommandInv(c)
    OBVIOUS
<1>1. TypeOK' /\ issued' >= 0
    BY DEF TypeOK, Stages, Nodes, NoVolume, NoIgnition, Blank, firstBoot, nextNode, afterNode
<1>2. OthersKept(c) /\ SharedKept(c)
    BY <1>0 DEF TypeOK, OthersKept, SharedKept, nextNode, afterNode, CommandInv, inLock
<1>3. HostInv(c)'
    BY <1>0 DEF TypeOK, HostInv, CommandInv, Nodes, NoVolume, NoIgnition, Blank, firstBoot, nextNode, afterNode
<1>4. CommandInv(c)'
    BY <1>0 DEF TypeOK, CommandInv, inLock, Nodes, NoVolume, Blank, firstBoot, nextNode, afterNode, up
<1> QED BY <1>1, <1>2, <1>3, <1>4, FrameOthers

\* Fails keeps the invariant.
LEMMA FailsStep ==
    ASSUME DriverInv, NEW c \in ClusterNames, Fails(c)
    PROVE  DriverInv'
<1> USE DriverAssumption DEF DriverInv, Fails, move, finish, hostVars
<1>0. HostInv(c) /\ CommandInv(c)
    OBVIOUS
<1>n. First \in Nodes /\ Others \subseteq Nodes
    BY DEF Nodes
<1>1. TypeOK' /\ issued' >= 0
    <2>1. boot' \in [ClusterNames -> [Nodes -> Int]] /\ ign' \in [ClusterNames -> [Nodes -> Int]]
        BY <1>n DEF TypeOK, NoVolume, NoIgnition, Blank, firstBoot
    <2>2. dom' \in [ClusterNames -> [Nodes -> {"none", "off", "on"}]]
        BY <1>n DEF TypeOK
    <2>3. kube' \in [ClusterNames -> Int] /\ issued' \in Int /\ issued' >= 0
        BY DEF TypeOK, NoIgnition
    <2>4. stage' \in [ClusterNames -> Stages] /\ node' \in [ClusterNames -> Nodes]
        BY <1>n DEF TypeOK, Stages, nextNode, afterNode
    <2>5. todo' \in [ClusterNames -> SUBSET Nodes]
        BY <1>n DEF TypeOK, nextNode, afterNode
    <2>6. /\ holder' \in ClusterNames \cup {Nobody, Stale}
          /\ last' \in [ClusterNames -> {"failed", "started", "deleted"}]
        BY DEF TypeOK, nextNode, afterNode
    <2>7. base' \in {"none", "partial", "whole", "replaced"}
        BY DEF TypeOK, deleted
    <2> QED BY <2>1, <2>2, <2>3, <2>4, <2>5, <2>6, <2>7 DEF TypeOK
<1>2. OthersKept(c) /\ SharedKept(c)
    BY <1>0 DEF TypeOK, OthersKept, SharedKept, deleted, nextNode, afterNode, CommandInv, inLock
<1>3. HostInv(c)'
    BY <1>0 DEF TypeOK, deleted, HostInv, CommandInv, Nodes, NoVolume, NoIgnition, Blank, firstBoot, nextNode, afterNode
<1>4. CommandInv(c)'
    BY <1>0 DEF TypeOK, deleted, CommandInv, inLock, Nodes, NoVolume, Blank, firstBoot, nextNode, afterNode, up
<1> QED BY <1>1, <1>2, <1>3, <1>4, FrameOthers

\* Kill keeps the invariant.
LEMMA KillStep ==
    ASSUME DriverInv, NEW c \in ClusterNames, Crash(c)
    PROVE  DriverInv'
<1> USE DriverAssumption DEF DriverInv, Crash, move, finish, hostVars
<1>0. HostInv(c) /\ CommandInv(c)
    OBVIOUS
<1>1. TypeOK' /\ issued' >= 0
    BY DEF TypeOK, deleted, Stages, Nodes, NoVolume, NoIgnition, Blank, firstBoot, nextNode, afterNode
<1>2. OthersKept(c) /\ SharedKept(c)
    BY <1>0 DEF TypeOK, deleted, OthersKept, SharedKept, nextNode, afterNode, CommandInv, inLock
<1>3. HostInv(c)'
    BY <1>0 DEF TypeOK, deleted, HostInv, CommandInv, Nodes, NoVolume, NoIgnition, Blank, firstBoot, nextNode, afterNode
<1>4. CommandInv(c)'
    BY <1>0 DEF TypeOK, deleted, CommandInv, inLock, Nodes, NoVolume, Blank, firstBoot, nextNode, afterNode, up
<1> QED BY <1>1, <1>2, <1>3, <1>4, FrameOthers

\* RemoveDomain keeps the invariant.
LEMMA RemoveDomainStep ==
    ASSUME DriverInv, NEW c \in ClusterNames, NEW m \in Nodes, RemoveDomain(c, m)
    PROVE  DriverInv'
<1> USE DEF DriverInv, RemoveDomain, move
<1>0. HostInv(c) /\ CommandInv(c)
    OBVIOUS
<1>1. TypeOK' /\ issued' >= 0
    BY DEF TypeOK, Stages
<1>2. OthersKept(c) /\ SharedKept(c)
    BY DEF TypeOK, OthersKept, SharedKept
<1>3. HostInv(c)'
    BY <1>0 DEF TypeOK, HostInv
<1>4. CommandInv(c)'
    BY <1>0 DEF TypeOK, CommandInv, inLock
<1> QED BY <1>1, <1>2, <1>3, <1>4, FrameOthers

\* Stops keeps the invariant.
LEMMA StopsStep ==
    ASSUME DriverInv, NEW c \in ClusterNames, Stops(c)
    PROVE  DriverInv'
<1> USE DEF DriverInv, Stops, Nodes
<1>0. HostInv(c) /\ CommandInv(c)
    OBVIOUS
<1>1. TypeOK' /\ issued' >= 0
    BY DEF TypeOK
<1>2. OthersKept(c) /\ SharedKept(c)
    BY DEF TypeOK, OthersKept, SharedKept
<1>3. HostInv(c)'
    BY <1>0 DEF TypeOK, HostInv
<1>4. CommandInv(c)'
    BY <1>0 DEF TypeOK, CommandInv, inLock
<1> QED BY <1>1, <1>2, <1>3, <1>4, FrameOthers

\* No command holds the lock that is broken.
LEMMA BreakLockStep ==
    ASSUME DriverInv, BreakLock
    PROVE  DriverInv'
<1>1. TypeOK' /\ issued' >= 0
    BY DEF DriverInv, BreakLock, TypeOK, hostVars
<1>2. ASSUME NEW c \in ClusterNames PROVE HostInv(c)'
    BY DEF DriverInv, BreakLock, HostInv, hostVars
<1>3. ASSUME NEW c \in ClusterNames PROVE CommandInv(c)'
    BY DriverAssumption DEF DriverInv, BreakLock, CommandInv, inLock, hostVars
<1> QED BY <1>1, <1>2, <1>3 DEF DriverInv

\* Every step keeps the invariant.
LEMMA DriverInvStep == DriverInv /\ [DriverNext]_driverVars => DriverInv'
<1> SUFFICES ASSUME DriverInv, [DriverNext]_driverVars PROVE DriverInv'
    OBVIOUS
<1>1. ASSUME NEW c \in ClusterNames, Start(c) PROVE DriverInv'
    BY <1>1, BeginStartStep, StartExistingStep, AliveStep, StartNewStep, TakeLockStep,
       GeneratePKIStep, FindImageStep, MissImageStep, CreateImageStep, ImageCreatedStep, UploadImageStep, MakeVolumeStep,
       UploadIgnitionStep, DefineDomainStep, AnswersStep, CreateJoinTokenStep, JoinTokenFailsStep
       DEF Start
<1>2. ASSUME NEW c \in ClusterNames, Delete(c) PROVE DriverInv'
    BY <1>2, BeginDeleteStep, ListDomainsStep, RemoveDomainStep, DeleteIgnitionStep,
       DeleteVolumeStep, RemoveKubeconfigsStep, RemoveRecordStep
       DEF Delete
<1>3. ASSUME NEW c \in ClusterNames, Fails(c) \/ Crash(c) PROVE DriverInv'
    BY <1>3, FailsStep, KillStep
<1>4. ASSUME NEW c \in ClusterNames, Stops(c) PROVE DriverInv'
    BY <1>4, StopsStep
<1>5. CASE BreakLock
    BY <1>5, BreakLockStep
<1>6. CASE UNCHANGED driverVars
    BY <1>6 DEF driverVars, DriverInv, TypeOK, HostInv, CommandInv, inLock
<1> QED BY <1>1, <1>2, <1>3, <1>4, <1>5, <1>6 DEF DriverNext

\* The invariant holds in every reachable state of Start and Delete.
THEOREM DriverInvHolds == DriverSpec => []DriverInv
BY DriverInvInit, DriverInvStep, PTL DEF DriverSpec

\* A defined domain always has its boot volume, made from a base image, wherever
\* addNode and removeNode fail or are killed.
THEOREM DomainsKeepVolumes == DriverSpec => []DomainHasVolumes
<1>1. DriverInv => DomainHasVolumes
    BY DEF DriverInv, HostInv, DomainHasVolumes
<1> QED BY <1>1, DriverInvHolds, PTL

\* A Delete that returns no error has removed every domain of the cluster,
\* whatever happened before.
THEOREM DeleteRemovesDomains == DriverSpec => []DeletedHasNoDomain
<1>1. DriverInv => DeletedHasNoDomain
    BY DEF DriverInv, HostInv, DeletedHasNoDomain
<1> QED BY <1>1, DriverInvHolds, PTL

\* The pid lock keeps two commands from uploading the base image at once, as long
\* as no image that was there is deleted.
THEOREM UploadsExclude == DriverSpec => []OneUpload
<1>1. DriverInv => OneUpload
    BY DEF DriverInv, CommandInv, inLock, OneUpload
<1> QED BY <1>1, DriverInvHolds, PTL

\* Wherever Start and Delete fail or are killed, domains keep their volumes, a
\* delete that succeeds leaves no domain, and uploads exclude each other until
\* an image that was there is deleted.
THEOREM HostStaysSafe == DriverSpec => []HostSafe
BY DomainsKeepVolumes, DeleteRemovesDomains, UploadsExclude, PTL DEF HostSafe

-----------------------------------------------------------------------------
(***************************************************************************)
(* As long as nothing has failed.                                          *)
(***************************************************************************)

\* A step of the command on c.
DriverStep(c) == Start(c) \/ Delete(c) \/ Fails(c) \/ Crash(c) \/ Stops(c)

\* A command touches its own cluster only, and the base image only with the lock.
LEMMA StepKeepsOthers ==
    ASSUME DriverInv, NEW c \in ClusterNames, DriverStep(c)
    PROVE  OthersKept(c) /\ SharedKept(c)
<1>0. CommandInv(c) /\ TypeOK
    BY DEF DriverInv
<1> USE <1>0 DEF move, finish, hostVars, OthersKept, SharedKept, TypeOK
<1>1. CASE BeginStart(c) \/ StartExisting(c) \/ Alive(c) \/ StartNew(c) \/ TakeLock(c)
    BY <1>1 DEF BeginStart, StartExisting, Alive, StartNew, TakeLock
<1>2. CASE \/ GeneratePKI(c) \/ FindImage(c) \/ MissImage(c)
           \/ CreateImage(c) \/ ImageCreated(c) \/ UploadImage(c)
    BY <1>2 DEF GeneratePKI, FindImage, MissImage, CreateImage, ImageCreated, UploadImage,
       CommandInv, inLock
<1>3. CASE MakeVolume(c) \/ UploadIgnition(c) \/ Answers(c)
    BY <1>3 DEF MakeVolume, UploadIgnition, Answers
<1>4. CASE DefineDomain(c)
    BY <1>4, DriverAssumption DEF DefineDomain, nextNode, CommandInv, inLock
<1>5. CASE CreateJoinToken(c) \/ JoinTokenFails(c)
    BY <1>5 DEF CreateJoinToken, JoinTokenFails
<1>6. CASE BeginDelete(c) \/ ListDomains(c) \/ DeleteIgnition(c) \/ DeleteVolume(c)
    BY <1>6 DEF BeginDelete, ListDomains, DeleteIgnition, DeleteVolume, afterNode
<1>7. CASE RemoveKubeconfigs(c) \/ RemoveRecord(c)
    BY <1>7 DEF RemoveKubeconfigs, RemoveRecord
<1>8. ASSUME NEW n \in Nodes, RemoveDomain(c, n) PROVE OthersKept(c) /\ SharedKept(c)
    BY <1>8 DEF RemoveDomain
<1>9. CASE Fails(c) \/ Crash(c)
    BY <1>9, DriverAssumption DEF Fails, Crash, CommandInv, inLock, deleted
<1>10. CASE Stops(c)
    BY <1>10 DEF Stops
<1> QED BY <1>1, <1>2, <1>3, <1>4, <1>5, <1>6, <1>7, <1>8, <1>9, <1>10 DEF DriverStep, Start, Delete

\* Nothing of the nodes of c changes.
NodesKept(c) ==
    /\ \A n \in Nodes : /\ dom'[c][n] = dom[c][n] /\ boot'[c][n] = boot[c][n]
                        /\ ign'[c][n] = ign[c][n]
    /\ kube'[c] = kube[c]

\* Then a node that is clean stays clean, and one that is up stays up.
LEMMA NodesStand ==
    ASSUME NEW c \in ClusterNames, NodesKept(c), NEW n \in Nodes
    PROVE  (cleanNode(c, n)' <=> cleanNode(c, n)) /\ (upNode(c, n)' <=> upNode(c, n))
    BY DEF NodesKept, cleanNode, upNode

\* What a step says of the shared base image.
BaseStep(c) ==
    /\ base = "whole" => base' = "whole"
    /\ base' # "replaced"
    /\ base' = "partial" => stage'[c] = "upload" \/ (base = "partial" /\ stage[c] # "upload")

\* The steps of Start up to the pid lock.
LEMMA FaultlessBegin ==
    ASSUME DeliverInv, ~faulty, NEW c \in ClusterNames,
           BeginStart(c) \/ StartExisting(c) \/ Alive(c) \/ StartNew(c) \/ TakeLock(c)
    PROVE  FaultlessInv(c)' /\ BaseStep(c)
<1>0. base # "replaced" /\ TypeOK /\ FaultlessInv(c) /\ CommandInv(c) /\ First \in Nodes
    BY DEF DeliverInv, DriverInv, Nodes
<1>1. CASE BeginStart(c) \/ StartNew(c) \/ TakeLock(c)
    <2>1. NodesKept(c) /\ base' = base
        BY <1>1 DEF BeginStart, StartNew, TakeLock, NodesKept, hostVars
    <2>2. /\ stage'[c] \in {"start", "lock", "pki"} /\ stage[c] # "upload" /\ last'[c] = "failed"
          /\ stage'[c] = "start" => stage[c] = "idle"
          /\ stage'[c] = "lock" => stage[c] = "start" /\ dom[c][First] = "none"
          /\ stage'[c] = "pki" => stage[c] = "lock"
        BY <1>0, <1>1 DEF BeginStart, StartNew, TakeLock, move, TypeOK, CommandInv
    <2>3. stage'[c] = "start" => BetweenInv(c)'
        BY <1>0, <2>1, <2>2, NodesStand DEF BetweenInv, FaultlessInv
    <2>4. stage'[c] \in {"lock", "pki"} => \A n \in Nodes : cleanNode(c, n)'
        BY <1>0, <2>1, <2>2, NodesStand DEF BetweenInv, FaultlessInv, upNode
    <2> QED BY <1>0, <2>1, <2>2, <2>3, <2>4 DEF FaultlessInv, BaseStep, adding
<1>2. CASE StartExisting(c)
    <2>1. base = "whole" /\ \A n \in Nodes : upNode(c, n)
        BY <1>0, <1>2 DEF StartExisting, FaultlessInv, BetweenInv, cleanNode
    <2>2. dom[c][First] = "on" /\ boot[c][First] # Blank
        BY <1>0, <2>1 DEF upNode, Blank
    <2>3. NodesKept(c) /\ base' = base /\ stage'[c] = "alive" /\ last'[c] = "failed"
        BY <1>0, <1>2, <2>2 DEF StartExisting, NodesKept, TypeOK, move, firstBoot, CommandInv
    <2>4. \A n \in Nodes : upNode(c, n)'
        BY <2>1, <2>3, NodesStand
    <2> QED BY <2>1, <2>3, <2>4 DEF FaultlessInv, BaseStep, adding
<1>3. CASE Alive(c)
    <2>1. base = "whole" /\ \A n \in Nodes : upNode(c, n)
        BY <1>0, <1>3 DEF Alive, FaultlessInv
    <2>2. NodesKept(c) /\ base' = base /\ stage'[c] = "idle" /\ last'[c] = "started"
        BY <1>0, <1>3 DEF Alive, NodesKept, TypeOK, move, finish, hostVars
    <2>3. \A n \in Nodes : upNode(c, n)'
        BY <2>1, <2>2, NodesStand
    <2> QED BY <2>1, <2>2, <2>3 DEF FaultlessInv, BetweenInv, BaseStep, adding
<1> QED BY <1>1, <1>2, <1>3

\* The steps of addNode up to the boot volume.
LEMMA FaultlessImage ==
    ASSUME DeliverInv, ~faulty, NEW c \in ClusterNames,
           GeneratePKI(c) \/ FindImage(c) \/ MissImage(c)
           \/ CreateImage(c) \/ ImageCreated(c) \/ UploadImage(c)
    PROVE  FaultlessInv(c)' /\ BaseStep(c)
<1>0. base # "replaced" /\ TypeOK /\ FaultlessInv(c) /\ CommandInv(c) /\ First \in Nodes /\ Others \subseteq Nodes
    BY DEF DeliverInv, DriverInv, Nodes
<1>1. CASE GeneratePKI(c)
    <2>1. /\ \A n \in Nodes : cleanNode(c, n)
          /\ node'[c] = First /\ stage'[c] = "image" /\ last'[c] = "failed" /\ base' = base
        BY <1>0, <1>1 DEF GeneratePKI, FaultlessInv, CommandInv, move, TypeOK
    <2>2. kube'[c] > 0
        BY <1>0, <1>1 DEF GeneratePKI, TypeOK, DeliverInv, DriverInv
    <2>3. \A n \in Nodes : cleanNode(c, n)'
        BY <1>1, <2>1 DEF GeneratePKI, cleanNode
    <2>4. AddingInv(c)'
        BY <1>0, <2>1, <2>2, <2>3 DEF AddingInv, cleanNode
    <2>5. stage[c] # "upload"
        BY <1>1 DEF GeneratePKI
    <2> QED BY <1>0, <2>1, <2>4, <2>5 DEF FaultlessInv, BaseStep, adding
<1>2. CASE FindImage(c) \/ MissImage(c)
    <2>1. /\ stage[c] = "image" /\ NodesKept(c) /\ base' = base /\ node'[c] = node[c]
          /\ todo'[c] = todo[c] /\ last'[c] = "failed" /\ node[c] \in Nodes /\ todo[c] \subseteq Nodes
          /\ \/ stage'[c] = "volume" /\ base # "none"
             \/ stage'[c] = "transfer" /\ base = "none"
        BY <1>0, <1>2 DEF FindImage, MissImage, move, hostVars, NodesKept, TypeOK, CommandInv
    <2>2. AddingInv(c)
        BY <1>0, <2>1 DEF FaultlessInv, adding
    <2>3. stage'[c] = "volume" => base = "whole"
        <3>1. ASSUME base = "partial" PROVE node[c] # First
            <4>1. PICK d \in ClusterNames : stage[d] = "upload"
                BY <3>1 DEF DeliverInv
            <4>2. holder = d
                BY <4>1 DEF DeliverInv, DriverInv, CommandInv, inLock
            <4> QED BY <1>0, <2>1, <4>1, <4>2 DEF CommandInv, inLock
        <3> QED BY <1>0, <2>1, <2>2, <3>1 DEF AddingInv, TypeOK
    <2>4. AddingInv(c)'
        BY <1>0, <2>1, <2>2, <2>3, NodesStand DEF AddingInv, NodesKept
    <2> QED BY <1>0, <2>1, <2>4 DEF FaultlessInv, BaseStep, adding
<1>3. CASE CreateImage(c) \/ ImageCreated(c) \/ UploadImage(c)
    <2>0. /\ stage[c] \in {"transfer", "upload"} /\ base # "replaced"
          /\ stage[c] = "transfer" => base = "none"
        BY <1>0, <1>3 DEF CreateImage, ImageCreated, UploadImage, DeliverInv, FaultlessInv, AddingInv, adding
    <2>1. /\ stage[c] \in {"transfer", "upload"} /\ NodesKept(c) /\ node'[c] = node[c]
          /\ todo'[c] = todo[c] /\ last'[c] = "failed" /\ node[c] = First
          /\ \/ stage'[c] = "upload" /\ base' = "partial" /\ base = "none"
             \/ stage'[c] = "volume" /\ base' = "whole"
        BY <1>0, <1>3, <2>0 DEF CreateImage, ImageCreated, UploadImage, move, NodesKept, TypeOK, CommandInv
    <2>2. AddingInv(c)
        BY <1>0, <2>1 DEF FaultlessInv, adding
    <2>3. AddingInv(c)'
        BY <1>0, <2>1, <2>2, NodesStand DEF AddingInv, NodesKept
    <2> QED BY <2>1, <2>3 DEF FaultlessInv, BaseStep, adding
<1> QED BY <1>1, <1>2, <1>3

\* The boot volume and the ignition volume of a node.
LEMMA FaultlessVolumes ==
    ASSUME DeliverInv, ~faulty, NEW c \in ClusterNames, MakeVolume(c) \/ UploadIgnition(c)
    PROVE  FaultlessInv(c)' /\ BaseStep(c)
<1>0. base # "replaced" /\ TypeOK /\ FaultlessInv(c) /\ CommandInv(c) /\ First \in Nodes /\ Others \subseteq Nodes
    BY DEF DeliverInv, DriverInv, Nodes
<1>1. /\ stage[c] \in {"volume", "ignition"} /\ base' = base /\ node'[c] = node[c]
      /\ todo'[c] = todo[c] /\ last'[c] = "failed" /\ kube'[c] = kube[c] /\ dom'[c] = dom[c]
      /\ node[c] \in Nodes /\ todo[c] \subseteq Nodes
      /\ \/ stage[c] = "volume" /\ stage'[c] = "ignition"
         \/ stage[c] = "ignition" /\ stage'[c] = "define"
    BY <1>0 DEF MakeVolume, UploadIgnition, move, TypeOK, CommandInv
<1>2. AddingInv(c)
    BY <1>0, <1>1 DEF FaultlessInv, adding
<1>3. \A n \in Nodes : n # node[c] => boot'[c][n] = boot[c][n] /\ ign'[c][n] = ign[c][n]
    BY <1>0 DEF MakeVolume, UploadIgnition, TypeOK
<1>4. boot'[c][node[c]] = Blank
    BY <1>0, <1>1, <1>2 DEF MakeVolume, UploadIgnition, TypeOK, AddingInv, cleanNode
<1>5. stage'[c] = "define" => ign'[c][node[c]] = kube[c]
    BY <1>0, <1>1 DEF MakeVolume, UploadIgnition, TypeOK
<1>6. \A n \in Nodes : n # node[c] => /\ cleanNode(c, n)' <=> cleanNode(c, n)
                                      /\ upNode(c, n)' <=> upNode(c, n)
    BY <1>1, <1>3 DEF cleanNode, upNode
<1>7. First \notin Others
    BY DriverAssumption
<1>8. AddingInv(c)'
    BY <1>0, <1>1, <1>2, <1>4, <1>5, <1>6, <1>7 DEF AddingInv
<1> QED BY <1>0, <1>1, <1>8 DEF FaultlessInv, BaseStep, adding

\* The domain of a node is defined, and the next node is begun.
LEMMA FaultlessDefine ==
    ASSUME DeliverInv, ~faulty, NEW c \in ClusterNames, DefineDomain(c)
    PROVE  FaultlessInv(c)' /\ BaseStep(c)
<1>0. base # "replaced" /\ TypeOK /\ FaultlessInv(c) /\ CommandInv(c) /\ First \in Nodes /\ Others \subseteq Nodes
    BY DEF DeliverInv, DriverInv, Nodes
<1>1. /\ stage[c] = "define" /\ base' = base /\ ign' = ign /\ kube' = kube
      /\ node[c] \in Nodes /\ todo[c] \subseteq Nodes /\ last[c] = "failed"
      /\ dom' = [dom EXCEPT ![c][node[c]] = "on"]
      /\ boot' = [boot EXCEPT ![c][node[c]] = firstBoot(c, node[c])]
    BY <1>0 DEF DefineDomain, TypeOK, CommandInv
<1>2. AddingInv(c) /\ base = "whole"
    BY <1>0, <1>1 DEF FaultlessInv, AddingInv, adding
<1>3. \A n \in Nodes : n = node[c] => upNode(c, n)'
    BY <1>0, <1>1, <1>2 DEF upNode, firstBoot, AddingInv, TypeOK
<1>4. \A n \in Nodes : n # node[c] => /\ cleanNode(c, n)' <=> cleanNode(c, n)
                                      /\ upNode(c, n)' <=> upNode(c, n)
    BY <1>0, <1>1 DEF cleanNode, upNode, TypeOK
<1>5. CASE node[c] = First
    <2>1. stage'[c] = "answer" /\ last'[c] = "failed"
        BY <1>0, <1>1, <1>5 DEF DefineDomain, nextNode, move, TypeOK
    <2>2. upNode(c, First)' /\ \A n \in Others : cleanNode(c, n)'
        BY <1>0, <1>2, <1>3, <1>4, <1>5, DriverAssumption DEF AddingInv
    <2> QED BY <1>1, <1>2, <2>1, <2>2 DEF FaultlessInv, BaseStep, adding
<1>6. CASE node[c] # First /\ todo[c] # {}
    <2>1. PICK m \in todo[c] : /\ node' = [node EXCEPT ![c] = m]
                               /\ todo' = [todo EXCEPT ![c] = @ \ {m}]
        BY <1>6 DEF DefineDomain, nextNode
    <2>2. stage'[c] = "image" /\ last'[c] = "failed"
        BY <1>0, <1>1, <1>6 DEF DefineDomain, nextNode, move, TypeOK
    <2>3. node'[c] = m /\ todo'[c] = todo[c] \ {m} /\ m # First /\ m \in Nodes /\ m # node[c]
        BY <1>0, <1>1, <1>2, <1>6, <2>1 DEF TypeOK, CommandInv, AddingInv
    <2>4. \A n \in todo[c] : cleanNode(c, n)'
        BY <1>1, <1>2, <1>4, <1>6 DEF AddingInv
    <2>5. \A n \in Nodes \ todo[c] : upNode(c, n)'
        BY <1>2, <1>3, <1>4, <1>6 DEF AddingInv
    <2>6. kube'[c] > 0 /\ base' = "whole"
        BY <1>1, <1>2 DEF AddingInv
    <2>7. AddingInv(c)'
        BY <2>2, <2>3, <2>4, <2>5, <2>6 DEF AddingInv, cleanNode
    <2> QED BY <1>1, <1>2, <2>2, <2>7 DEF FaultlessInv, BaseStep, adding
<1>7. CASE node[c] # First /\ todo[c] = {}
    <2>1. stage'[c] = "idle" /\ last'[c] = "started"
        BY <1>0, <1>1, <1>7 DEF DefineDomain, nextNode, move, finish, TypeOK
    <2>2. \A n \in Nodes : upNode(c, n)'
        BY <1>2, <1>3, <1>4, <1>7 DEF AddingInv
    <2> QED BY <1>1, <1>2, <2>1, <2>2 DEF FaultlessInv, BetweenInv, BaseStep, adding
<1> QED BY <1>5, <1>6, <1>7

\* The cluster answers, and the other nodes join.
LEMMA FaultlessJoin ==
    ASSUME DeliverInv, ~faulty, NEW c \in ClusterNames, Answers(c) \/ CreateJoinToken(c)
    PROVE  FaultlessInv(c)' /\ BaseStep(c)
<1>0. base # "replaced" /\ TypeOK /\ FaultlessInv(c) /\ CommandInv(c) /\ First \in Nodes /\ Others \subseteq Nodes
    BY DEF DeliverInv, DriverInv, Nodes
<1>1. /\ stage[c] \in {"answer", "token"} /\ NodesKept(c) /\ base' = base /\ base = "whole"
      /\ upNode(c, First)' /\ \A n \in Others : cleanNode(c, n)'
    <2>1. stage[c] \in {"answer", "token"} /\ NodesKept(c) /\ base' = base
        BY DEF Answers, CreateJoinToken, NodesKept, hostVars
    <2> QED BY <1>0, <2>1, NodesStand DEF FaultlessInv
<1>2. CASE Answers(c) /\ Others = {}
    <2>1. stage'[c] = "idle" /\ last'[c] = "started"
        BY <1>0, <1>2 DEF Answers, finish, move, TypeOK
    <2>2. \A n \in Nodes : upNode(c, n)'
        BY <1>1, <1>2 DEF Nodes
    <2> QED BY <1>1, <2>1, <2>2 DEF FaultlessInv, BetweenInv, BaseStep, adding
<1>3. CASE Answers(c) /\ Others # {}
    <2>1. stage'[c] = "token" /\ last'[c] = "failed" /\ todo'[c] = Others
        BY <1>0, <1>3 DEF Answers, move, TypeOK, CommandInv
    <2> QED BY <1>1, <2>1 DEF FaultlessInv, BaseStep, adding
<1>4. CASE CreateJoinToken(c)
    <2>1. PICK m \in todo[c] : /\ node' = [node EXCEPT ![c] = m]
                               /\ todo' = [todo EXCEPT ![c] = @ \ {m}]
        BY <1>4 DEF CreateJoinToken
    <2>2. stage[c] = "token" /\ stage'[c] = "image" /\ last'[c] = "failed" /\ todo[c] = Others
        BY <1>0, <1>4 DEF CreateJoinToken, move, TypeOK, CommandInv, FaultlessInv
    <2>3. node'[c] = m /\ todo'[c] = Others \ {m} /\ m # First /\ m \in Others
        BY <1>0, <2>1, <2>2, DriverAssumption DEF TypeOK
    <2>4. \A n \in Nodes \ Others : upNode(c, n)'
        BY <1>1 DEF Nodes
    <2>5. kube'[c] > 0 /\ base' = "whole"
        BY <1>1 DEF upNode
    <2>6. AddingInv(c)'
        BY <1>1, <2>2, <2>3, <2>4, <2>5 DEF AddingInv, cleanNode
    <2> QED BY <1>1, <2>2, <2>6 DEF FaultlessInv, BaseStep, adding
<1> QED BY <1>2, <1>3, <1>4

\* Delete lists the domains, and removes nodes until none is left.
LEMMA FaultlessRemove ==
    ASSUME DeliverInv, ~faulty, NEW c \in ClusterNames,
           BeginDelete(c) \/ ListDomains(c) \/ DeleteIgnition(c) \/ DeleteVolume(c)
           \/ RemoveKubeconfigs(c) \/ RemoveRecord(c) \/ \E n \in Nodes : RemoveDomain(c, n)
    PROVE  FaultlessInv(c)' /\ BaseStep(c)
<1>0. base # "replaced" /\ TypeOK /\ FaultlessInv(c) /\ CommandInv(c) /\ First \in Nodes /\ Others \subseteq Nodes
    BY DEF DeliverInv, DriverInv, Nodes
<1>base. base' = base /\ base' # "replaced" /\ stage[c] # "upload"
    BY <1>0 DEF BeginDelete, ListDomains, DeleteIgnition, DeleteVolume, RemoveKubeconfigs,
           RemoveRecord, RemoveDomain, hostVars
<1>1. CASE BeginDelete(c)
    <2>1. stage[c] = "idle" /\ stage'[c] = "list" /\ last'[c] = "failed" /\ NodesKept(c)
        BY <1>0, <1>1 DEF BeginDelete, move, TypeOK, NodesKept, hostVars
    <2>2. BetweenInv(c)'
        BY <1>0, <1>base, <2>1, NodesStand DEF FaultlessInv, BetweenInv
    <2> QED BY <1>base, <2>1, <2>2 DEF FaultlessInv, BaseStep, adding
<1>2. CASE ListDomains(c)
    <2>1. /\ stage[c] = "list" /\ last'[c] = "failed" /\ NodesKept(c)
          /\ todo'[c] = {n \in Nodes : dom[c][n] # "none"}
          /\ stage'[c] = IF todo'[c] = {} THEN "files" ELSE "remove"
        BY <1>0, <1>2 DEF ListDomains, afterNode, move, TypeOK, NodesKept, hostVars, CommandInv
    <2>2. \A n \in Nodes \ todo'[c] : cleanNode(c, n)'
        BY <1>0, <2>1, NodesStand DEF FaultlessInv, BetweenInv, upNode
    <2> QED BY <1>base, <2>1, <2>2 DEF FaultlessInv, BaseStep, adding
<1>3. ASSUME NEW m \in Nodes, RemoveDomain(c, m) PROVE FaultlessInv(c)' /\ BaseStep(c)
    <2>1. /\ stage[c] = "remove" /\ stage'[c] = "rmIgnition" /\ last'[c] = "failed"
          /\ todo'[c] = todo[c] /\ m \in todo[c]
          /\ \A n \in Nodes : n # m => dom'[c][n] = dom[c][n]
          /\ \A n \in Nodes : boot'[c][n] = boot[c][n] /\ ign'[c][n] = ign[c][n]
        BY <1>0, <1>3 DEF RemoveDomain, move, TypeOK, CommandInv
    <2>2. \A n \in Nodes \ todo'[c] : cleanNode(c, n)'
        BY <1>0, <2>1 DEF FaultlessInv, cleanNode
    <2> QED BY <1>base, <2>1, <2>2 DEF FaultlessInv, BaseStep, adding
<1>4. CASE DeleteIgnition(c)
    <2>1. /\ stage[c] = "rmIgnition" /\ stage'[c] = "rmVolume" /\ last'[c] = "failed"
          /\ todo'[c] = todo[c] /\ node'[c] = node[c] /\ node[c] \in Nodes
          /\ \A n \in Nodes : n # node[c] => ign'[c][n] = ign[c][n]
          /\ ign'[c][node[c]] = NoIgnition
          /\ \A n \in Nodes : boot'[c][n] = boot[c][n] /\ dom'[c][n] = dom[c][n]
        BY <1>0, <1>4 DEF DeleteIgnition, move, TypeOK, CommandInv
    <2>2. \A n \in Nodes \ todo'[c] : cleanNode(c, n)'
        BY <1>0, <2>1 DEF FaultlessInv, cleanNode
    <2> QED BY <1>base, <2>1, <2>2 DEF FaultlessInv, BaseStep, adding
<1>5. CASE DeleteVolume(c)
    <2>1. /\ stage[c] = "rmVolume" /\ last'[c] = "failed" /\ node[c] \in Nodes
          /\ todo'[c] = todo[c] \ {node[c]}
          /\ stage'[c] = IF todo'[c] = {} THEN "files" ELSE "remove"
          /\ \A n \in Nodes : n # node[c] => boot'[c][n] = boot[c][n]
          /\ boot'[c][node[c]] = NoVolume
          /\ \A n \in Nodes : ign'[c][n] = ign[c][n] /\ dom'[c][n] = dom[c][n]
        BY <1>0, <1>5 DEF DeleteVolume, afterNode, move, TypeOK, CommandInv
    <2>2. dom[c][node[c]] = "none" /\ ign[c][node[c]] = NoIgnition
        BY <1>0, <2>1 DEF FaultlessInv, CommandInv
    <2>3. \A n \in Nodes \ todo'[c] : cleanNode(c, n)'
        BY <1>0, <2>1, <2>2 DEF FaultlessInv, cleanNode
    <2> QED BY <1>base, <2>1, <2>3 DEF FaultlessInv, BaseStep, adding
<1>6. CASE RemoveKubeconfigs(c) \/ RemoveRecord(c)
    <2>1. /\ stage[c] \in {"files", "unrecord"}
          /\ stage'[c] \in {"unrecord", "idle"} /\ last'[c] \in {"failed", "deleted"}
          /\ \A n \in Nodes : /\ dom'[c][n] = dom[c][n] /\ boot'[c][n] = boot[c][n]
                              /\ ign'[c][n] = ign[c][n]
        BY <1>0, <1>6 DEF RemoveKubeconfigs, RemoveRecord, finish, move, TypeOK, CommandInv, hostVars
    <2>2. \A n \in Nodes : cleanNode(c, n)'
        BY <1>0, <2>1 DEF FaultlessInv, cleanNode
    <2> QED BY <1>base, <2>1, <2>2 DEF FaultlessInv, BetweenInv, BaseStep, adding
<1> QED BY <1>1, <1>2, <1>3, <1>4, <1>5, <1>6

\* A command fails only for want of the lock, and leaves the nodes as they are.
LEMMA FaultlessFails ==
    ASSUME DeliverInv, ~faulty, NEW c \in ClusterNames, Fails(c)
    PROVE  FaultlessInv(c)' /\ BaseStep(c)
<1>0. base # "replaced" /\ TypeOK /\ FaultlessInv(c) /\ CommandInv(c) /\ First \in Nodes
    BY DEF DeliverInv, DriverInv, Nodes
<1>1. mustFail(c)
    BY DEF Fails
<1>2. stage[c] \in {"alive", "answer"} => up(c)
    BY <1>0 DEF FaultlessInv, upNode, up
<1>3. stage[c] = "define" => dom[c][node[c]] = "none"
    BY <1>0 DEF FaultlessInv, AddingInv, adding
<1>4. stage[c] \in {"lock", "unrecord"}
    BY <1>1, <1>2, <1>3 DEF mustFail
<1>5. /\ stage'[c] = "idle" /\ last'[c] = "failed" /\ base' = base
      /\ NodesKept(c)
    BY <1>0, <1>4 DEF Fails, finish, move, TypeOK, NodesKept
<1>6. \A n \in Nodes : cleanNode(c, n)'
    BY <1>0, <1>4, <1>5, NodesStand DEF FaultlessInv
<1> QED BY <1>0, <1>4, <1>5, <1>6 DEF FaultlessInv, BetweenInv, BaseStep, adding

\* The invariant of the faultless behaviours holds at the start and is kept.
THEOREM DeliverInvHolds == DriverSpec => []DeliverInv
<1>1. DriverInit => DeliverInv
    <2> SUFFICES ASSUME DriverInit PROVE DeliverInv
        OBVIOUS
    <2>1. \A c \in ClusterNames : FaultlessInv(c)
        BY DEF DriverInit, FaultlessInv, BetweenInv, cleanNode, adding
    <2> QED BY <2>1, DriverInvInit DEF DeliverInv, DriverInit
<1>2. DeliverInv /\ [DriverNext]_driverVars => DeliverInv'
    <2> SUFFICES ASSUME DeliverInv, [DriverNext]_driverVars PROVE DeliverInv'
        OBVIOUS
    <2>1. DriverInv'
        BY DriverInvStep DEF DeliverInv
    <2>2. CASE UNCHANGED driverVars
        BY <2>1, <2>2 DEF driverVars, DeliverInv, FaultlessInv, BetweenInv, AddingInv, cleanNode, upNode
    <2>3. CASE BreakLock
        BY <2>1, <2>3 DEF BreakLock, hostVars, DeliverInv, FaultlessInv, BetweenInv, AddingInv,
           cleanNode, upNode
    <2>4. ASSUME NEW c \in ClusterNames, DriverStep(c) PROVE DeliverInv'
        <3>1. faulty' = faulty
            BY <2>4 DEF DriverStep, Start, Delete, Fails, Crash, Stops, move, finish,
               BeginStart, StartExisting, Alive, StartNew, TakeLock, GeneratePKI, FindImage,
               MissImage, CreateImage, ImageCreated, UploadImage, MakeVolume, UploadIgnition, DefineDomain,
               nextNode, Answers, CreateJoinToken, JoinTokenFails, BeginDelete, ListDomains,
               afterNode, DeleteIgnition, DeleteVolume, RemoveKubeconfigs, RemoveRecord,
               RemoveDomain
        <3>2. CASE faulty
            BY <2>1, <3>1, <3>2 DEF DeliverInv
        <3>3. CASE ~faulty
            <4>1. FaultlessInv(c)' /\ BaseStep(c)
                <5>1. ~JoinTokenFails(c) /\ ~Crash(c) /\ ~Stops(c)
                    BY <3>3 DEF JoinTokenFails, Crash, Stops
                <5> QED BY <2>4, <3>3, <5>1, FaultlessBegin, FaultlessImage, FaultlessVolumes,
                           FaultlessDefine, FaultlessJoin, FaultlessRemove, FaultlessFails
                        DEF DriverStep, Start, Delete
            <4>2. OthersKept(c) /\ SharedKept(c)
                BY <2>4, StepKeepsOthers DEF DeliverInv
            <4>3. ASSUME NEW d \in ClusterNames, d # c PROVE FaultlessInv(d)'
                <5>1. stage[d] = "upload" \/ (stage[d] = "transfer" /\ base = "none") => base' = base
                    BY <3>3, <4>1, <4>2, <4>3 DEF SharedKept, BaseStep, DeliverInv, DriverInv, CommandInv, inLock
                <5>2. \A n : (cleanNode(d, n)' <=> cleanNode(d, n)) /\ (upNode(d, n)' <=> upNode(d, n))
                    BY <4>2, <4>3 DEF OthersKept, cleanNode, upNode
                <5>3. FaultlessInv(d)
                    BY <3>3 DEF DeliverInv
                <5>4. AddingInv(d) => AddingInv(d)'
                    BY <4>1, <4>2, <4>3, <5>1, <5>2 DEF OthersKept, BaseStep, AddingInv
                <5>5. BetweenInv(d) => BetweenInv(d)'
                    BY <4>1, <5>2 DEF BetweenInv, BaseStep
                <5> QED BY <4>1, <4>2, <4>3, <5>2, <5>3, <5>4, <5>5
                        DEF FaultlessInv, OthersKept, BaseStep
            <4>4. base' = "partial" => \E d \in ClusterNames : stage'[d] = "upload"
                BY <3>3, <4>1, <4>2 DEF DeliverInv, BaseStep, OthersKept
            <4> QED BY <2>1, <4>1, <4>3, <4>4 DEF DeliverInv, BaseStep
        <3> QED BY <3>2, <3>3
    <2> QED BY <2>2, <2>3, <2>4 DEF DriverNext, DriverStep
<1> QED BY <1>1, <1>2, PTL DEF DriverSpec

\* As long as nothing has failed, whatever Starts and Deletes of several
\* clusters overlap: a boot volume is made from a whole image, a Start that
\* succeeds has made every node with the certificates of the local kubeconfig,
\* and a Delete that succeeds has left no volume.
THEOREM FaultlessDelivers == DriverSpec => []FaultlessDeliver
<1>1. DeliverInv => FaultlessDeliver
    <2> SUFFICES ASSUME DeliverInv PROVE FaultlessDeliver
        OBVIOUS
    <2>1. BaseImageWhole
        BY DEF DeliverInv, FaultlessInv, AddingInv, adding, BaseImageWhole
    <2>2. StartedCompleteUnlessFaulty /\ NodesShareCerts
        BY DEF DeliverInv, FaultlessInv, upNode, StartedCompleteUnlessFaulty, NodesShareCerts
    <2>3. DeletedIsGone
        BY DEF DeliverInv, FaultlessInv, cleanNode, DeletedIsGone
    <2> QED BY <2>1, <2>2, <2>3 DEF FaultlessDeliver
<1> QED BY <1>1, DeliverInvHolds, PTL
=============================================================================
