-------------------------- MODULE Clusters_proofs ---------------------------
(***************************************************************************)
(* Theorems about what is kept of clusters between commands: the cache     *)
(* and its lock for any number of processes, clusters and configurations,  *)
(* and, for any set of circumstances, the configuration that a command     *)
(* merges from its layers and from the cache.                              *)
(***************************************************************************)
EXTENDS ClusterCache, Configuration, SequenceTheorems, TLAPS

-----------------------------------------------------------------------------
(***************************************************************************)
(* The cluster cache: commands read whole files, and commands that do not  *)
(* overlap leave the cache and the clusters in agreement.                  *)
(***************************************************************************)

-----------------------------------------------------------------------------
(* The pid lock excludes, for every set of processes and with every fault   *)
(* of the model: failed writes, failed removes, timeouts, killed holders.   *)

\* The lock is free when no process has run: LockInv holds initially.
LEMMA LockInvInit == LockInit => LockInv
  BY PidLockAssumption DEF LockInit, LockInv, LockTypeOK, LockStates

\* Every step of WaitFor, of Drop and every kill preserves LockInv.
LEMMA LockInvStep == LockInv /\ [LockNext]_lockVars => LockInv'
<1> SUFFICES ASSUME LockInv, [LockNext]_lockVars PROVE LockInv'
  OBVIOUS
<1> USE PidLockAssumption DEF LockInv, LockTypeOK, LockStates, goto
<1>1. CASE UNCHANGED lockVars
  BY <1>1 DEF lockVars
<1>2. ASSUME NEW p \in Procs, WaitFor(p) PROVE LockInv'
  BY <1>2 DEF WaitFor
<1>3. ASSUME NEW p \in Procs, CreateFile(p) PROVE LockInv'
  BY <1>3 DEF CreateFile
<1>4. ASSUME NEW p \in Procs, TimeOut(p) PROVE LockInv'
  BY <1>4 DEF TimeOut
<1>5. ASSUME NEW p \in Procs, OpenFails(p) PROVE LockInv'
  BY <1>5 DEF OpenFails
<1>6. ASSUME NEW p \in Procs, WritePid(p) PROVE LockInv'
  BY <1>6 DEF WritePid
<1>7. ASSUME NEW p \in Procs, DropRefused(p) PROVE LockInv'
  BY <1>7 DEF DropRefused
<1>8. ASSUME NEW p \in Procs, DropOwn(p) PROVE LockInv'
  BY <1>8 DEF DropOwn
<1>9. ASSUME NEW p \in Procs, RemoveFile(p) PROVE LockInv'
  BY <1>9 DEF RemoveFile
<1>10. ASSUME NEW p \in Procs, GiveUp(p) PROVE LockInv'
  BY <1>10 DEF GiveUp
<1>11. ASSUME NEW p \in Procs, Die(p) PROVE LockInv'
  BY <1>11 DEF Die
<1> QED
  BY <1>1, <1>2, <1>3, <1>4, <1>5, <1>6, <1>7, <1>8, <1>9, <1>10, <1>11
  DEF LockNext, InWaitFor, InDrop

\* In every reachable state the pidfile and the calls agree as LockInv says.
THEOREM LockInvHolds == LockSpec => []LockInv
  BY LockInvInit, LockInvStep, PTL DEF LockSpec

\* Two processes never hold the lock of pidfile.go at the same time.
THEOREM LockExcludes == LockSpec => []MutualExclusion
<1>1. LockInv => MutualExclusion
  BY DEF LockInv, MutualExclusion
<1> QED
  BY <1>1, LockInvHolds, PTL

\* One step of one call removes the file only if its creator is at the
\* remove of Drop.
LEMMA RemoveStep ==
    ASSUME LockInv, [LockNext]_lockVars, pidfile # NoFile, pidfile' = NoFile
    PROVE  creator \in Procs /\ call[creator] = "removing"
<1>1. PICK p \in Procs : RemoveFile(p)
  BY PidLockAssumption
  DEF LockNext, InWaitFor, InDrop, WaitFor, CreateFile, TimeOut, OpenFails, WritePid,
      DropRefused, DropOwn, GiveUp, Die, lockVars
<1> QED
  BY <1>1 DEF RemoveFile, LockInv

\* A step of WaitFor that is no timeout, and a step of Drop, leaves the lock
\* with the living, if no file operation fails.
LEMMA LivingStep ==
    ASSUME LockInv, HeldByTheLiving, ~world.faults, NEW p \in Procs,
           WaitFor(p) \/ CreateFile(p) \/ WritePid(p) \/ InDrop(p)
    PROVE  HeldByTheLiving'
<1> USE PidLockAssumption DEF HeldByTheLiving, LockInv, LockTypeOK, LockStates, goto
<1>1. CASE WaitFor(p)
  BY <1>1 DEF WaitFor
<1>2. CASE CreateFile(p)
  BY <1>2 DEF CreateFile
<1>3. CASE WritePid(p)
  BY <1>3 DEF WritePid
<1>4. CASE DropRefused(p)
  BY <1>4 DEF DropRefused
<1>5. CASE DropOwn(p)
  BY <1>5 DEF DropOwn
<1>6. CASE RemoveFile(p)
  BY <1>6 DEF RemoveFile
<1> QED
  BY <1>1, <1>2, <1>3, <1>4, <1>5, <1>6 DEF InDrop

\* What LockKept says of one step.
LEMMA KeptStep ==
    LockInv /\ LockInv' /\ [LockNext]_lockVars =>
        [ /\ MutualExclusion'
          /\ pidfile # NoFile /\ pidfile' = NoFile =>
               creator \in Procs /\ call[creator] = "removing" ]_lockVars
<1>1. LockInv' => MutualExclusion'
  BY DEF LockInv, MutualExclusion
<1> QED
  BY <1>1, RemoveStep

\* The lock of pidfile.go excludes, and Drop never removes a pidfile that
\* another process created.
THEOREM LockIsKept == LockSpec => LockKept
  BY KeptStep, LockInvHolds, PTL DEF LockSpec, LockKept

-----------------------------------------------------------------------------
(* The commands that use the cache                                          *)

\* A step of one process.
CacheStep(p) ==
    Command(p) \/ LockFails(p) \/ Kill(p) \/ \E j \in Jobs : Begin(p, j)

\* What the command lines hold.
LEMMA JobFacts ==
    /\ \A j \in Jobs : j.kind \in {"start", "delete", "list"}
    /\ \A j \in Jobs : j.kind # "list" => j.name \in Clusters
    /\ \A j \in Jobs : j.kind = "start" => j.config \in Configs
  BY DEF Jobs

\* The commands use the pid lock only through its own steps.
LEMMA CacheLockStep == [Next]_vars => [LockNext]_lockVars
  BY DEF Next, Command, vars, LockNext, lockVars, InWaitFor, InDrop, Finish,
         Begin, Lock, LockFails, Unlock, ReadCache, Checked, AlreadyRunning, NotRunning,
         Created, CreateFails, Deleted, DeleteFails, Add, AddRefused, AddPanics, Delete,
         Truncate, Write, Saved, AccessFails, Failed, Kill

\* The steps of a process that are calls of the lock, and those that are not.
LEMMA LockPart ==
    ASSUME NEW p \in Procs, Lock(p) \/ LockFails(p) \/ Unlock(p)
    PROVE  /\ UNCHANGED cacheVars /\ world' = world
           /\ \E s \in LockStates : call' = [call EXCEPT ![p] = s]
<1>1. CASE Lock(p)
  BY <1>1 DEF Lock, WaitFor, CreateFile, TimeOut, WritePid, goto, LockStates
<1>2. CASE LockFails(p)
  BY <1>2 DEF LockFails, OpenFails, goto, LockStates
<1>3. CASE Unlock(p)
  BY <1>3 DEF Unlock, InDrop, DropRefused, DropOwn, RemoveFile, goto, LockStates
<1> QED
  BY <1>1, <1>2, <1>3

\* A step of one process leaves the others, and the circumstances, as they are.
LEMMA OthersStand ==
    ASSUME NEW p \in Procs, TypeOK, CacheStep(p)
    PROVE  /\ world' = world
           /\ \A q \in Procs \ {p} : /\ call'[q] = call[q] /\ phase'[q] = phase[q]
                                     /\ job'[q] = job[q] /\ mem'[q] = mem[q]
<1> USE DEF TypeOK, LockTypeOK
<1>1. CASE Lock(p) \/ LockFails(p) \/ Unlock(p)
  BY <1>1, LockPart DEF cacheVars
<1>2. CASE ReadCache(p) \/ Add(p) \/ Delete(p)
  BY <1>2 DEF ReadCache, Add, Delete, step, lockVars
<1>3. CASE \/ NotRunning(p) \/ Created(p) \/ Deleted(p) \/ Truncate(p) \/ Write(p)
           \/ AccessFails(p)
  BY <1>3 DEF NotRunning, Created, Deleted, Truncate, Write, AccessFails, step, lockVars
<1>4. CASE Checked(p)
  BY <1>4 DEF Checked, Finish, end, step, lockVars
<1>5. CASE AlreadyRunning(p) \/ AddRefused(p) \/ Saved(p) \/ Failed(p)
  BY <1>5 DEF AlreadyRunning, AddRefused, Saved, Failed, Finish, end, step, lockVars
<1>6. CASE CreateFails(p) \/ DeleteFails(p)
  BY <1>6 DEF CreateFails, DeleteFails, end, step, lockVars
<1>7. CASE AddPanics(p) \/ Kill(p)
  BY <1>7 DEF AddPanics, Kill, Die, goto, end, step
<1>8. CASE \E j \in Jobs : Begin(p, j)
  BY <1>8 DEF Begin, step, lockVars
<1> QED
  BY <1>1, <1>2, <1>3, <1>4, <1>5, <1>6, <1>7, <1>8 DEF CacheStep, Command

\* Every step keeps the state well formed.
LEMMA TypeStep ==
    ASSUME NEW p \in Procs, TypeOK, ProcInv(p), LockInv', CacheStep(p)
    PROVE  TypeOK'
<1>lock. LockTypeOK'
  BY DEF LockInv
<1>job. active(p) => job[p] \in Jobs
  BY DEF ProcInv
<1>name. changes(p) => name(p) \in Clusters
  BY JobFacts DEF changes, name
<1>empty. EmptyMap \in Maps
  BY DEF EmptyMap, Maps
<1> USE <1>lock, <1>job, <1>name, <1>empty DEF TypeOK
<1>ended. ASSUME NEW s \in {"idle", "dead"}, end(p, s)
          PROVE  job' \in [Procs -> Jobs \cup {NoJob}] /\ phase' \in [Procs -> Phases]
                 /\ mem' \in [Procs -> Maps \cup {NilMap}]
  BY <1>ended DEF end, step, Phases
<1>1. CASE Lock(p) \/ LockFails(p) \/ Unlock(p)
  BY <1>1, LockPart DEF cacheVars
<1>2. CASE ReadCache(p)
  BY <1>2 DEF ReadCache, step, Phases
<1>3. CASE Checked(p)
  BY <1>3, <1>ended DEF Checked, Finish, step, Phases
<1>4. CASE AlreadyRunning(p) \/ AddRefused(p) \/ Failed(p)
  BY <1>4, <1>ended DEF AlreadyRunning, AddRefused, Failed, Finish
<1>5. CASE NotRunning(p)
  BY <1>5 DEF NotRunning, step, Phases
<1>6. CASE Created(p)
  <2>1. job[p].config \in Configs /\ name(p) \in Clusters
    BY <1>6, JobFacts DEF Created, ProcInv, starts, active, changes
  <2> QED
    BY <1>6, <2>1 DEF Created, step, Phases, Maps
<1>7. CASE CreateFails(p)
  <2>1. job[p].config \in Configs /\ name(p) \in Clusters
    BY <1>7, JobFacts DEF CreateFails, ProcInv, starts, active, changes
  <2>2. infra' \in Maps
    BY <1>7, <2>1 DEF CreateFails, Maps
  <2> QED
    BY <1>7, <2>1, <2>2, <1>ended DEF CreateFails
<1>8. CASE Deleted(p)
  BY <1>8 DEF Deleted, step, Phases, Maps
<1>9. CASE DeleteFails(p)
  <2>1. infra' \in Maps
    BY <1>9 DEF DeleteFails, Maps
  <2> QED
    BY <1>9, <2>1, <1>ended DEF DeleteFails
<1>10. CASE Add(p)
  <2>1. job[p].config \in Configs
    BY <1>10, JobFacts DEF Add, ProcInv, starts, active
  <2>2. [mem[p] EXCEPT ![name(p)] = job[p].config] \in Maps
    BY <1>10, <2>1 DEF Add, Maps
  <2> QED
    BY <1>10, <2>2 DEF Add, step, Phases
<1>11. CASE AddPanics(p)
  BY <1>11, <1>ended DEF AddPanics
<1>12. CASE Delete(p)
  <2>1. mem[p] # NilMap => [mem[p] EXCEPT ![name(p)] = NoEntry] \in Maps
    BY DEF Maps
  <2> QED
    BY <1>12, <2>1 DEF Delete, step, Phases
<1>13. CASE Truncate(p) \/ AccessFails(p)
  BY <1>13 DEF Truncate, AccessFails, step, Phases
<1>14. CASE Write(p)
  BY <1>14 DEF Write, step, Phases
<1>15. CASE Saved(p)
  BY <1>15, <1>ended DEF Saved, Finish
<1>16. CASE Kill(p)
  BY <1>16, <1>ended DEF Kill
<1>17. CASE \E j \in Jobs : Begin(p, j)
  BY <1>17, JobFacts DEF Begin, step, Phases
<1> QED
  BY <1>1, <1>2, <1>3, <1>4, <1>5, <1>6, <1>7, <1>8, <1>9, <1>10, <1>11, <1>12, <1>13,
     <1>14, <1>15, <1>16, <1>17 DEF CacheStep, Command

\* A process that ends knows nothing any more.
LEMMA EndedProc ==
    ASSUME NEW p \in Procs, NEW s \in {"idle", "dead"}, TypeOK, end(p, s),
           s = "idle" => call'[p] = "out"
    PROVE  ProcInv(p)'
  BY DEF TypeOK, end, step, ProcInv, active

\* Every step of a process keeps what each process knows.
LEMMA ProcStep ==
    ASSUME TypeOK, TypeOK', \A q \in Procs : ProcInv(q), NEW p \in Procs, CacheStep(p)
    PROVE  \A q \in Procs : ProcInv(q)'
<1>others. ASSUME NEW q \in Procs, q # p PROVE ProcInv(q)'
  BY <1>others, OthersStand DEF ProcInv, active, changes, starts, mayAccess
<1> SUFFICES ProcInv(p)'
  BY <1>others
<1>p. ProcInv(p)
  OBVIOUS
<1> USE <1>p DEF TypeOK, LockTypeOK
<1>1. CASE Lock(p) \/ LockFails(p) \/ Unlock(p)
  <2>1. phase[p] \in {"check", "recheck", "save", "checked", "rechecked", "saved", "failed"}
    BY <1>1 DEF Lock, LockFails, Unlock
  <2> QED
    BY <1>1, <2>1, LockPart DEF cacheVars, ProcInv, active, changes, starts, mayAccess
<1>2. CASE ReadCache(p)
  BY <1>2 DEF ReadCache, step, ProcInv, active, changes, starts
<1>3. CASE Checked(p)
  <2>1. CASE job[p].kind = "list" \/ (starts(p) /\ ~SameCluster(p))
    BY <1>3, <2>1, EndedProc DEF Checked, Finish, lockVars
  <2>2. CASE ~(job[p].kind = "list" \/ (starts(p) /\ ~SameCluster(p)))
    BY <1>3, <2>2 DEF Checked, step, lockVars, ProcInv, active, changes, starts
  <2> QED
    BY <2>1, <2>2
<1>4. CASE AlreadyRunning(p)
  BY <1>4, EndedProc DEF AlreadyRunning, Finish, lockVars, ProcInv
<1>5. CASE AddRefused(p) \/ Saved(p) \/ Failed(p)
  BY <1>5, EndedProc DEF AddRefused, Saved, Failed, Finish, lockVars
<1>6. CASE CreateFails(p) \/ DeleteFails(p)
  BY <1>6, EndedProc DEF CreateFails, DeleteFails, lockVars, ProcInv
<1>7. CASE AddPanics(p) \/ Kill(p)
  BY <1>7, EndedProc DEF AddPanics, Kill
<1>8. CASE NotRunning(p) \/ Created(p) \/ Deleted(p)
  BY <1>8 DEF NotRunning, Created, Deleted, step, lockVars, ProcInv, active, changes, starts
<1>9. CASE Add(p) \/ Delete(p)
  <2>1. phase[p] = "rechecked" /\ changes(p) /\ phase' = [phase EXCEPT ![p] = "save"]
        /\ job' = job /\ call' = call
    BY <1>9 DEF Add, Delete, step, lockVars, ProcInv
  <2>2. mem'[p] \in Maps
    <3>1. name(p) \in Clusters /\ (starts(p) => job[p].config \in Configs)
      BY <2>1, JobFacts DEF changes, name, starts
    <3>2. EmptyMap \in Maps
      BY DEF EmptyMap, Maps
    <3>3. CASE Add(p)
      <4>1. mem[p] \in Maps /\ mem'[p] = [mem[p] EXCEPT ![name(p)] = job[p].config]
        BY <3>3 DEF Add
      <4> QED
        BY <4>1, <3>1, <3>3 DEF Add, Maps
    <3>4. CASE Delete(p)
      <4>1. \/ mem[p] = NilMap /\ mem'[p] = EmptyMap
            \/ mem[p] \in Maps /\ mem'[p] = [mem[p] EXCEPT ![name(p)] = NoEntry]
        BY <3>4 DEF Delete
      <4> QED
        BY <4>1, <3>2 DEF Maps
    <3> QED
      BY <1>9, <3>3, <3>4
  <2> QED
    BY <2>1, <2>2 DEF ProcInv, active, changes
<1>10. CASE Truncate(p) \/ Write(p) \/ AccessFails(p)
  BY <1>10 DEF Truncate, Write, AccessFails, step, lockVars, ProcInv, active, changes, mayAccess
<1>11. CASE \E j \in Jobs : Begin(p, j)
  BY <1>11 DEF Begin, step, lockVars, ProcInv, active
<1> QED
  BY <1>1, <1>2, <1>3, <1>4, <1>5, <1>6, <1>7, <1>8, <1>9, <1>10, <1>11
  DEF CacheStep, Command

-----------------------------------------------------------------------------
(***************************************************************************)
(* Without faults and slow holders.                                        *)
(***************************************************************************)

\* Every step keeps KindInv.
LEMMA KindStep ==
    ASSUME CacheInv, ~world.faults, ~world.slow, NEW p \in Procs, CacheStep(p), TypeOK'
    PROVE  KindInv'
<1>inv. LockInv /\ TypeOK /\ KindInv /\ HeldByTheLiving /\ \A q \in Procs : ProcInv(q)
  BY DEF CacheInv, KindInv
<1>steps. \/ Lock(p) \/ Unlock(p) \/ ReadCache(p) \/ Checked(p)
          \/ AlreadyRunning(p) \/ NotRunning(p) \/ Created(p) \/ CreateFails(p)
          \/ Deleted(p) \/ DeleteFails(p) \/ Add(p) \/ AddRefused(p) \/ Delete(p)
          \/ Truncate(p) \/ Write(p) \/ Saved(p) \/ Failed(p)
          \/ \E j \in Jobs : Begin(p, j)
  <2>1. ~LockFails(p) /\ ~Kill(p) /\ ~AccessFails(p)
    BY DEF LockFails, OpenFails, Kill, AccessFails
  <2>2. ~AddPanics(p)
    BY <1>inv DEF AddPanics, KindInv
  <2> QED
    BY <2>1, <2>2 DEF CacheStep, Command
<1>1. HeldByTheLiving'
  <2>1. CASE Lock(p) \/ Unlock(p)
    <3>1. ~(TimeOut(p) /\ (world.slow \/ holderGone))
      BY <1>inv, PidLockAssumption DEF TimeOut, holderGone, HeldByTheLiving, LockInv, LockTypeOK
    <3> QED
      BY <2>1, <3>1, <1>inv, LivingStep DEF Lock, Unlock
  <2>2. CASE ~(Lock(p) \/ Unlock(p))
    <3>1. UNCHANGED lockVars
      BY <1>steps, <2>2 DEF Begin, ReadCache, Checked, AlreadyRunning, NotRunning, Finish,
         Created, CreateFails, Deleted, DeleteFails, Add, AddRefused, Delete,
         Truncate, Write, Saved, Failed
    <3> QED
      BY <3>1, <1>inv DEF HeldByTheLiving, lockVars
  <2> QED
    BY <2>1, <2>2
<1>2. cacheFile' = NilMap => \E q \in Procs : phase'[q] = "writing"
  <2> SUFFICES ASSUME cacheFile' = NilMap PROVE \E q \in Procs : phase'[q] = "writing"
    OBVIOUS
  <2>1. ~Write(p)
    BY <1>inv, CacheAssumption DEF Write, ProcInv, Maps
  <2>2. CASE Truncate(p)
    BY <2>2, <1>inv DEF Truncate, step, TypeOK
  <2>3. CASE ~Truncate(p)
    <3>1. cacheFile' = cacheFile /\ phase[p] # "writing"
      BY <1>steps, <2>1, <2>3, <1>inv DEF Begin, ReadCache, Checked, AlreadyRunning, NotRunning, Finish,
         Created, CreateFails, Deleted, DeleteFails, Add, AddRefused, Delete, Saved, Failed,
         Lock, Unlock, cacheVars
    <3>2. PICK q \in Procs : phase[q] = "writing"
      BY <3>1, <1>inv DEF KindInv
    <3> QED
      BY <3>1, <3>2, <1>inv, OthersStand
  <2> QED
    BY <2>2, <2>3
<1>3. ASSUME NEW q \in Procs, phase'[q] \in {"checked", "rechecked"} PROVE mem'[q] # NilMap
  <2>1. CASE q # p
    BY <2>1, <1>3, <1>inv, OthersStand DEF KindInv
  <2>2. CASE q = p /\ ReadCache(p)
    <3>1. call[p] = "held" /\ phase[p] # "writing"
      BY <2>2, <1>inv DEF ReadCache, mayAccess, HeldByTheLiving
    <3>2. \A r \in Procs : phase[r] = "writing" => call[r] = "held"
      BY <1>inv DEF ProcInv, mayAccess, HeldByTheLiving
    <3>3. cacheFile # NilMap
      BY <3>1, <3>2, <1>inv DEF KindInv, HeldByTheLiving
    <3> QED
      BY <2>2, <3>3, <1>inv DEF ReadCache, TypeOK
  <2>3. CASE q = p /\ (Lock(p) \/ Unlock(p))
    BY <2>3, <1>3, <1>inv DEF Lock, Unlock, cacheVars, KindInv
  <2>4. CASE q = p /\ ~ReadCache(p) /\ ~Lock(p) /\ ~Unlock(p)
    BY <2>4, <1>3, <1>inv, <1>steps DEF Begin, Checked, AlreadyRunning, NotRunning, Finish,
         Created, CreateFails, Deleted, DeleteFails, Add, AddRefused, Delete, Saved, Failed,
         Truncate, Write, TypeOK, step, end
  <2> QED
    BY <2>1, <2>2, <2>3, <2>4
<1> QED
  BY <1>1, <1>2, <1>3 DEF KindInv

-----------------------------------------------------------------------------
(***************************************************************************)
(* Commands that do not overlap.                                           *)
(***************************************************************************)

\* What a step of the only command has to show: the file it leaves behind
\* agrees with the clusters that exist, and it still knows what it must.
LEMMA SerialFrame ==
    ASSUME CacheInv, ~world.overlap, NEW p \in Procs, CacheStep(p), active(p),
           phase'[p] = "writing" \/ \A c \in Clusters : AgreesOn(onDisk, c)',
           AloneInv(p)'
    PROVE  SerialInv'
<1>1. \A q \in Procs \ {p} : ~active(q) /\ ~active(q)'
  BY OthersStand DEF CacheInv, SerialInv, active
<1>2. \A q \in Procs \ {p} : AloneInv(q)'
  BY <1>1 DEF AloneInv, active
<1> QED
  BY <1>1, <1>2 DEF SerialInv

\* The step of a process that ends.
LEMMA SerialEnd ==
    ASSUME CacheInv, ~world.overlap, NEW p \in Procs, CacheStep(p), active(p),
           NEW s \in {"idle", "dead"}, end(p, s),
           \A c \in Clusters : AgreesOn(onDisk, c)'
    PROVE  SerialInv'
<1>1. phase'[p] = s
  BY DEF end, step, CacheInv, TypeOK
<1>2. AloneInv(p)'
  BY <1>1 DEF AloneInv, active
<1> QED
  BY <1>2, SerialFrame

\* A command that changed nothing but its own place: what it has to show.
LEMMA SerialMove ==
    ASSUME CacheInv, ~world.overlap, NEW p \in Procs, CacheStep(p), active(p),
           phase[p] # "writing", UNCHANGED <<cacheFile, infra, settled, unlisted>>, AloneInv(p)'
    PROVE  SerialInv'
<1>1. \A q \in Procs : phase[q] # "writing"
  BY DEF CacheInv, SerialInv, active
<1>2. \A c \in Clusters : AgreesOn(onDisk, c)'
  BY <1>1 DEF CacheInv, SerialInv, AgreesOn, onDisk
<1> QED
  BY <1>2, SerialFrame

\* Every step keeps SerialInv.
LEMMA SerialStep ==
    ASSUME CacheInv, ~world.overlap, NEW p \in Procs, CacheStep(p), TypeOK'
    PROVE  SerialInv'
<1>inv. LockInv /\ TypeOK /\ SerialInv /\ AloneInv(p) /\ ProcInv(p)
  BY DEF CacheInv, SerialInv
<1>agree. phase[p] # "writing" /\ active(p) => \A c \in Clusters : AgreesOn(onDisk, c)
  BY <1>inv DEF SerialInv, active
<1>disk. \/ cacheFile = NilMap /\ onDisk = EmptyMap
         \/ cacheFile # NilMap /\ onDisk = cacheFile
  BY DEF onDisk
<1>empty. \A c \in Clusters : EmptyMap[c] = NoEntry
  BY DEF EmptyMap
<1>name. changes(p) => name(p) \in Clusters
  BY JobFacts DEF changes, name
<1>type. /\ cacheFile \in Maps \cup {NilMap} /\ infra \in Maps
         /\ phase \in [Procs -> Phases] /\ mem \in [Procs -> Maps \cup {NilMap}]
         /\ job \in [Procs -> Jobs \cup {NoJob}] /\ settled \in [Clusters -> {"no", "started", "found", "deleted"}]
         /\ unlisted \subseteq Clusters
  BY <1>inv DEF TypeOK
<1>config. changes(p) => (starts(p) => job[p].config \in Configs /\ job[p].config # NoEntry)
  BY JobFacts, CacheAssumption DEF changes, starts
<1>1. CASE Lock(p) \/ LockFails(p) \/ Unlock(p)
  <2>1. active(p) /\ phase[p] # "writing"
    BY <1>1 DEF Lock, LockFails, Unlock, active
  <2>2. UNCHANGED cacheVars
    BY <1>1, LockPart
  <2>3. AloneInv(p)'
    BY <2>2, <1>inv DEF cacheVars, AloneInv, active, changes, name, starts, wanted, AgreesOn
  <2> QED
    BY <2>1, <2>2, <2>3, SerialMove DEF cacheVars
<1>2. CASE ReadCache(p)
  <2>1. active(p) /\ phase[p] # "writing"
    BY <1>2 DEF ReadCache, active
  <2>2. AloneInv(p)'
    BY <1>2, <1>inv, <1>type, <2>1 DEF ReadCache, step, AloneInv, active, changes, name, starts, wanted
  <2> QED
    BY <1>2, <2>1, <2>2, SerialMove DEF ReadCache
<1>3. CASE Checked(p)
  <2>1. active(p) /\ phase[p] # "writing"
    BY <1>3 DEF Checked, active
  <2>2. CASE job[p].kind = "list" \/ (starts(p) /\ ~SameCluster(p))
    <3>1. end(p, "idle") /\ UNCHANGED <<cacheFile, infra, settled, unlisted>>
      BY <1>3, <2>2 DEF Checked, Finish
    <3>2. \A c \in Clusters : AgreesOn(onDisk, c)'
      BY <3>1, <2>1, <1>agree DEF AgreesOn, onDisk
    <3> QED
      BY <3>1, <3>2, <2>1, SerialEnd
  <2>3. CASE ~(job[p].kind = "list" \/ (starts(p) /\ ~SameCluster(p)))
    <3>1. starts(p) /\ cacheFile # NilMap => cacheFile[name(p)] \in {NoEntry, job[p].config}
      BY <1>3, <2>3, <1>inv DEF Checked, SameCluster, entryOf, AloneInv
    <3>2. AloneInv(p)'
      BY <1>3, <2>3, <3>1, <1>inv, <1>type, <2>1
      DEF Checked, step, AloneInv, active, changes, name, starts, wanted
    <3> QED
      BY <1>3, <2>3, <3>2, <2>1, SerialMove DEF Checked
  <2> QED
    BY <2>2, <2>3
<1>4. CASE AlreadyRunning(p)
  <2>1. /\ active(p) /\ phase[p] # "writing" /\ end(p, "idle") /\ UNCHANGED <<cacheFile, infra, unlisted>>
        /\ infra[name(p)] # NoEntry /\ settled' = [settled EXCEPT ![name(p)] = "found"]
    BY <1>4 DEF AlreadyRunning, Finish, active
  <2>2. \A c \in Clusters : AgreesOn(onDisk, c)'
    BY <2>1, <1>agree, <1>type DEF AgreesOn, onDisk
  <2> QED
    BY <2>1, <2>2, SerialEnd
<1>18. CASE Failed(p)
  <2>1. active(p) /\ phase[p] # "writing" /\ end(p, "idle") /\ UNCHANGED <<cacheFile, infra, settled, unlisted>>
    BY <1>18 DEF Failed, Finish, active
  <2>2. \A c \in Clusters : AgreesOn(onDisk, c)'
    BY <2>1, <1>agree DEF AgreesOn, onDisk
  <2> QED
    BY <2>1, <2>2, SerialEnd
<1>19. CASE AddRefused(p)
  <2>1. /\ active(p) /\ phase[p] = "rechecked" /\ end(p, "idle") /\ UNCHANGED <<cacheFile, infra, settled>>
        /\ entryOf(p) # NoEntry /\ unlisted' = unlisted \ {name(p)}
    BY <1>19 DEF AddRefused, active
  <2>2. onDisk[name(p)] # NoEntry
    BY <2>1, <1>inv DEF AloneInv, entryOf, onDisk
  <2>3. \A c \in Clusters : AgreesOn(onDisk, c)'
    BY <2>1, <2>2, <1>agree DEF AgreesOn, onDisk
  <2> QED
    BY <2>1, <2>3, SerialEnd
<1>5. CASE NotRunning(p)
  <2>1. active(p) /\ phase[p] # "writing"
    BY <1>5 DEF NotRunning, active
  <2>2. AloneInv(p)'
    BY <1>5, <1>inv, <1>type, <2>1 DEF NotRunning, step, AloneInv, active, changes, name, starts, wanted
  <2> QED
    BY <1>5, <2>1, <2>2, SerialMove DEF NotRunning
<1>create. ASSUME phase[p] = "create", infra[name(p)] = NoEntry, UNCHANGED <<cacheFile, settled>>,
                  infra' = [infra EXCEPT ![name(p)] = job[p].config],
                  unlisted' = unlisted \cup {name(p)}
           PROVE  \A c \in Clusters : AgreesOn(onDisk, c)'
  <2>1. /\ active(p) /\ changes(p) /\ starts(p) /\ settled[name(p)] = "no"
        /\ cacheFile # NilMap => cacheFile[name(p)] \in {NoEntry, job[p].config}
    BY <1>create, <1>inv DEF ProcInv, AloneInv, active
  <2>2. onDisk' = onDisk /\ onDisk[name(p)] \in {NoEntry, job[p].config}
    BY <1>create, <2>1, <1>empty, <1>name DEF onDisk
  <2> QED
    BY <1>create, <2>1, <2>2, <1>agree, <1>name, <1>type DEF AgreesOn, Maps
<1>6. CASE Created(p)
  <2>1. phase[p] = "create" /\ active(p) /\ changes(p) /\ starts(p) /\ settled[name(p)] = "no"
    BY <1>6, <1>inv DEF Created, ProcInv, AloneInv, active
  <2>2. AloneInv(p)'
    BY <1>6, <2>1, <1>inv, <1>type, <1>name
    DEF Created, step, AloneInv, active, changes, name, starts, wanted, Maps
  <2> QED
    BY <1>6, <2>1, <2>2, <1>create, SerialFrame DEF Created
<1>7. CASE CreateFails(p)
  <2>1. active(p) /\ phase[p] = "create" /\ end(p, "idle") /\ UNCHANGED <<cacheFile, settled>>
    BY <1>7 DEF CreateFails, active
  <2>2. \/ infra' = infra /\ unlisted' = unlisted
        \/ /\ infra[name(p)] = NoEntry /\ infra' = [infra EXCEPT ![name(p)] = job[p].config]
           /\ unlisted' = unlisted \cup {name(p)}
    BY <1>7 DEF CreateFails
  <2>3. \A c \in Clusters : AgreesOn(onDisk, c)'
    BY <2>1, <2>2, <1>create, <1>agree DEF AgreesOn, onDisk
  <2> QED
    BY <2>1, <2>3, SerialEnd
<1>delete. ASSUME phase[p] = "driver", job[p].kind = "delete", UNCHANGED <<cacheFile, settled>>,
                  infra' = [infra EXCEPT ![name(p)] = NoEntry], unlisted' = unlisted \ {name(p)}
           PROVE  \A c \in Clusters : AgreesOn(onDisk, c)'
  <2>1. active(p) /\ changes(p) /\ settled[name(p)] = "no"
    BY <1>delete, <1>inv DEF ProcInv, AloneInv, active
  <2> QED
    BY <1>delete, <2>1, <1>agree, <1>name, <1>type DEF AgreesOn, Maps, onDisk
<1>8. CASE Deleted(p)
  <2>1. phase[p] = "driver" /\ active(p) /\ changes(p) /\ ~starts(p) /\ settled[name(p)] = "no"
    BY <1>8, <1>inv DEF Deleted, ProcInv, AloneInv, active, starts
  <2>2. AloneInv(p)'
    BY <1>8, <2>1, <1>inv, <1>type, <1>name
    DEF Deleted, step, AloneInv, active, changes, name, starts, wanted, Maps
  <2> QED
    BY <1>8, <2>1, <2>2, <1>delete, SerialFrame DEF Deleted
<1>9. CASE DeleteFails(p)
  <2>1. /\ active(p) /\ phase[p] = "driver" /\ job[p].kind = "delete" /\ end(p, "idle")
        /\ UNCHANGED <<cacheFile, settled>>
    BY <1>9 DEF DeleteFails, active
  <2>2. \/ infra' = infra /\ unlisted' = unlisted
        \/ infra' = [infra EXCEPT ![name(p)] = NoEntry] /\ unlisted' = unlisted \ {name(p)}
    BY <1>9 DEF DeleteFails
  <2>3. \A c \in Clusters : AgreesOn(onDisk, c)'
    BY <2>1, <2>2, <1>delete, <1>agree DEF AgreesOn, onDisk
  <2> QED
    BY <2>1, <2>3, SerialEnd
<1>10. CASE Add(p) \/ Delete(p)
  <2>1. /\ phase[p] = "rechecked" /\ active(p) /\ changes(p) /\ settled[name(p)] = "no"
        /\ mem[p] = cacheFile /\ infra[name(p)] = wanted(p)
        /\ starts(p) => name(p) \in unlisted
    BY <1>10, <1>inv DEF Add, Delete, ProcInv, AloneInv, active
  <2>2. /\ phase' = [phase EXCEPT ![p] = "save"]
        /\ UNCHANGED <<lockVars, cacheFile, infra, job, settled, unlisted>>
    BY <1>10 DEF Add, Delete, step
  <2>3. /\ mem'[p][name(p)] = wanted(p)
        /\ \A c \in Clusters \ {name(p)} : mem'[p][c] = onDisk[c]
    <3>1. CASE Add(p)
      <4>1. mem[p] \in Maps /\ mem'[p] = [mem[p] EXCEPT ![name(p)] = job[p].config]
        BY <3>1, <1>type DEF Add
      <4> QED
        BY <3>1, <4>1, <2>1, <1>name, <1>disk DEF Add, Maps, wanted
    <3>2. CASE Delete(p)
      <4>1. \/ mem[p] = NilMap /\ mem'[p] = EmptyMap
            \/ mem[p] # NilMap /\ mem[p] \in Maps /\ mem'[p] = [mem[p] EXCEPT ![name(p)] = NoEntry]
        BY <3>2, <1>type DEF Delete
      <4> QED
        BY <3>2, <4>1, <2>1, <1>name, <1>disk DEF Delete, Maps, wanted, starts, EmptyMap
    <3> QED
      BY <1>10, <3>1, <3>2
  <2>4. ASSUME NEW c \in Clusters PROVE AgreesOn(mem[p], c)'
    <3>1. CASE c = name(p)
      BY <3>1, <2>1, <2>2, <2>3 DEF AgreesOn
    <3>2. CASE c # name(p)
      BY <3>2, <2>1, <2>2, <2>3, <1>agree DEF AgreesOn
    <3> QED
      BY <3>1, <3>2
  <2>5. AloneInv(p)'
    BY <2>1, <2>2, <2>3, <2>4, <1>type DEF AloneInv, active, changes, name, starts, wanted
  <2> QED
    BY <2>1, <2>2, <2>5, SerialMove
<1>11. CASE AddPanics(p)
  <2>1. active(p) /\ phase[p] # "writing" /\ end(p, "dead") /\ UNCHANGED <<cacheFile, infra, settled, unlisted>>
    BY <1>11 DEF AddPanics, active
  <2>2. \A c \in Clusters : AgreesOn(onDisk, c)'
    BY <2>1, <1>agree DEF AgreesOn, onDisk
  <2> QED
    BY <2>1, <2>2, SerialEnd
<1>12. CASE Truncate(p)
  <2>1. active(p) /\ phase[p] = "save" /\ phase'[p] = "writing" /\ cacheFile' = NilMap
    BY <1>12, <1>type DEF Truncate, active, step
  <2>2. AloneInv(p)'
    BY <1>12, <2>1, <1>inv, <1>type
    DEF Truncate, step, AloneInv, AgreesOn, active, changes, name, starts, wanted
  <2> QED
    BY <2>1, <2>2, SerialFrame
<1>13. CASE Write(p)
  <2>1. active(p) /\ phase[p] = "writing" /\ phase'[p] = "saved"
    BY <1>13, <1>type DEF Write, active, step
  <2>2. AloneInv(p)'
    BY <1>13, <2>1, <1>inv, <1>type
    DEF Write, step, AloneInv, active, changes, name, starts, wanted
  <2>3. cacheFile' = mem[p] /\ mem[p] # NilMap /\ changes(p) /\ mem[p][name(p)] = wanted(p)
        /\ infra[name(p)] = wanted(p)
    BY <1>13, <2>1, <1>inv, CacheAssumption DEF Write, ProcInv, AloneInv, Maps
  <2>4. onDisk' = mem[p]
    BY <2>3 DEF onDisk
  <2>5. \A c \in Clusters : AgreesOn(onDisk, c)'
    BY <1>13, <2>1, <2>3, <2>4, <1>inv, <1>name DEF Write, AloneInv, AgreesOn
  <2> QED
    BY <2>1, <2>2, <2>5, SerialFrame
<1>14. CASE Saved(p)
  <2>1. /\ active(p) /\ phase[p] = "saved" /\ end(p, "idle") /\ changes(p)
        /\ UNCHANGED <<cacheFile, infra, unlisted>>
        /\ settled' = [settled EXCEPT ![name(p)] = IF starts(p) THEN "started" ELSE "deleted"]
    BY <1>14, <1>inv DEF Saved, Finish, active, ProcInv
  <2>2. /\ cacheFile # NilMap /\ cacheFile[name(p)] = wanted(p) /\ infra[name(p)] = wanted(p)
    BY <2>1, <1>inv, CacheAssumption DEF AloneInv, ProcInv, Maps
  <2>4. onDisk = cacheFile /\ onDisk' = cacheFile
    BY <2>1, <2>2 DEF onDisk
  <2>3. ASSUME NEW c \in Clusters PROVE AgreesOn(onDisk, c)'
    <3>1. CASE c = name(p)
      BY <3>1, <2>1, <2>2, <2>4, <1>type, <1>config, <1>agree DEF AgreesOn, wanted
    <3>2. CASE c # name(p)
      BY <3>2, <2>1, <2>2, <2>4, <1>type, <1>agree DEF AgreesOn
    <3> QED
      BY <3>1, <3>2
  <2> QED
    BY <2>1, <2>3, SerialEnd
<1>15. CASE AccessFails(p)
  <2>1. active(p) /\ phase[p] # "writing" /\ phase'[p] = "failed" /\ UNCHANGED <<infra, job, mem>>
    BY <1>15, <1>type DEF AccessFails, active, step
  <2>2. CASE cacheFile' = cacheFile /\ settled' = settled /\ unlisted' = unlisted
    <3>1. AloneInv(p)'
      BY <2>1, <2>2, <1>inv DEF AloneInv, active, changes, name
    <3> QED
      BY <2>1, <2>2, <3>1, SerialMove
  <2>3. CASE cacheFile' = NilMap /\ settled' = [c \in Clusters |-> "no"] /\ unlisted' = Clusters
    <3>1. AloneInv(p)'
      BY <2>1, <2>3, <1>inv, <1>name DEF AloneInv, active, changes, name
    <3>2. \A c \in Clusters : AgreesOn(onDisk, c)'
      BY <2>3, <1>empty DEF AgreesOn, onDisk, EmptyMap
    <3> QED
      BY <2>1, <2>3, <3>1, <3>2, SerialFrame
  <2> QED
    BY <1>15, <2>2, <2>3 DEF AccessFails
<1>16. CASE Kill(p)
  <2>1. active(p) /\ end(p, "dead") /\ UNCHANGED <<cacheFile, infra>>
    BY <1>16 DEF Kill, active
  <2>2. CASE phase[p] # "writing"
    <3>1. settled' = settled /\ unlisted' = unlisted
      BY <1>16, <2>2 DEF Kill
    <3>2. \A c \in Clusters : AgreesOn(onDisk, c)'
      BY <2>1, <2>2, <3>1, <1>agree DEF AgreesOn, onDisk
    <3> QED
      BY <2>1, <3>2, SerialEnd
  <2>3. CASE phase[p] = "writing"
    <3>1. settled' = [c \in Clusters |-> "no"] /\ unlisted' = Clusters /\ cacheFile' = NilMap
      BY <1>16, <2>1, <2>3, <1>inv DEF Kill, AloneInv
    <3>2. \A c \in Clusters : AgreesOn(onDisk, c)'
      BY <3>1 DEF AgreesOn, onDisk, EmptyMap
    <3> QED
      BY <2>1, <3>2, SerialEnd
  <2> QED
    BY <2>2, <2>3
<1>17. ASSUME NEW j \in Jobs, Begin(p, j) PROVE SerialInv'
  <2>1. \A q \in Procs : ~active(q)
    BY <1>17 DEF Begin, active
  <2>2. /\ phase' = [phase EXCEPT ![p] = "check"] /\ job' = [job EXCEPT ![p] = j]
        /\ UNCHANGED <<cacheFile, infra, mem, unlisted>>
        /\ settled' = IF j.kind = "list" THEN settled ELSE [settled EXCEPT ![j.name] = "no"]
    BY <1>17 DEF Begin, step
  <2>3. \A q \in Procs \ {p} : ~active(q)'
    BY <2>1, <2>2, <1>type DEF active
  <2>4. \A q \in Procs \ {p} : AloneInv(q)'
    BY <2>3 DEF AloneInv, active
  <2>5. \A c \in Clusters : settled'[c] \in {settled[c], "no"}
    BY <2>2, <1>type
  <2>6. j.kind # "list" => settled'[j.name] = "no"
    BY <2>2, <1>type, JobFacts
  <2>7. AloneInv(p)'
    BY <2>2, <2>6, <1>type DEF AloneInv, active, changes, name
  <2>8. \A c \in Clusters : AgreesOn(onDisk, c)
    BY <2>1, <1>inv DEF SerialInv, active
  <2>9. \A c \in Clusters : AgreesOn(onDisk, c)'
    BY <2>2, <2>5, <2>8 DEF AgreesOn, onDisk
  <2> QED
    BY <2>3, <2>4, <2>7, <2>9 DEF SerialInv
<1> QED
  BY <1>1, <1>2, <1>3, <1>4, <1>5, <1>6, <1>7, <1>8, <1>9, <1>10, <1>11, <1>12, <1>13,
     <1>14, <1>15, <1>16, <1>17, <1>18, <1>19 DEF CacheStep, Command

-----------------------------------------------------------------------------
(***************************************************************************)
(* The theorems.                                                           *)
(***************************************************************************)

\* The invariant holds with an empty cache, no cluster and no command.
LEMMA CacheInvInit == Init => CacheInv
<1> SUFFICES ASSUME Init PROVE CacheInv
  OBVIOUS
<1>1. LockInv
  BY LockInvInit DEF Init
<1>2. EmptyMap \in Maps /\ EmptyMap # NilMap
  BY CacheAssumption DEF EmptyMap, Maps
<1>3. TypeOK
  BY <1>1, <1>2 DEF Init, TypeOK, LockInv, Phases
<1>4. \A p \in Procs : ProcInv(p)
  BY DEF Init, LockInit, ProcInv, active
<1>5. KindInv
  BY <1>2 DEF Init, LockInit, KindInv, HeldByTheLiving
<1>6. SerialInv
  <2>1. \A c \in Clusters : AgreesOn(onDisk, c)
    BY DEF Init, AgreesOn, EmptyMap, onDisk
  <2> QED
    BY <2>1, <1>2 DEF Init, SerialInv, AloneInv, active
<1> QED
  BY <1>1, <1>3, <1>4, <1>5, <1>6 DEF CacheInv

\* Every step of every command, every kill and every error preserves it.
LEMMA CacheInvStep == CacheInv /\ [Next]_vars => CacheInv'
<1> SUFFICES ASSUME CacheInv, [Next]_vars PROVE CacheInv'
  OBVIOUS
<1>1. LockInv'
  BY CacheLockStep, LockInvStep DEF CacheInv
<1>2. CASE UNCHANGED vars
  BY <1>2, <1>1 DEF CacheInv, vars, TypeOK, LockTypeOK, ProcInv, KindInv, HeldByTheLiving, SerialInv, AloneInv,
     onDisk, AgreesOn, active, changes, name, starts, wanted, mayAccess
<1>3. ASSUME NEW p \in Procs, CacheStep(p) PROVE CacheInv'
  <2>1. TypeOK'
    BY <1>1, <1>3, TypeStep DEF CacheInv
  <2>2. \A q \in Procs : ProcInv(q)'
    BY <1>3, <2>1, ProcStep DEF CacheInv
  <2>3. world' = world
    BY <1>3, OthersStand DEF CacheInv
  <2>4. ~world.faults /\ ~world.slow => KindInv'
    BY <1>3, <2>1, KindStep
  <2>5. ~world.overlap => SerialInv'
    BY <1>3, <2>1, SerialStep
  <2> QED
    BY <1>1, <2>1, <2>2, <2>3, <2>4, <2>5 DEF CacheInv
<1> QED
  BY <1>2, <1>3 DEF Next, CacheStep

\* The inductive invariant of the cache holds in every reachable state.
THEOREM CacheInvHolds == Spec => []CacheInv
  BY CacheInvInit, CacheInvStep, PTL DEF Spec

\* GetCache never returns a map read between the truncation and the write of
\* another process's Save, unless a process is killed or a holder of the pid
\* lock outlasts a timeout.
THEOREM ReadsAreWhole == Spec => []NoTornRead
<1>1. CacheInv => NoTornRead
  BY DEF CacheInv, KindInv, NoTornRead
<1> QED
  BY <1>1, CacheInvHolds, PTL

\* The state is well formed, and commands that do not overlap leave the cache
\* and the clusters that exist in agreement, whatever was killed or failed
\* before them.
THEOREM CacheAgreement == Spec => []CacheAgrees
<1>1. CacheInv => CacheAgrees
  <2> SUFFICES ASSUME CacheInv PROVE CacheAgrees
    OBVIOUS
  <2>1. TypeOK
    BY DEF CacheInv
  <2>4. ASSUME ~world.overlap, cacheFile # NilMap, NEW c \in Clusters PROVE AgreesOn(cacheFile, c)
    BY <2>4 DEF CacheInv, SerialInv, AloneInv, onDisk
  <2>2. CachedConfigMatches
    BY <2>4 DEF AgreesOn, CachedConfigMatches
  <2>3. CommandsSettle
    BY <2>4 DEF AgreesOn, CommandsSettle
  <2> QED
    BY <2>1, <2>2, <2>3 DEF CacheAgrees
<1> QED
  BY <1>1, CacheInvHolds, PTL

\* The commands on the cache implement the calls of the pid lock: each of
\* their steps is a step of WaitFor, of Drop, a kill, or leaves the lock alone.
THEOREM CacheImplementsLock == Spec => LockInit /\ [][LockNext]_lockVars
<1>1. Init => LockInit
  BY DEF Init
<1> QED
  BY <1>1, CacheLockStep, PTL DEF Spec

\* Under these commands the lock excludes, and Drop, which GetCache and Save
\* call also when WaitFor failed, never removes another process's pidfile.
THEOREM CacheKeepsLock == Spec => LockKept
<1>1. CacheInv => LockInv
  BY DEF CacheInv
<1> QED
  BY <1>1, CacheInvHolds, CacheLockStep, KeptStep, PTL DEF Spec, LockKept

-----------------------------------------------------------------------------
(***************************************************************************)
(* Configurations: every value comes from the layer it has to come from, a *)
(* cached cluster is handled with what it was started with and is found again. *)
(***************************************************************************)

-----------------------------------------------------------------------------
(* Paths of names                                                           *)

isPath(f) == f # <<>> /\ \E S : f \in Seq(S)
Paths(F) == \A f \in F : isPath(f)

LEMMA One == ASSUME NEW S, NEW n \in S PROVE <<n>> \in Seq(S) /\ Len(<<n>>) = 1 /\ <<n>>[1] = n /\ <<n>> # <<>>
OBVIOUS

LEMMA OwnPaths ==
    ASSUME NEW S
    PROVE  Paths(own(S)) /\ \A f \in own(S) : Len(f) = 1 /\ f[1] \in S
<1> SUFFICES ASSUME NEW n \in S PROVE isPath(<<n>>) /\ Len(<<n>>) = 1 /\ <<n>>[1] \in S
  BY DEF own, Paths
<1> QED BY One DEF isPath

LEMMA Cons ==
    ASSUME NEW S, NEW n \in S, NEW g \in Seq(S)
    PROVE  /\ <<n>> \o g \in Seq(S) /\ Len(<<n>> \o g) = 1 + Len(g) /\ (<<n>> \o g)[1] = n
           /\ \A i \in 1..Len(g) : (<<n>> \o g)[1 + i] = g[i]
<1>1. <<n>> \in Seq(S) /\ Len(<<n>>) = 1 /\ <<n>>[1] = n
  BY One
<1>2. Len(g) \in Nat
  BY LenProperties
<1>3. /\ <<n>> \o g \in Seq(S)
      /\ Len(<<n>> \o g) = Len(<<n>>) + Len(g)
      /\ \A i \in 1 .. Len(<<n>>) + Len(g) : (<<n>> \o g)[i] = IF i <= Len(<<n>>) THEN <<n>>[i] ELSE g[i - Len(<<n>>)]
  BY <1>1, ConcatProperties
<1>4. \A i \in 1..Len(g) : 1 + i \in 1 .. 1 + Len(g) /\ ~(1 + i <= 1) /\ 1 + i - 1 = i
  BY <1>2
<1>5. (<<n>> \o g)[1] = n
  BY <1>1, <1>2, <1>3
<1>6. ASSUME NEW i \in 1..Len(g) PROVE (<<n>> \o g)[1 + i] = g[i]
  BY <1>1, <1>3, <1>4
<1> QED BY <1>1, <1>3, <1>5, <1>6

LEMMA PairIn == ASSUME NEW S, NEW m \in S, NEW n \in S PROVE <<m>> \o <<n>> = <<m, n>>
<1>1. <<m, n>> \in Seq(S) /\ Len(<<m, n>>) = 2 /\ <<m, n>>[1] = m /\ <<m, n>>[2] = n
  OBVIOUS
<1>2. <<n>> \in Seq(S) /\ Len(<<n>>) = 1 /\ <<n>>[1] = n
  BY One
<1>3. <<m>> \o <<n>> \in Seq(S) /\ Len(<<m>> \o <<n>>) = 2 /\ (<<m>> \o <<n>>)[1] = m /\ (<<m>> \o <<n>>)[2] = n
  BY <1>2, Cons
<1>4. \A i \in 1..2 : i = 1 \/ i = 2
  OBVIOUS
<1>5. PICK s, t : s = <<m>> \o <<n>> /\ t = <<m, n>>
  OBVIOUS
<1>6. s \in Seq(S) /\ t \in Seq(S) /\ Len(s) = 2 /\ Len(t) = 2 /\ \A i \in 1..2 : s[i] = t[i]
  BY <1>1, <1>3, <1>4, <1>5
<1>7. s = t
  BY <1>6, SeqEqual
<1> QED BY <1>5, <1>7

LEMMA ThreeIn ==
    ASSUME NEW S, NEW l \in S, NEW m \in S, NEW n \in S
    PROVE  <<l>> \o <<m, n>> = <<l, m, n>>
<1>1. <<l, m, n>> \in Seq(S) /\ Len(<<l, m, n>>) = 3
      /\ <<l, m, n>>[1] = l /\ <<l, m, n>>[2] = m /\ <<l, m, n>>[3] = n
  OBVIOUS
<1>2. PICK g : g = <<m, n>>
  OBVIOUS
<1>3. g \in Seq(S) /\ Len(g) = 2 /\ g[1] = m /\ g[2] = n
  BY <1>2
<1>4. PICK s, t : s = <<l>> \o g /\ t = <<l, m, n>>
  OBVIOUS
<1>5. s \in Seq(S) /\ Len(s) = 1 + Len(g) /\ s[1] = l /\ \A i \in 1..Len(g) : s[1 + i] = g[i]
  BY <1>3, <1>4, Cons
<1>6. s[2] = m /\ s[3] = n
  BY <1>3, <1>5
<1>7. s \in Seq(S) /\ t \in Seq(S) /\ Len(s) = Len(t) /\ \A i \in 1..Len(s) : s[i] = t[i]
  BY <1>1, <1>3, <1>4, <1>5, <1>6
<1>8. s = t
  BY <1>7, SeqEqual
<1> QED BY <1>2, <1>4, <1>8

LEMMA FourIn ==
    ASSUME NEW S, NEW k \in S, NEW l \in S, NEW m \in S, NEW n \in S
    PROVE  <<k>> \o <<l, m, n>> = <<k, l, m, n>> /\ <<k, l, m>> \o <<n>> = <<k, l, m, n>>
<1>1. PICK t : t = <<k, l, m, n>>
  OBVIOUS
<1>2. t \in Seq(S) /\ Len(t) = 4 /\ t[1] = k /\ t[2] = l /\ t[3] = m /\ t[4] = n
  BY <1>1
<1>3. PICK s, g : g = <<l, m, n>> /\ s = <<k>> \o g
  OBVIOUS
<1>4. g \in Seq(S) /\ Len(g) = 3 /\ g[1] = l /\ g[2] = m /\ g[3] = n
  BY <1>3
<1>5. s \in Seq(S) /\ Len(s) = 1 + Len(g) /\ s[1] = k /\ \A i \in 1..Len(g) : s[1 + i] = g[i]
  BY <1>3, <1>4, Cons
<1>6. s[2] = l /\ s[3] = m /\ s[4] = n
  BY <1>4, <1>5
<1>7. s \in Seq(S) /\ t \in Seq(S) /\ Len(s) = Len(t) /\ \A i \in 1..Len(s) : s[i] = t[i]
  BY <1>2, <1>4, <1>5, <1>6
<1>8. s = t
  BY <1>7, SeqEqual
<1>9. PICK v, w : v = <<k, l, m>> /\ w = <<n>>
  OBVIOUS
<1>10. v \in Seq(S) /\ Len(v) = 3 /\ v[1] = k /\ v[2] = l /\ v[3] = m /\ w \in Seq(S) /\ Len(w) = 1 /\ w[1] = n
  BY <1>9
<1>11. PICK r : r = v \o w
  OBVIOUS
<1>12. r \in Seq(S) /\ Len(r) = Len(v) + Len(w)
       /\ \A i \in 1 .. Len(v) + Len(w) : r[i] = IF i <= Len(v) THEN v[i] ELSE w[i - Len(v)]
  BY <1>10, <1>11, ConcatProperties
<1>13. r[1] = k /\ r[2] = l /\ r[3] = m /\ r[4] = n
  BY <1>10, <1>12
<1>14. r \in Seq(S) /\ t \in Seq(S) /\ Len(r) = Len(t) /\ \A i \in 1..Len(r) : r[i] = t[i]
  BY <1>2, <1>10, <1>12, <1>13
<1>15. r = t
  BY <1>14, SeqEqual
<1> QED BY <1>1, <1>3, <1>8, <1>9, <1>11, <1>15

LEMMA WithinPaths ==
    ASSUME NEW n, NEW F, Paths(F)
    PROVE  /\ Paths(within(n, F))
           /\ \A f \in within(n, F) : Len(f) > 1 /\ f[1] = n /\ \E g \in F : g[1] = f[2] /\ Len(f) = 1 + Len(g)
<1> SUFFICES ASSUME NEW g \in F
             PROVE  /\ isPath(<<n>> \o g)
                    /\ Len(<<n>> \o g) > 1 /\ (<<n>> \o g)[1] = n
                    /\ g[1] = (<<n>> \o g)[2] /\ Len(<<n>> \o g) = 1 + Len(g)
  BY DEF within, Paths
<1>1. PICK f : f = <<n>> \o g
  OBVIOUS
<1>2. PICK T : g \in Seq(T) /\ g # <<>>
  BY DEF Paths, isPath
<1>3. Len(g) \in Nat /\ Len(g) > 0
  <2>1. Len(g) \in Nat \ {0}
    BY <1>2, EmptySeq
  <2> QED BY <2>1
<1>4. PICK S : S = T \cup {n}
  OBVIOUS
<1>5. n \in S /\ g \in Seq(S)
  BY <1>2, <1>4, SeqMonotonic
<1>6. f \in Seq(S) /\ Len(f) = 1 + Len(g) /\ f[1] = n /\ \A i \in 1..Len(g) : f[1 + i] = g[i]
  BY <1>1, <1>5, Cons
<1>7. f[2] = g[1] /\ Len(f) > 1
  BY <1>3, <1>6
<1>8. f # <<>>
  BY <1>7
<1> QED BY <1>1, <1>6, <1>7, <1>8 DEF isPath

LEMMA Pair == \A m, n : <<m>> \o <<n>> = <<m, n>>
<1> SUFFICES ASSUME NEW m, NEW n PROVE <<m>> \o <<n>> = <<m, n>>
  OBVIOUS
<1>1. PICK S : S = {m, n}
  OBVIOUS
<1> QED BY <1>1, PairIn

LEMMA Three == \A l, m, n : <<l>> \o <<m, n>> = <<l, m, n>>
<1> SUFFICES ASSUME NEW l, NEW m, NEW n PROVE <<l>> \o <<m, n>> = <<l, m, n>>
  OBVIOUS
<1>1. PICK S : S = {l, m, n}
  OBVIOUS
<1> QED BY <1>1, ThreeIn

LEMMA Four == \A k, l, m, n : <<k>> \o <<l, m, n>> = <<k, l, m, n>> /\ <<k, l, m>> \o <<n>> = <<k, l, m, n>>
<1> SUFFICES ASSUME NEW k, NEW l, NEW m, NEW n
             PROVE <<k>> \o <<l, m, n>> = <<k, l, m, n>> /\ <<k, l, m>> \o <<n>> = <<k, l, m, n>>
  OBVIOUS
<1>1. PICK S : S = {k, l, m, n}
  OBVIOUS
<1> QED BY <1>1, FourIn

LEMMA UnionPaths == \A F, G : Paths(F) /\ Paths(G) => Paths(F \cup G)
BY DEF Paths

-----------------------------------------------------------------------------
(* Fields                                                                   *)

LEMMA LibvirtPaths == Paths(LibvirtProvider) /\ Paths(Node)
<1>1. Paths(Node)
  BY OwnPaths, UnionPaths DEF Node
<1>2. Paths(within("ControlPlaneNode", Node)) /\ Paths(within("WorkerNode", Node))
  BY <1>1, WithinPaths
<1> QED BY <1>1, <1>2, OwnPaths, UnionPaths DEF LibvirtProvider

LEMMA OciPaths == Paths(OciProvider) /\ Paths(Proxy)
<1>1. Paths(Proxy) /\ Paths(OciImageSet) /\ Paths(LoadBalancer)
      /\ Paths(OciInstanceShape)
  BY OwnPaths, UnionPaths DEF Proxy, OciImageSet, LoadBalancer, OciInstanceShape
<1>2. /\ Paths(within("Images", OciImageSet)) /\ Paths(within("LoadBalancer", LoadBalancer))
      /\ Paths(within("ControlPlaneShape", OciInstanceShape))
      /\ Paths(within("WorkerShape", OciInstanceShape)) /\ Paths(within("Proxy", Proxy))
  BY <1>1, WithinPaths
<1> QED BY <1>1, <1>2, OwnPaths, UnionPaths DEF OciProvider

LEMMA OlvmMachinePaths == Paths(OlvmMachine)
<1>1. Paths(within("Topology", own({"Cores", "Sockets", "Threads"})))
  BY OwnPaths, WithinPaths
<1>2. Paths(OlvmMachineCpu)
  BY <1>1, OwnPaths, UnionPaths DEF OlvmMachineCpu
<1>3. Paths(within("IPV4", own({"Subnet", "IpAddresses"})))
      /\ Paths(within("IPV6", own({"AutoConf", "IpAddresses"})))
  BY OwnPaths, WithinPaths
<1>4. Paths(OlvmVirtualMachineNetwork)
  BY <1>3, OwnPaths, UnionPaths DEF OlvmVirtualMachineNetwork
<1>5. Paths(within("Cpu", OlvmMachineCpu)) /\ Paths(within("Network", OlvmVirtualMachineNetwork))
  BY <1>2, <1>4, WithinPaths
<1>6. Paths(OlvmVirtualMachine)
  BY <1>5, OwnPaths, UnionPaths DEF OlvmVirtualMachine
<1>7. Paths(OlvmNetwork)
  BY OwnPaths, UnionPaths DEF OlvmNetwork
<1>8. Paths(within("OlvmNetwork", OlvmNetwork)) /\ Paths(within("VirtualMachine", OlvmVirtualMachine))
  BY <1>6, <1>7, WithinPaths
<1> QED BY <1>8, OwnPaths, UnionPaths DEF OlvmMachine

LEMMA OlvmPaths == Paths(OlvmProvider)
<1>1. Paths(within("ControlPlaneMachine", OlvmMachine)) /\ Paths(within("WorkerMachine", OlvmMachine))
  BY OlvmMachinePaths, WithinPaths
<1>2. Paths(OvirtCsiDriver) /\ Paths(OlvmOck) /\ Paths(OlvmLocalAPIEndpoint)
      /\ Paths(NamespacedName)
  BY OwnPaths, UnionPaths DEF OvirtCsiDriver, OlvmOck, OlvmLocalAPIEndpoint, NamespacedName
<1>3. Paths(within("CAConfigMap", NamespacedName)) /\ Paths(within("CredentialsSecret", NamespacedName))
  BY <1>2, WithinPaths
<1>4. Paths(OlvmAPIServer)
  BY <1>3, OwnPaths, UnionPaths DEF OlvmAPIServer
<1>5. /\ Paths(within("CSIDriver", OvirtCsiDriver)) /\ Paths(within("OlvmOck", OlvmOck))
      /\ Paths(within("LocalAPIEndpoint", OlvmLocalAPIEndpoint))
      /\ Paths(within("OlvmAPIServer", OlvmAPIServer))
  BY <1>2, <1>4, WithinPaths
<1>6. Paths(within("Proxy", Proxy))
  BY OciPaths, WithinPaths
<1> QED BY <1>1, <1>5, <1>6, OwnPaths, UnionPaths DEF OlvmProvider

LEMMA ProviderPaths == Paths(Providers)
<1>1. Paths(ByoProvider)
  BY OwnPaths, UnionPaths DEF ByoProvider
<1>2. Paths(within("Libvirt", LibvirtProvider)) /\ Paths(within("Oci", OciProvider))
      /\ Paths(within("Byo", ByoProvider)) /\ Paths(within("Olvm", OlvmProvider))
  BY <1>1, LibvirtPaths, OciPaths, OlvmPaths, WithinPaths
<1> QED BY <1>2, UnionPaths DEF Providers

\* The fields of a name of their own and those of the groups.
SharedNames ==
    {"KubeAPIServerBindPort", "KubeAPIServerBindPortAlt", "PodSubnet", "ServiceSubnet", "Registry",
     "OsRegistry", "OsTag", "KubeProxyMode", "BootVolumeContainerImage", "CNI", "Headless", "Catalog",
     "CommunityCatalog", "KubeVersion", "SshPublicKeyPath", "SshPublicKey", "Password",
     "ExtraIgnition", "ExtraIgnitionInline"}

LEMMA SharedShape ==
    ASSUME NEW f \in Shared
    PROVE  \/ Len(f) = 1 /\ f[1] \in SharedNames
           \/ Len(f) > 1 /\ f[1] \in {"Providers", "Proxy", "CertificateInformation"}
<1>1. Paths(CertificateInformation)
  BY OwnPaths, UnionPaths DEF CertificateInformation
<1>2. CASE f \in own(SharedNames)
  BY <1>2, OwnPaths, UnionPaths DEF SharedNames
<1>3. CASE f \in within("Providers", Providers)
  BY <1>3, ProviderPaths, WithinPaths
<1>4. CASE f \in within("Proxy", Proxy)
  BY <1>4, OciPaths, WithinPaths
<1>5. CASE f \in within("CertificateInformation", CertificateInformation)
  BY <1>5, <1>1, WithinPaths
<1> QED BY <1>2, <1>3, <1>4, <1>5 DEF Shared, SharedNames

LEMMA NotShared ==
    /\ Name \notin Shared /\ Provider \notin Shared /\ <<"ControlPlaneNodes">> \notin Shared
    /\ <<"WorkingDirectory">> \notin Shared /\ <<"WorkerNodes">> \notin Shared /\ Preserve \notin Shared
<1>1. \A n : Len(<<n>>) = 1 /\ <<n>>[1] = n
  OBVIOUS
<1>2. ASSUME NEW n, n \notin SharedNames PROVE <<n>> \notin Shared
  <2>1. \A f : f = <<n>> => Len(f) = 1 /\ f[1] = n
    BY <1>1
  <2>2. ASSUME NEW f \in Shared, Len(f) = 1 PROVE f[1] \in SharedNames
    <3>1. \/ Len(f) = 1 /\ f[1] \in SharedNames
          \/ Len(f) > 1 /\ f[1] \in {"Providers", "Proxy", "CertificateInformation"}
      BY SharedShape
    <3> QED BY <2>2, <3>1
  <2> QED BY <1>2, <2>1, <2>2
<1>3. Preserve \notin Shared
  <2>1. Len(Preserve) = 2 /\ Preserve[1] = "EphemeralConfig"
    BY DEF Preserve
  <2> QED BY <2>1, SharedShape
<1> QED BY <1>2, <1>3 DEF Name, Provider, SharedNames

\* The fields of a Config that the merge functions carry over.
Carried == (Shared \cup OfConfig) \ Dropped

OfConfigNames == {"KubeConfig", "AutoStartUI", "Quiet"}
OfClusterNames ==
    {"WorkingDirectory", "Name", "Provider", "WorkerNodes", "ControlPlaneNodes", "VirtualIp",
     "LoadBalancer", "CipherSuites", "ClusterDefinitionInline", "ClusterDefinition"}

LEMMA OfConfigShape ==
    ASSUME NEW f \in OfConfig
    PROVE  \/ Len(f) = 1 /\ f[1] \in OfConfigNames
           \/ Len(f) > 1 /\ f[1] = "EphemeralConfig"
<1>1. Paths(own({"Name", "Preserve"})) /\ Paths(own(OfConfigNames)) /\ \A g \in own(OfConfigNames) : Len(g) = 1 /\ g[1] \in OfConfigNames
  BY OwnPaths
<1>2. Paths(within("Node", Node))
  BY LibvirtPaths, WithinPaths
<1>3. Paths(EphemeralClusterConfig)
  BY <1>1, <1>2, UnionPaths DEF EphemeralClusterConfig
<1>4. CASE f \in within("EphemeralConfig", EphemeralClusterConfig)
  BY <1>3, <1>4, WithinPaths
<1> QED BY <1>1, <1>4 DEF OfConfig, OfConfigNames

LEMMA OfClusterShape == \A f \in OfClusterConfig : Len(f) = 1 /\ f[1] \in OfClusterNames
BY OwnPaths DEF OfClusterConfig, OfClusterNames

\* The names of the options and the fields of the two structures are apart.
LEMMA ConfigsApart ==
    /\ OfClusterConfig \cap (Shared \cup OfConfig) = {} /\ OfConfig \cap Shared = {}
    /\ Preserve \notin Shared \cup OfClusterConfig
<1>1. ASSUME NEW f \in OfClusterConfig PROVE f \notin Shared /\ f \notin OfConfig
  <2>1. Len(f) = 1 /\ f[1] \in OfClusterNames
    BY OfClusterShape
  <2>2. f[1] \notin SharedNames \cup OfConfigNames
    BY <2>1 DEF OfClusterNames, SharedNames, OfConfigNames
  <2>3. ASSUME f \in Shared PROVE FALSE
    <3>1. \/ Len(f) = 1 /\ f[1] \in SharedNames
          \/ Len(f) > 1 /\ f[1] \in {"Providers", "Proxy", "CertificateInformation"}
      BY <2>3, SharedShape
    <3> QED BY <2>1, <2>2, <3>1
  <2>4. ASSUME f \in OfConfig PROVE FALSE
    <3>1. \/ Len(f) = 1 /\ f[1] \in OfConfigNames
          \/ Len(f) > 1 /\ f[1] = "EphemeralConfig"
      BY <2>4, OfConfigShape
    <3> QED BY <2>1, <2>2, <3>1
  <2> QED BY <2>3, <2>4
<1>2. ASSUME NEW f \in OfConfig PROVE f \notin Shared
  <2>1. \/ Len(f) = 1 /\ f[1] \in OfConfigNames
        \/ Len(f) > 1 /\ f[1] = "EphemeralConfig"
    BY OfConfigShape
  <2>2. OfConfigNames \cap SharedNames = {}
    BY DEF OfConfigNames, SharedNames
  <2>3. ASSUME f \in Shared PROVE FALSE
    <3>1. \/ Len(f) = 1 /\ f[1] \in SharedNames
          \/ Len(f) > 1 /\ f[1] \in {"Providers", "Proxy", "CertificateInformation"}
      BY <2>3, SharedShape
    <3>2. PICK n, k : n = Len(f) /\ k = f[1]
      OBVIOUS
    <3>3. ~(n = 1 /\ n > 1)
      OBVIOUS
    <3>4. k = "EphemeralConfig" => k \notin {"Providers", "Proxy", "CertificateInformation"}
      OBVIOUS
    <3> QED BY <2>1, <2>2, <3>1, <3>2, <3>3, <3>4
  <2> QED BY <2>3
<1>3. Len(Preserve) = 2
  BY DEF Preserve
<1>4. Preserve \notin OfClusterConfig
  BY <1>3, OfClusterShape
<1> QED BY <1>1, <1>2, <1>4, NotShared

LEMMA SharedCarried == Shared \subseteq Carried /\ Preserve \notin Carried /\ OfConfig \ {Preserve} \subseteq Carried
BY NotShared DEF Carried, Dropped

LEMMA ClusterCarried == (Shared \cup OfClusterConfig) \ Dropped = Shared \cup OfClusterConfig
BY ConfigsApart DEF Dropped

LEMMA Within == \A n, F : \A f \in F : <<n>> \o f \in within(n, F)
BY DEF within
LEMMA Own == \A S : \A n \in S : <<n>> \in own(S)
BY DEF own

LEMMA BuiltInLibvirtFields == \A g \in BuiltInLibvirt : <<"Providers">> \o (<<"Libvirt">> \o g) \in BuiltIn
<1> SUFFICES ASSUME NEW g \in BuiltInLibvirt PROVE <<"Providers">> \o (<<"Libvirt">> \o g) \in BuiltIn
  OBVIOUS
<1>1. PICK h : h = <<"Libvirt">> \o g
  OBVIOUS
<1>2. h \in within("Libvirt", BuiltInLibvirt)
  BY <1>1, Within
<1>3. \A G, H : <<"Providers">> \o h \in within("Providers", within("Libvirt", BuiltInLibvirt) \cup G \cup H)
  BY <1>2, Within
<1>4. <<"Providers">> \o h \in BuiltIn
  BY <1>3 DEF BuiltIn
<1> QED BY <1>1, <1>4

LEMMA SessionShared == SessionURI \in Shared \cap BuiltIn
<1>1. <<"Libvirt">> \o <<"SessionURI">> = <<"Libvirt", "SessionURI">>
  BY Pair
<1>2. <<"Providers">> \o <<"Libvirt", "SessionURI">> = SessionURI
  BY Three DEF SessionURI
<1>3. <<"SessionURI">> \in LibvirtProvider
  BY Own DEF LibvirtProvider
<1>4. <<"Libvirt", "SessionURI">> \in Providers
  BY <1>1, <1>3, Within DEF Providers
<1>5. SessionURI \in within("Providers", Providers)
  BY <1>2, <1>4, Within
<1>6. <<"SessionURI">> \in BuiltInLibvirt
  BY Own DEF BuiltInLibvirt
<1>7. SessionURI \in BuiltIn
  BY <1>1, <1>2, <1>6, BuiltInLibvirtFields
<1> QED BY <1>5, <1>7 DEF Shared

LEMMA PlainFields ==
    /\ {KubeVersion, OsTag, Image, OsRegistry} \subseteq Shared \cap BuiltIn
    /\ {Name, Provider} \subseteq OfClusterConfig
BY DEF KubeVersion, OsTag, Image, OsRegistry, Name, Provider, Shared, BuiltIn, OfClusterConfig, own

\* What is built in is no field of a ClusterConfig alone.
LEMMA BuiltInApart == BuiltIn \cap OfClusterConfig = {}
<1>1. Paths(BuiltInLibvirt) /\ Paths(BuiltInOci)
  <2>1. Paths(within("ControlPlaneNode", Node)) /\ Paths(within("WorkerNode", Node))
    BY LibvirtPaths, WithinPaths
  <2>2. Paths(OciInstanceShape)
    BY OwnPaths, UnionPaths DEF OciInstanceShape
  <2>3. Paths(within("ControlPlaneShape", OciInstanceShape)) /\ Paths(within("WorkerShape", OciInstanceShape))
    BY <2>2, WithinPaths
  <2> QED BY <2>1, <2>3, OwnPaths, UnionPaths DEF BuiltInLibvirt, BuiltInOci
<1>2. Paths(BuiltInOlvmMachine)
  <2>1. Paths(within("Network", own({"Interface"})))
    BY OwnPaths, WithinPaths
  <2>2. Paths(own({"Memory"}) \cup within("Network", own({"Interface"})))
    BY <2>1, OwnPaths, UnionPaths
  <2> QED BY <2>2, WithinPaths DEF BuiltInOlvmMachine
<1>3. Paths(BuiltInOlvm)
  <2>1. Paths(within("ControlPlaneMachine", BuiltInOlvmMachine)) /\ Paths(within("WorkerMachine", BuiltInOlvmMachine))
    BY <1>2, WithinPaths
  <2>2. /\ Paths(within("LocalAPIEndpoint", own({"BindPort"})))
        /\ Paths(within("CSIDriver", own({"Namespace", "SecretName", "ConfigMapName"})))
    BY OwnPaths, WithinPaths
  <2> QED BY <2>1, <2>2, OwnPaths, UnionPaths DEF BuiltInOlvm
<1>4. /\ Paths(within("Libvirt", BuiltInLibvirt)) /\ Paths(within("Oci", BuiltInOci))
      /\ Paths(within("Olvm", BuiltInOlvm))
  BY <1>1, <1>3, WithinPaths
<1>5. Paths(within("Libvirt", BuiltInLibvirt) \cup within("Oci", BuiltInOci) \cup within("Olvm", BuiltInOlvm))
  BY <1>4, UnionPaths
<1>6. Paths(CertificateInformation)
  BY OwnPaths, UnionPaths DEF CertificateInformation
<1>7. Paths(EphemeralClusterConfig)
  <2>1. Paths(within("Node", Node))
    BY LibvirtPaths, WithinPaths
  <2> QED BY <2>1, OwnPaths, UnionPaths DEF EphemeralClusterConfig
<1>8. PICK G : G = within("Providers", within("Libvirt", BuiltInLibvirt) \cup within("Oci", BuiltInOci) \cup within("Olvm", BuiltInOlvm))
  OBVIOUS
<1>9. PICK N : N = {"PodSubnet", "ServiceSubnet", "KubeAPIServerBindPort", "KubeAPIServerBindPortAlt", "AutoStartUI",
                    "OsRegistry", "OsTag", "KubeProxyMode", "BootVolumeContainerImage", "Registry", "KubeVersion",
                    "SshPublicKeyPath"}
  OBVIOUS
<1>10. BuiltIn = G \cup own(N) \cup within("CertificateInformation", CertificateInformation)
                 \cup within("EphemeralConfig", EphemeralClusterConfig)
  BY <1>8, <1>9 DEF BuiltIn
<1>11. \A f \in G : Len(f) > 1
  BY <1>5, <1>8, WithinPaths
<1>12. \A f \in within("CertificateInformation", CertificateInformation) : Len(f) > 1
  BY <1>6, WithinPaths
<1>13. \A f \in within("EphemeralConfig", EphemeralClusterConfig) : Len(f) > 1
  BY <1>7, WithinPaths
<1>14. \A f \in own(N) : f[1] \in N
  BY OwnPaths
<1>15. N \cap OfClusterNames = {}
  BY <1>9 DEF OfClusterNames
<1>16. ASSUME NEW f \in BuiltIn, f \in OfClusterConfig PROVE FALSE
  <2>1. Len(f) = 1 /\ f[1] \in OfClusterNames
    BY <1>16, OfClusterShape
  <2>2. ~(Len(f) > 1)
    BY <2>1
  <2>3. f \in own(N)
    BY <1>10, <1>11, <1>12, <1>13, <2>2
  <2> QED BY <1>14, <1>15, <2>1, <2>3
<1> QED BY <1>16

LEMMA FlagsApart == ConfigFlags \cap OfClusterConfig = {} /\ ClusterFlags \cap OfConfig = {}
<1>1. \A f \in ConfigFlags : Len(f) = 1 => f[1] \in {"KubeConfig", "AutoStartUI", "BootVolumeContainerImage"}
  BY DEF ConfigFlags, Image, SessionURI
<1>2. OfClusterNames \cap {"KubeConfig", "AutoStartUI", "BootVolumeContainerImage"} = {}
  BY DEF OfClusterNames
<1>3. \A f \in ClusterFlags :
          Len(f) = 1 /\ f[1] \in {"ControlPlaneNodes", "WorkerNodes", "Name", "Provider", "KubeVersion",
                                  "VirtualIp", "LoadBalancer"}
  BY DEF ClusterFlags, Name, Provider, KubeVersion
<1>4. OfConfigNames \cap {"ControlPlaneNodes", "WorkerNodes", "Name", "Provider", "KubeVersion",
                         "VirtualIp", "LoadBalancer"} = {}
  BY DEF OfConfigNames
<1>5. ASSUME NEW f \in ClusterFlags, f \in OfConfig PROVE FALSE
  <2>1. \/ Len(f) = 1 /\ f[1] \in OfConfigNames
        \/ Len(f) > 1 /\ f[1] = "EphemeralConfig"
    BY <1>5, OfConfigShape
  <2> QED BY <1>3, <1>4, <2>1
<1> QED BY <1>1, <1>2, <1>5, OfClusterShape

LEMMA OptionsApart == ConfigFlags \cap ClusterFlags = {}
<1>1. \A f \in ConfigFlags : Len(f) = 1 => f[1] \in {"KubeConfig", "AutoStartUI", "BootVolumeContainerImage"}
  BY DEF ConfigFlags, Image, SessionURI
<1>2. \A f \in ClusterFlags :
          /\ Len(f) = 1
          /\ f[1] \in {"ControlPlaneNodes", "WorkerNodes", "Name", "Provider", "KubeVersion", "VirtualIp", "LoadBalancer"}
  BY DEF ClusterFlags, Name, Provider, KubeVersion
<1> QED BY <1>1, <1>2

NodeNames == {"Memory", "Storage", "CPUs"}

LEMMA NodePaths == Node = {<<x>> : x \in NodeNames}
BY DEF Node, own, NodeNames

\* The size of a control plane node in the provider.
LEMMA ControlPlaneFields ==
    ASSUME NEW f \in ControlPlaneNode
    PROVE  /\ \E x \in NodeNames : f = <<"Providers", "Libvirt", "ControlPlaneNode", x>>
           /\ f[4] \in NodeNames /\ f \in Shared \cap BuiltIn
<1>1. PICK x \in NodeNames : f = <<"Providers", "Libvirt", "ControlPlaneNode">> \o <<x>>
  BY NodePaths DEF ControlPlaneNode
<1>2. f = <<"Providers", "Libvirt", "ControlPlaneNode", x>>
  BY <1>1, Four
<1>3. <<x>> \in Node
  BY NodePaths
<1>4. <<"ControlPlaneNode", x>> \in within("ControlPlaneNode", Node)
  BY <1>3, Within, Pair
<1>5. \A G, H : /\ <<"Libvirt", "ControlPlaneNode", x>> \in within("Libvirt", G \cup within("ControlPlaneNode", Node) \cup H)
  BY <1>4, Within, Three
<1>6. <<"Libvirt", "ControlPlaneNode", x>> \in Providers
  BY <1>5 DEF Providers, LibvirtProvider
<1>7. PICK h, g : h = <<"Libvirt", "ControlPlaneNode", x>> /\ g = <<"ControlPlaneNode", x>>
  OBVIOUS
<1>8. f = <<"Providers">> \o h /\ h = <<"Libvirt">> \o g /\ g \in BuiltInLibvirt
  BY <1>2, <1>4, <1>7, Four, Three DEF BuiltInLibvirt
<1>9. f \in within("Providers", Providers) /\ f \in BuiltIn
  BY <1>6, <1>7, <1>8, Within, BuiltInLibvirtFields
<1>10. f[4] = x
  BY <1>2
<1> QED BY <1>2, <1>9, <1>10 DEF Shared

\* The size of the ephemeral cluster.
LEMMA EphemeralFields ==
    ASSUME NEW x \in NodeNames
    PROVE  <<"EphemeralConfig", "Node", x>> \in Carried \cap BuiltIn /\ <<"EphemeralConfig", "Node", x>> \notin ConfigFlags
<1>1. <<x>> \in Node
  BY NodePaths
<1>2. <<"Node", x>> \in within("Node", Node)
  BY <1>1, Within, Pair
<1>3. \A G : <<"EphemeralConfig", "Node", x>> \in within("EphemeralConfig", G \cup within("Node", Node))
  BY <1>2, Within, Three
<1>4. <<"EphemeralConfig", "Node", x>> \in OfConfig
  BY <1>3 DEF OfConfig, EphemeralClusterConfig
<1>5. <<"EphemeralConfig", "Node", x>> \in BuiltIn
  BY <1>3 DEF BuiltIn, EphemeralClusterConfig
<1>6. <<"EphemeralConfig", "Node", x>> \notin ConfigFlags
  BY DEF ConfigFlags, Image, SessionURI
<1>7. <<"EphemeralConfig", "Node", x>> # Preserve
  <2>1. Len(<<"EphemeralConfig", "Node", x>>) = 3 /\ Len(Preserve) = 2
    BY DEF Preserve
  <2> QED BY <2>1
<1> QED BY <1>4, <1>5, <1>6, <1>7, SharedCarried

LEMMA NotControlPlane == SessionURI \notin ControlPlaneNode /\ \A n : <<n>> \notin ControlPlaneNode
<1>1. Len(SessionURI) = 3 /\ \A n : Len(<<n>>) = 1
  BY DEF SessionURI
<1>2. \A x : Len(<<"Providers", "Libvirt", "ControlPlaneNode", x>>) = 4
  OBVIOUS
<1> QED BY <1>1, <1>2, ControlPlaneFields

LEMMA WhichBools ==
    /\ {Name, Provider, <<"ControlPlaneNodes">>, OsTag, Image, OsRegistry, KubeVersion} \cap Bools = {}
    /\ {<<"Headless">>, <<"Catalog">>, <<"CommunityCatalog">>, <<"Quiet">>} \subseteq Bools
<1>1. \A n : <<n>>[Len(<<n>>)] = n
  OBVIOUS
<1>2. \A n : isBool(<<n>>) <=>
          n \in {"Smm", "SecureBoot", "SelfManaged", "Install", "InsecureSkipTLSVerify", "AutoConf",
                 "AutomaticTokenCreation", "Headless", "Catalog", "CommunityCatalog", "Quiet"}
  BY <1>1 DEF isBool
<1>3. \A n \in {"Name", "Provider", "ControlPlaneNodes", "OsTag", "BootVolumeContainerImage", "OsRegistry", "KubeVersion"} :
          ~isBool(<<n>>)
  BY <1>2
<1>4. \A n \in {"Headless", "Catalog", "CommunityCatalog", "Quiet"} : isBool(<<n>>)
  BY <1>2
<1>5. <<"Headless">> \in Shared /\ <<"Catalog">> \in Shared /\ <<"CommunityCatalog">> \in Shared /\ <<"Quiet">> \in OfConfig
  BY DEF Shared, OfConfig, own
<1> QED BY <1>3, <1>4, <1>5 DEF Bools, Name, Provider, OsTag, Image, OsRegistry, KubeVersion

-----------------------------------------------------------------------------
(* Merging                                                                  *)

\* What a configuration is made of.
isEntry(e) == e = [by |-> e.by, text |-> e.text]
isFields(s) == s = [f \in DOMAIN s |-> s[f]] /\ \A f \in DOMAIN s : isEntry(s[f])
isRecord(c) == c = [set |-> c.set, is |-> c.is, apps |-> c.apps, catalogs |-> c.catalogs]
isConfig(c) == isRecord(c) /\ isFields(c.set) /\ c.is = [f \in Bools |-> c.is[f]]

\* The fields of two configurations in F; the second one is preferred.
merged(m, s, t, F) ==
    /\ isFields(m) /\ DOMAIN m = (DOMAIN s \cup DOMAIN t) \cap F
    /\ \A f \in DOMAIN m : m[f] = IF f \in DOMAIN t THEN t[f] ELSE s[f]

LEMMA EmptyConfig == isConfig(Empty) /\ isRecord(Empty) /\ DOMAIN Empty.set = {} /\ Empty.is = [f \in Bools |-> FALSE]
BY DEF Empty, NoFields, isConfig, isFields, isRecord

LEMMA MadeOf ==
    \A m, s, i, a, k : m = [set |-> s, is |-> i, apps |-> a, catalogs |-> k] => isRecord(m) /\ m.set = s /\ m.is = i
BY DEF isRecord

LEMMA SetFields ==
    ASSUME NEW c, NEW s, NEW i, isRecord(c)
    PROVE  /\ [c EXCEPT !.set = s] = [set |-> s, is |-> c.is, apps |-> c.apps, catalogs |-> c.catalogs]
           /\ [c EXCEPT !.is = i] = [set |-> c.set, is |-> i, apps |-> c.apps, catalogs |-> c.catalogs]
           /\ [c EXCEPT !.set = s, !.is = i] = [set |-> s, is |-> i, apps |-> c.apps, catalogs |-> c.catalogs]
<1>1. PICK p, q, r, t : c = [set |-> p, is |-> q, apps |-> r, catalogs |-> t]
  BY DEF isRecord
<1>2. c.set = p /\ c.is = q /\ c.apps = r /\ c.catalogs = t
  BY <1>1
<1>3. [c EXCEPT !.set = s] = [set |-> s, is |-> q, apps |-> r, catalogs |-> t]
  BY <1>1
<1>4. [c EXCEPT !.is = i] = [set |-> p, is |-> i, apps |-> r, catalogs |-> t]
  BY <1>1
<1>5. [c EXCEPT !.set = s, !.is = i] = [set |-> s, is |-> i, apps |-> r, catalogs |-> t]
  <2>1. PICK d : d = [set |-> s, is |-> q, apps |-> r, catalogs |-> t]
    OBVIOUS
  <2>2. [d EXCEPT !.is = i] = [set |-> s, is |-> i, apps |-> r, catalogs |-> t]
    BY <2>1
  <2>3. [c EXCEPT !.set = s, !.is = i] = [[c EXCEPT !.set = s] EXCEPT !.is = i]
    OBVIOUS
  <2> QED BY <1>3, <2>1, <2>2, <2>3
<1> QED BY <1>2, <1>3, <1>4, <1>5

LEMMA LayerConfig ==
    ASSUME NEW l, NEW F
    PROVE  /\ isConfig(layer(l, F)) /\ DOMAIN layer(l, F).set = F
           /\ \A f \in F : layer(l, F).set[f] = [by |-> l, text |-> text(l, f)]
<1>1. PICK t : t = [f \in F |-> [by |-> l, text |-> text(l, f)]]
  OBVIOUS
<1>2. isFields(t) /\ DOMAIN t = F /\ \A f \in F : t[f] = [by |-> l, text |-> text(l, f)]
  BY <1>1 DEF isFields, isEntry
<1>3. PICK e : e = Empty
  OBVIOUS
<1>4. layer(l, F) = [e EXCEPT !.set = t]
  BY <1>1, <1>3 DEF layer
<1>5. isRecord(e) /\ e.is = [f \in Bools |-> FALSE]
  BY <1>3, EmptyConfig
<1>6. layer(l, F) = [set |-> t, is |-> e.is, apps |-> e.apps, catalogs |-> e.catalogs]
  BY <1>4, <1>5, SetFields
<1>7. PICK k : k = layer(l, F)
  OBVIOUS
<1>8. isRecord(k) /\ k.set = t /\ k.is = [f \in Bools |-> FALSE]
  BY <1>5, <1>6, <1>7 DEF isRecord
<1>9. isConfig(k)
  BY <1>2, <1>8 DEF isConfig
<1> QED BY <1>2, <1>7, <1>8, <1>9

LEMMA PickFields == \A s, t, F : isFields(s) /\ isFields(t) => merged(pick(s, t, F), s, t, F \ Dropped)
BY DEF pick, isFields, merged

LEMMA Values == \A s, t : iebp(s, t) = [f \in Bools |-> iebp(s, t)[f]]
BY DEF iebp

LEMMA MergedConfig ==
    ASSUME NEW d, NEW c, isConfig(d), isConfig(c), NEW m, m = MergeConfig(d, c)
    PROVE  isConfig(m) /\ merged(m.set, d.set, c.set, Carried) /\ m.is = iebp(d.set, c.set)
<1>1. PICK s, i : s = pick(d.set, c.set, Shared \cup OfConfig) /\ i = iebp(d.set, c.set)
  OBVIOUS
<1>2. PICK e : e = Empty
  OBVIOUS
<1>3. m = [e EXCEPT !.set = s, !.is = i]
  BY <1>1, <1>2 DEF MergeConfig
<1>9. isRecord(e)
  BY <1>2, EmptyConfig
<1>4. m = [set |-> s, is |-> i, apps |-> e.apps, catalogs |-> e.catalogs]
  BY <1>3, <1>9, SetFields
<1>5. isFields(d.set) /\ isFields(c.set)
  BY DEF isConfig
<1>6. merged(s, d.set, c.set, Carried)
  BY <1>1, <1>5, PickFields DEF Carried
<1>7. isFields(s) /\ i = [f \in Bools |-> i[f]]
  BY <1>1, <1>6, Values DEF merged
<1>8. isRecord(m) /\ m.set = s /\ m.is = i
  BY <1>4 DEF isRecord
<1> QED BY <1>1, <1>6, <1>7, <1>8 DEF isConfig

LEMMA MergedClusterConfig ==
    ASSUME NEW d, NEW c, isConfig(d), isConfig(c), NEW m, m = MergeClusterConfig(d, c)
    PROVE  isConfig(m) /\ merged(m.set, d.set, c.set, Shared \cup OfClusterConfig) /\ m.is = iebp(d.set, c.set)
<1>1. PICK s, i : s = pick(d.set, c.set, Shared \cup OfClusterConfig) /\ i = iebp(d.set, c.set)
  OBVIOUS
<1>2. PICK a, k : m = [set |-> s, is |-> i, apps |-> a, catalogs |-> k]
  BY <1>1 DEF MergeClusterConfig
<1>5. isFields(d.set) /\ isFields(c.set)
  BY DEF isConfig
<1>6. merged(s, d.set, c.set, Shared \cup OfClusterConfig)
  BY <1>1, <1>5, PickFields, ClusterCarried
<1>7. isFields(s) /\ i = [f \in Bools |-> i[f]]
  BY <1>1, <1>6, Values DEF merged
<1>8. isRecord(m) /\ m.set = s /\ m.is = i
  BY <1>2 DEF isRecord
<1> QED BY <1>1, <1>6, <1>7, <1>8 DEF isConfig

\* The fields of cc, and those of c that both have.
overlaid(m, cc, c) ==
    /\ isFields(m) /\ DOMAIN m = DOMAIN cc \cup (DOMAIN c \cap Shared)
    /\ \A f \in DOMAIN m : m[f] = IF f \in DOMAIN cc THEN cc[f] ELSE c[f]

LEMMA OverlaidConfig ==
    ASSUME NEW cc, NEW c, isConfig(cc), isConfig(c), NEW m, m = OverlayConfig(cc, c)
    PROVE  isConfig(m) /\ overlaid(m.set, cc.set, c.set) /\ m.is = iebp(c.set, cc.set)
<1>1. PICK s, i : /\ s = [f \in (DOMAIN cc.set \cup (DOMAIN c.set \cap Shared)) |->
                            IF f \in DOMAIN cc.set THEN cc.set[f] ELSE c.set[f]]
                  /\ i = iebp(c.set, cc.set)
  OBVIOUS
<1>2. m = [cc EXCEPT !.set = s, !.is = i]
  BY <1>1 DEF OverlayConfig
<1>3. isRecord(cc) /\ isFields(cc.set) /\ isFields(c.set)
  BY DEF isConfig
<1>4. m = [set |-> s, is |-> i, apps |-> cc.apps, catalogs |-> cc.catalogs]
  BY <1>2, <1>3, SetFields
<1>5. overlaid(s, cc.set, c.set)
  BY <1>1, <1>3 DEF isFields, overlaid
<1>7. isFields(s) /\ i = [f \in Bools |-> i[f]]
  BY <1>1, <1>5, Values DEF overlaid
<1>8. isRecord(m) /\ m.set = s /\ m.is = i
  BY <1>4 DEF isRecord
<1> QED BY <1>1, <1>5, <1>7, <1>8 DEF isConfig

-----------------------------------------------------------------------------
(* The layers                                                               *)

named(l, f) == [by |-> l, text |-> text(l, f)]
Given == IF defaults = None THEN {} ELSE defaults

LEMMA DefaultConfig ==
    ASSUME NEW d, d = GetDefaultConfig
    PROVE  /\ isConfig(d)
           /\ \A f \in Carried :
                  /\ f \in DOMAIN d.set <=> f \in BuiltIn \cup Given
                  /\ f \in DOMAIN d.set => d.set[f] = IF f \in Given THEN named("defaults", f) ELSE named("builtIn", f)
<1>1. PICK b : b = layer("builtIn", BuiltIn)
  OBVIOUS
<1>2. isConfig(b) /\ DOMAIN b.set = BuiltIn /\ \A f \in BuiltIn : b.set[f] = named("builtIn", f)
  BY <1>1, LayerConfig DEF named
<1>3. CASE defaults = None
  <2>1. d = b
    BY <1>1, <1>3 DEF GetDefaultConfig
  <2> QED BY <1>2, <1>3, <2>1 DEF Given
<1>4. CASE defaults # None
  <2>1. PICK k : k = layer("defaults", defaults)
    OBVIOUS
  <2>2. isConfig(k) /\ DOMAIN k.set = defaults /\ \A f \in defaults : k.set[f] = named("defaults", f)
    BY <2>1, LayerConfig DEF named
  <2>3. d = MergeConfig(b, k)
    BY <1>1, <1>4, <2>1 DEF GetDefaultConfig
  <2>4. isConfig(d) /\ merged(d.set, b.set, k.set, Carried)
    BY <1>2, <2>2, <2>3, MergedConfig
  <2>5. Given = defaults
    BY <1>4 DEF Given
  <2> QED BY <1>2, <2>2, <2>4, <2>5 DEF merged
<1> QED BY <1>3, <1>4

\* The Config of a command: options over defaults file over built-in defaults.
overDefaults(s, c) ==
    /\ isFields(s) /\ DOMAIN s = (BuiltIn \cup Given \cup DOMAIN c) \cap (Carried)
    /\ \A f \in DOMAIN s : s[f] = IF f \in DOMAIN c THEN c[f]
                                  ELSE IF f \in Given THEN named("defaults", f) ELSE named("builtIn", f)

LEMMA CommandConfig ==
    ASSUME NEW c, isConfig(c), NEW m, m = MergeConfig(GetDefaultConfig, c)
    PROVE  isConfig(m) /\ overDefaults(m.set, c.set)
<1>1. PICK d : d = GetDefaultConfig
  OBVIOUS
<1>2. /\ isConfig(d)
      /\ \A f \in Carried :
             /\ f \in DOMAIN d.set <=> f \in BuiltIn \cup Given
             /\ f \in DOMAIN d.set => d.set[f] = IF f \in Given THEN named("defaults", f) ELSE named("builtIn", f)
  BY <1>1, DefaultConfig
<1>3. isConfig(m) /\ merged(m.set, d.set, c.set, Carried)
  BY <1>1, <1>2, MergedConfig
<1>4. DOMAIN m.set = (BuiltIn \cup Given \cup DOMAIN c.set) \cap (Carried)
  BY <1>2, <1>3 DEF merged
<1>5. ASSUME NEW f \in DOMAIN m.set
      PROVE  m.set[f] = IF f \in DOMAIN c.set THEN c.set[f]
                        ELSE IF f \in Given THEN named("defaults", f) ELSE named("builtIn", f)
  <2>1. m.set[f] = IF f \in DOMAIN c.set THEN c.set[f] ELSE d.set[f]
    BY <1>3 DEF merged
  <2>2. f \in Carried /\ (f \notin DOMAIN c.set => f \in DOMAIN d.set)
    BY <1>3 DEF merged
  <2> QED BY <1>2, <2>1, <2>2
<1> QED BY <1>3, <1>4, <1>5 DEF overDefaults, merged

\* Only texts of F differ.
sameBut(m, cc, F) ==
    /\ isConfig(m) /\ m.is = cc.is
    /\ DOMAIN m.set = DOMAIN cc.set
    /\ \A f \in DOMAIN cc.set : m.set[f].by = cc.set[f].by /\ (f \notin F => m.set[f] = cc.set[f])

newEntry(cc, f, e) == [cc EXCEPT !.set[f] = e]
newText(cc, f, t) == [cc EXCEPT !.set[f] = [@ EXCEPT !.text = t]]

LEMMA NewEntry ==
    ASSUME NEW cc, isConfig(cc), NEW f \in DOMAIN cc.set, NEW e, isEntry(e)
    PROVE  /\ isConfig(newEntry(cc, f, e)) /\ newEntry(cc, f, e).is = cc.is
           /\ DOMAIN newEntry(cc, f, e).set = DOMAIN cc.set
           /\ newEntry(cc, f, e).set[f] = e
           /\ \A g \in DOMAIN cc.set : g # f => newEntry(cc, f, e).set[g] = cc.set[g]
<1>1. PICK m : m = newEntry(cc, f, e)
  OBVIOUS
<1>2. PICK s : s = cc.set
  OBVIOUS
<1>3. isFields(s) /\ isRecord(cc) /\ cc.is = [g \in Bools |-> cc.is[g]]
  BY <1>2 DEF isConfig
<1>4. PICK u : u = [s EXCEPT ![f] = e]
  OBVIOUS
<1>5. DOMAIN u = DOMAIN s /\ u = [g \in DOMAIN u |-> u[g]] /\ u[f] = e /\ \A g \in DOMAIN s : g # f => u[g] = s[g]
  BY <1>2, <1>4
<1>6. isFields(u)
  BY <1>3, <1>5 DEF isFields
<1>7. m = [cc EXCEPT !.set = u]
  BY <1>1, <1>2, <1>4 DEF newEntry
<1>8. m = [set |-> u, is |-> cc.is, apps |-> cc.apps, catalogs |-> cc.catalogs]
  BY <1>3, <1>7, SetFields
<1>9. PICK i, a, k : i = cc.is /\ a = cc.apps /\ k = cc.catalogs
  OBVIOUS
<1>10. m = [set |-> u, is |-> i, apps |-> a, catalogs |-> k]
  BY <1>8, <1>9
<1>11. isRecord(m) /\ m.set = u /\ m.is = i
  BY <1>10, MadeOf
<1>12. isConfig(m)
  BY <1>3, <1>6, <1>9, <1>11 DEF isConfig
<1> QED BY <1>1, <1>2, <1>5, <1>9, <1>11, <1>12

LEMMA NewText ==
    ASSUME NEW cc, isConfig(cc), NEW f \in DOMAIN cc.set, NEW t
    PROVE  sameBut(newText(cc, f, t), cc, {f}) /\ newText(cc, f, t).set[f].text = t
<1>1. PICK s, e : s = cc.set /\ e = s[f]
  OBVIOUS
<1>2. e = [by |-> e.by, text |-> e.text]
  BY <1>1 DEF isConfig, isFields, isEntry
<1>3. PICK d : d = [e EXCEPT !.text = t]
  OBVIOUS
<1>4. d = [by |-> e.by, text |-> t]
  BY <1>2, <1>3
<1>5. isEntry(d) /\ d.by = e.by /\ d.text = t
  BY <1>4 DEF isEntry
<1>6. newText(cc, f, t) = newEntry(cc, f, d)
  BY <1>1, <1>3 DEF newText, newEntry
<1> QED BY <1>1, <1>5, <1>6, NewEntry DEF sameBut

LEMMA NewValues ==
    ASSUME NEW cc, isConfig(cc), NEW i, i = [f \in Bools |-> i[f]]
    PROVE  LET m == [cc EXCEPT !.is = i] IN isConfig(m) /\ m.set = cc.set /\ m.is = i
<1>1. PICK m : m = [cc EXCEPT !.is = i]
  OBVIOUS
<1>2. isRecord(cc) /\ isFields(cc.set)
  BY DEF isConfig
<1>3. PICK s, a, k : s = cc.set /\ a = cc.apps /\ k = cc.catalogs
  OBVIOUS
<1>4. m = [set |-> s, is |-> i, apps |-> a, catalogs |-> k]
  BY <1>1, <1>2, <1>3, SetFields
<1>5. isRecord(m) /\ m.set = s /\ m.is = i
  BY <1>4, MadeOf
<1> QED BY <1>1, <1>2, <1>3, <1>5 DEF isConfig

LEMMA NewFields ==
    ASSUME NEW cc, isConfig(cc), NEW s, isFields(s)
    PROVE  LET m == [cc EXCEPT !.set = s] IN isConfig(m) /\ m.set = s /\ m.is = cc.is
<1>1. PICK m : m = [cc EXCEPT !.set = s]
  OBVIOUS
<1>2. isRecord(cc) /\ cc.is = [f \in Bools |-> cc.is[f]]
  BY DEF isConfig
<1>3. PICK i, a, k : i = cc.is /\ a = cc.apps /\ k = cc.catalogs
  OBVIOUS
<1>4. m = [set |-> s, is |-> i, apps |-> a, catalogs |-> k]
  BY <1>1, <1>2, <1>3, SetFields
<1>5. isRecord(m) /\ m.set = s /\ m.is = i
  BY <1>4, MadeOf
<1> QED BY <1>1, <1>2, <1>3, <1>5 DEF isConfig

\* The fields of a command: those given to it, then those of the file.
withFile(s, cc, there) ==
    IF there
    THEN /\ DOMAIN s = (setup.file \cup {<<"WorkingDirectory">>} \cup DOMAIN cc) \cap (Shared \cup OfClusterConfig)
         /\ \A f \in DOMAIN s : s[f] = IF f \in DOMAIN cc THEN cc[f] ELSE named("file", f)
    ELSE s = cc

LEMMA FileConfig ==
    ASSUME NEW cc, isConfig(cc), NEW there \in BOOLEAN,
           NEW m, m = IF there THEN MergeClusterConfig(ParseClusterConfigFile, cc) ELSE cc
    PROVE  isConfig(m) /\ withFile(m.set, cc.set, there)
<1>1. CASE ~there
  BY <1>1 DEF withFile
<1>2. CASE there
  <2>1. PICK k, F : F = setup.file \cup {<<"WorkingDirectory">>} /\ k = layer("file", F)
    OBVIOUS
  <2>2. isConfig(k) /\ DOMAIN k.set = F /\ \A f \in F : k.set[f] = named("file", f)
    BY <2>1, LayerConfig DEF named
  <2>3. PICK p : p = ParseClusterConfigFile
    OBVIOUS
  <2>4. p = [k EXCEPT !.apps = <<"file">>, !.catalogs = <<"file">>]
    BY <2>1, <2>3 DEF ParseClusterConfigFile
  <2>5. PICK s, i, a, c : k = [set |-> s, is |-> i, apps |-> a, catalogs |-> c]
    BY <2>2 DEF isConfig, isRecord
  <2>6. PICK q : q = [k EXCEPT !.apps = <<"file">>]
    OBVIOUS
  <2>7. q = [set |-> s, is |-> i, apps |-> <<"file">>, catalogs |-> c]
    BY <2>5, <2>6
  <2>8. p = [q EXCEPT !.catalogs = <<"file">>]
    BY <2>4, <2>6
  <2>9. p = [set |-> s, is |-> i, apps |-> <<"file">>, catalogs |-> <<"file">>]
    BY <2>7, <2>8
  <2>10. isRecord(p) /\ p.set = s /\ p.is = i /\ k.set = s /\ k.is = i
    BY <2>5, <2>9 DEF isRecord
  <2>11. isConfig(p) /\ p.set = k.set
    BY <2>2, <2>10 DEF isConfig
  <2>12. m = MergeClusterConfig(p, cc)
    BY <1>2, <2>3
  <2>13. isConfig(m) /\ merged(m.set, p.set, cc.set, Shared \cup OfClusterConfig)
    BY <2>11, <2>12, MergedClusterConfig
  <2> QED BY <1>2, <2>1, <2>2, <2>11, <2>13 DEF merged, withFile
<1> QED BY <1>1, <1>2

\* The ClusterConfig of a command: what it has of its own, then its Config.
overConfig(cc, s, c) ==
    /\ isConfig(cc)
    /\ DOMAIN cc.set = DOMAIN s \cup (DOMAIN c \cap Shared)
    /\ \A f \in DOMAIN cc.set :
           LET e == IF f \in DOMAIN s THEN s[f] ELSE c[f] IN
           cc.set[f].by = e.by /\ (f # OsRegistry => cc.set[f] = e)
    /\ \A f \in Bools : f \in DOMAIN cc.set => cc.is[f] = (cc.set[f].text = "true")
    /\ \A f \in Bools \cap Shared : f \notin DOMAIN cc.set => cc.is[f] = isDefaultTrue(f)

fullOf(full, c, cc, there) ==
    /\ isConfig(full.c) /\ overDefaults(full.c.set, c.set)
    /\ \E s : withFile(s, cc.set, there) /\ isFields(s) /\ overConfig(full.cc, s, full.c.set)

LEMMA FullConfig ==
    ASSUME NEW c, isConfig(c), NEW cc, isConfig(cc), NEW there \in BOOLEAN
    PROVE  fullOf(GetFullConfig(c, cc, there), c, cc, there)
<1>0. PICK full : full = GetFullConfig(c, cc, there)
  OBVIOUS
<1>1. PICK m, n, o : /\ m = IF there THEN MergeClusterConfig(ParseClusterConfigFile, cc) ELSE cc
                     /\ n = MergeConfig(GetDefaultConfig, c)
                     /\ o = OverlayConfig(m, n)
  OBVIOUS
<1>2. PICK r : r = newText(o, OsRegistry, "ostree")
  OBVIOUS
<1>3. full = [c |-> n, cc |-> r]
  BY <1>0, <1>1, <1>2 DEF GetFullConfig, MakeOstreeReference, newText
<1>4. isConfig(n) /\ overDefaults(n.set, c.set)
  BY <1>1, CommandConfig
<1>5. isConfig(m) /\ withFile(m.set, cc.set, there)
  BY <1>1, FileConfig
<1>6. isConfig(o) /\ overlaid(o.set, m.set, n.set) /\ o.is = iebp(n.set, m.set)
  BY <1>1, <1>4, <1>5, OverlaidConfig
<1>7. OsRegistry \in DOMAIN o.set /\ OsRegistry \notin Bools
  BY <1>4, <1>6, PlainFields, WhichBools, SharedCarried DEF overDefaults, overlaid
<1>8. sameBut(r, o, {OsRegistry})
  BY <1>2, <1>6, <1>7, NewText
<1>9. ASSUME NEW f \in Bools PROVE r.is[f] = iebp(n.set, m.set)[f]
  BY <1>6, <1>8 DEF sameBut
<1>10. ASSUME NEW f \in Bools, f \in DOMAIN r.set PROVE r.is[f] = (r.set[f].text = "true")
  <2>1. f \in DOMAIN o.set /\ r.set[f] = o.set[f]
    BY <1>7, <1>8, <1>10 DEF sameBut
  <2>2. o.set[f] = IF f \in DOMAIN m.set THEN m.set[f] ELSE n.set[f]
    BY <1>6, <2>1 DEF overlaid
  <2>3. f \in DOMAIN m.set \cup DOMAIN n.set
    BY <1>6, <2>1 DEF overlaid
  <2> QED BY <1>9, <2>1, <2>2, <2>3 DEF iebp
<1>11. ASSUME NEW f \in Bools \cap Shared, f \notin DOMAIN r.set PROVE r.is[f] = isDefaultTrue(f)
  <2>1. f \notin DOMAIN m.set \cup DOMAIN n.set
    BY <1>6, <1>8, <1>11 DEF sameBut, overlaid
  <2> QED BY <1>9, <2>1 DEF iebp
<1>12. ASSUME NEW f \in DOMAIN r.set
       PROVE  LET e == IF f \in DOMAIN m.set THEN m.set[f] ELSE n.set[f] IN
              r.set[f].by = e.by /\ (f # OsRegistry => r.set[f] = e)
  BY <1>6, <1>8 DEF sameBut, overlaid
<1>13. isConfig(r) /\ DOMAIN r.set = DOMAIN m.set \cup (DOMAIN n.set \cap Shared)
  BY <1>6, <1>8 DEF sameBut, overlaid
<1>14. overConfig(r, m.set, n.set)
  BY <1>10, <1>11, <1>12, <1>13 DEF overConfig
<1>15. full.c = n /\ full.cc = r
  BY <1>3
<1>16. isFields(m.set)
  BY <1>5 DEF isConfig
<1>17. fullOf(full, c, cc, there)
  BY <1>4, <1>5, <1>14, <1>15, <1>16 DEF fullOf
<1> QED BY <1>0, <1>17

-----------------------------------------------------------------------------
(* What a command adds                                                      *)

\* One more field.
added(m, cc, f) ==
    /\ isConfig(m) /\ m.is = cc.is
    /\ DOMAIN m.set = DOMAIN cc.set \cup {f}
    /\ \A g \in DOMAIN cc.set : g # f => m.set[g] = cc.set[g]

LEMMA WithField ==
    ASSUME NEW cc, isConfig(cc), NEW f, NEW b, NEW t
    PROVE  added(with(cc, f, b, t), cc, f) /\ with(cc, f, b, t).set[f].by = b /\ with(cc, f, b, t).set[f].text = t
<1>1. PICK s, e : s = cc.set /\ e = [by |-> b, text |-> t]
  OBVIOUS
<1>2. PICK u : u = [x \in DOMAIN s \cup {f} |-> IF x = f THEN e ELSE s[x]]
  OBVIOUS
<1>3. PICK m : m = with(cc, f, b, t)
  OBVIOUS
<1>4. m = [cc EXCEPT !.set = u]
  BY <1>1, <1>2, <1>3 DEF with
<1>5. isRecord(cc) /\ isFields(s) /\ cc.is = [g \in Bools |-> cc.is[g]]
  BY <1>1 DEF isConfig
<1>6. isEntry(e)
  BY <1>1 DEF isEntry
<1>7. isFields(u) /\ DOMAIN u = DOMAIN s \cup {f} /\ u[f] = e /\ \A g \in DOMAIN s : g # f => u[g] = s[g]
  BY <1>2, <1>5, <1>6 DEF isFields
<1>8. m = [set |-> u, is |-> cc.is, apps |-> cc.apps, catalogs |-> cc.catalogs]
  BY <1>4, <1>5, SetFields
<1>9. PICK i, a, k : i = cc.is /\ a = cc.apps /\ k = cc.catalogs
  OBVIOUS
<1>10. isRecord(m) /\ m.set = u /\ m.is = i
  BY <1>8, <1>9, MadeOf
<1>11. isConfig(m)
  BY <1>5, <1>7, <1>9, <1>10 DEF isConfig
<1> QED BY <1>1, <1>3, <1>7, <1>9, <1>10, <1>11 DEF added

\* One more field, unless it is there.
ensured(m, cc, f, b, t) ==
    /\ added(m, cc, f)
    /\ f \in DOMAIN cc.set => m.set[f] = cc.set[f]
    /\ f \notin DOMAIN cc.set => m.set[f].by = b /\ m.set[f].text = t

LEMMA Unset ==
    ASSUME NEW cc, isConfig(cc), NEW f, NEW b, NEW t
    PROVE  ensured(ifUnset(cc, f, b, t), cc, f, b, t)
<1>0. PICK m : m = ifUnset(cc, f, b, t)
  OBVIOUS
<1>1. ASSUME f \in DOMAIN cc.set PROVE added(m, cc, f) /\ m.set[f] = cc.set[f]
  <2>1. m = cc
    BY <1>0, <1>1 DEF ifUnset
  <2> QED BY <1>1, <2>1 DEF added
<1>2. ASSUME f \notin DOMAIN cc.set PROVE added(m, cc, f) /\ m.set[f].by = b /\ m.set[f].text = t
  <2>1. m = with(cc, f, b, t)
    BY <1>0, <1>2 DEF ifUnset
  <2> QED BY <1>2, <2>1, WithField
<1> QED BY <1>0, <1>1, <1>2 DEF ensured

LEMMA Apart ==
    /\ Name # Provider /\ Name # OsTag /\ Name # Image /\ Name # KubeVersion /\ Name # OsRegistry
    /\ Provider # OsTag /\ Provider # Image /\ Provider # KubeVersion /\ Provider # OsRegistry
    /\ OsTag # Image /\ OsTag # KubeVersion /\ OsTag # OsRegistry
    /\ Image # KubeVersion /\ Image # OsRegistry /\ KubeVersion # OsRegistry
    /\ \A f \in {Name, Provider, OsTag, Image, KubeVersion, OsRegistry} :
           f # <<"ControlPlaneNodes">> /\ f # <<"WorkingDirectory">> /\ f # <<"CNI">> /\ f # <<"WorkerNodes">>
    /\ \A n : <<n>> # SessionURI
<1>1. \A m, n : <<m>> = <<n>> => m = n
  <2> SUFFICES ASSUME NEW m, NEW n, <<m>> = <<n>> PROVE m = n
    OBVIOUS
  <2>1. <<m>>[1] = m /\ <<n>>[1] = n
    OBVIOUS
  <2> QED BY <2>1
<1>2. Len(SessionURI) = 3 /\ \A n : Len(<<n>>) = 1
  BY DEF SessionURI
<1>3. \A n : <<n>> # SessionURI
  BY <1>2
<1> QED BY <1>1, <1>3 DEF Name, Provider, OsTag, Image, KubeVersion, OsRegistry

LEMMA BootImage ==
    ASSUME NEW r, isConfig(r), Image \in DOMAIN r.set, NEW v
    PROVE  LET k == [r EXCEPT !.set[Image] = EnsureBootImageVersion(v, @)] IN
           /\ sameBut(k, r, {Image})
           /\ k.set[Image].text = IF r.set[Image].text \in Versions \cup {"none"} THEN v ELSE r.set[Image].text
<1>1. PICK k : k = [r EXCEPT !.set[Image] = EnsureBootImageVersion(v, @)]
  OBVIOUS
<1>2. ASSUME r.set[Image].text \in Versions \cup {"none"} PROVE sameBut(k, r, {Image}) /\ k.set[Image].text = v
  <2>1. k = newText(r, Image, v)
    BY <1>1, <1>2 DEF EnsureBootImageVersion, newText
  <2> QED BY <2>1, NewText
<1>3. ASSUME r.set[Image].text \notin Versions \cup {"none"} PROVE k = r
  <2>1. k = [r EXCEPT !.set[Image] = @]
    BY <1>1, <1>3 DEF EnsureBootImageVersion
  <2>2. isRecord(r) /\ isFields(r.set)
    BY DEF isConfig
  <2>3. PICK u : u = [r.set EXCEPT ![Image] = @]
    OBVIOUS
  <2>4. u = r.set
    BY <2>2, <2>3 DEF isFields
  <2>5. k = [r EXCEPT !.set = u]
    BY <2>1, <2>3
  <2> QED BY <2>2, <2>4, <2>5, SetFields DEF isRecord
<1>4. sameBut(r, r, {Image})
  BY DEF sameBut
<1>5. /\ sameBut(k, r, {Image})
      /\ k.set[Image].text = IF r.set[Image].text \in Versions \cup {"none"} THEN v ELSE r.set[Image].text
  BY <1>2, <1>3, <1>4
<1> QED BY <1>1, <1>5

\* What RunCmd of start makes of the ClusterConfig.
completed(m, cc) ==
    /\ isConfig(m) /\ m.is = cc.is
    /\ DOMAIN m.set = DOMAIN cc.set \cup {Name, Provider, <<"ControlPlaneNodes">>}
    /\ \A g \in DOMAIN cc.set : m.set[g].by = cc.set[g].by /\ (g \notin {Image, OsTag} => m.set[g] = cc.set[g])
    /\ \A g \in {Name, Provider, <<"ControlPlaneNodes">>} \ DOMAIN cc.set : m.set[g].by = "ocne"
    /\ m.set[Image].text = IF cc.set[Image].text \in Versions \cup {"none"} THEN versionOf(cc) ELSE cc.set[Image].text
    /\ m.set[OsTag].text = IF cc.set[OsTag].text = DefaultVersion THEN versionOf(cc) ELSE cc.set[OsTag].text

LEMMA CompleteConfig ==
    ASSUME NEW cc, isConfig(cc), {Image, OsTag, KubeVersion} \subseteq DOMAIN cc.set
    PROVE  completed(complete(cc), cc)
<1>1. PICK p : p = ifUnset(cc, Name, "ocne", "")
  OBVIOUS
<1>2. PICK q : q = ifUnset(p, Provider, "ocne", "libvirt")
  OBVIOUS
<1>3. PICK r : r = ifUnset(q, <<"ControlPlaneNodes">>, "ocne", "1")
  OBVIOUS
<1>4. ensured(p, cc, Name, "ocne", "")
  BY <1>1, Unset
<1>5. isConfig(p)
  BY <1>4 DEF added, ensured
<1>6. ensured(q, p, Provider, "ocne", "libvirt")
  BY <1>2, <1>5, Unset
<1>7. isConfig(q)
  BY <1>6 DEF added, ensured
<1>8. ensured(r, q, <<"ControlPlaneNodes">>, "ocne", "1")
  BY <1>3, <1>7, Unset
<1>9. /\ isConfig(r) /\ r.is = cc.is /\ DOMAIN r.set = DOMAIN cc.set \cup {Name, Provider, <<"ControlPlaneNodes">>}
      /\ \A g \in DOMAIN cc.set : r.set[g] = cc.set[g]
      /\ \A g \in {Name, Provider, <<"ControlPlaneNodes">>} \ DOMAIN cc.set : r.set[g].by = "ocne"
  <2>1. isConfig(r) /\ r.is = cc.is /\ DOMAIN r.set = DOMAIN cc.set \cup {Name, Provider, <<"ControlPlaneNodes">>}
    BY <1>4, <1>6, <1>8 DEF added, ensured
  <2>2. ASSUME NEW g \in DOMAIN cc.set PROVE r.set[g] = cc.set[g]
    <3>1. p.set[g] = cc.set[g] /\ g \in DOMAIN p.set
      BY <1>4 DEF added, ensured
    <3>2. q.set[g] = p.set[g] /\ g \in DOMAIN q.set
      BY <3>1, <1>6 DEF added, ensured
    <3>3. r.set[g] = q.set[g]
      BY <3>2, <1>8 DEF added, ensured
    <3> QED BY <3>1, <3>2, <3>3
  <2>3. ASSUME NEW g \in {Name, Provider, <<"ControlPlaneNodes">>} \ DOMAIN cc.set PROVE r.set[g].by = "ocne"
    <3>1. CASE g = Name
      <4>1. r.set[Name] = p.set[Name]
        BY <1>4, <1>6, <1>8, Apart DEF added, ensured
      <4> QED BY <1>4, <3>1, <4>1 DEF ensured
    <3>2. CASE g = Provider
      <4>1. r.set[Provider] = q.set[Provider] /\ Provider \notin DOMAIN p.set
        BY <1>4, <1>6, <1>8, <3>2, Apart DEF added, ensured
      <4> QED BY <1>6, <3>2, <4>1 DEF ensured
    <3>3. CASE g = <<"ControlPlaneNodes">>
      <4>1. <<"ControlPlaneNodes">> \notin DOMAIN q.set
        BY <1>4, <1>6, <3>3, Apart DEF added, ensured
      <4> QED BY <1>8, <3>3, <4>1 DEF ensured
    <3> QED BY <3>1, <3>2, <3>3
  <2> QED BY <2>1, <2>2, <2>3
<1>10. PICK v, t : v = versionOf(r) /\ t = IF r.set[Image].text \in Versions \cup {"none"} THEN v ELSE r.set[Image].text
  OBVIOUS
<1>11. v = versionOf(cc) /\ Image \in DOMAIN r.set /\ OsTag \in DOMAIN r.set
  BY <1>9, <1>10 DEF versionOf
<1>12. PICK k : k = [r EXCEPT !.set[Image] = EnsureBootImageVersion(versionOf(cc), @)]
  OBVIOUS
<1>13. complete(cc) = withOsTag(k)
  <2>1. r = ifUnset(ifUnset(ifUnset(cc, Name, "ocne", ""), Provider, "ocne", "libvirt"), <<"ControlPlaneNodes">>, "ocne", "1")
    BY <1>1, <1>2, <1>3
  <2> QED BY <2>1, <1>12 DEF complete
<1>14. sameBut(k, r, {Image}) /\ k.set[Image].text = t
  BY <1>9, <1>10, <1>11, <1>12, BootImage
<1>15. PICK m : m = withOsTag(k)
  OBVIOUS
<1>16. versionOf(k) = v /\ OsTag \in DOMAIN k.set /\ k.set[OsTag] = r.set[OsTag] /\ isConfig(k)
  BY <1>9, <1>10, <1>11, <1>14, Apart DEF versionOf, sameBut
<1>17. sameBut(m, k, {OsTag}) /\ m.set[OsTag].text = IF k.set[OsTag].text = DefaultVersion THEN v ELSE k.set[OsTag].text
  <2>1. CASE k.set[OsTag].text = DefaultVersion /\ v # DefaultVersion
    <3>1. m = newText(k, OsTag, v)
      BY <1>15, <1>16, <2>1 DEF withOsTag, newText
    <3> QED BY <1>16, <2>1, <3>1, NewText
  <2>2. CASE ~(k.set[OsTag].text = DefaultVersion /\ v # DefaultVersion)
    <3>1. m = k
      BY <1>15, <1>16, <2>2 DEF withOsTag
    <3> QED BY <1>16, <2>2, <3>1 DEF sameBut
  <2> QED BY <2>1, <2>2
<1>18. isConfig(m) /\ m.is = cc.is /\ DOMAIN m.set = DOMAIN cc.set \cup {Name, Provider, <<"ControlPlaneNodes">>}
  BY <1>9, <1>14, <1>17 DEF sameBut
<1>19. ASSUME NEW g \in DOMAIN cc.set
       PROVE  m.set[g].by = cc.set[g].by /\ (g \notin {Image, OsTag} => m.set[g] = cc.set[g])
  BY <1>9, <1>14, <1>17 DEF sameBut
<1>20. \A g \in {Name, Provider, <<"ControlPlaneNodes">>} \ DOMAIN cc.set : m.set[g].by = "ocne"
  BY <1>9, <1>14, <1>17 DEF sameBut
<1>21. m.set[Image].text = t
  BY <1>9, <1>14, <1>16, <1>17, Apart DEF sameBut
<1>22. r.set[Image] = cc.set[Image] /\ r.set[OsTag] = cc.set[OsTag]
  BY <1>9
<1> QED BY <1>10, <1>11, <1>13, <1>15, <1>16, <1>17, <1>18, <1>19, <1>20, <1>21, <1>22 DEF completed

-----------------------------------------------------------------------------
(* A start                                                                  *)

\* The layer that a field comes from: GetFullConfig has the file before the
\* options of the program.
FileFields == IF setup.file = None THEN {} ELSE setup.file \cup {<<"WorkingDirectory">>}
OcneFields == {Name, Provider, <<"ControlPlaneNodes">>}

layerOf(f) ==
    IF f \in setup.clusterFlags THEN "clusterFlags"
    ELSE IF f \in FileFields THEN "file"
    ELSE IF f \in setup.flags THEN "flags"
    ELSE IF f \in Given THEN "defaults"
    ELSE IF f \in BuiltIn THEN "builtIn"
    ELSE IF f \in OcneFields THEN "ocne" ELSE None

LEMMA Texts ==
    ASSUME ConfigurationAssumption, setup \in Setups
    PROVE  \A l : text(l, OsTag) \in {DefaultVersion, "custom"} /\ text(l, Image) \in {"none", "custom"} \cup Versions
<1>1. setup.tag \in {"none", "custom"} \cup Versions
  BY DEF ConfigurationAssumption
<1>2. \A l : text(l, OsTag) = IF l = "builtIn" THEN DefaultVersion ELSE "custom"
  BY Apart DEF text
<1>3. \A l : text(l, Image) = IF l = "builtIn" THEN "none" ELSE setup.tag
  BY Apart DEF text
<1> QED BY <1>1, <1>2, <1>3

\* What a start works with.
startConfig(c) ==
    /\ isConfig(c)
    /\ DOMAIN c.set = (BuiltIn \cup Given \cup setup.flags) \cap (Carried)
    /\ \A f \in DOMAIN c.set :
           c.set[f] = named(IF f \in setup.flags THEN "flags" ELSE IF f \in Given THEN "defaults" ELSE "builtIn", f)

startClusterConfig(cc) ==
    /\ isConfig(cc)
    /\ \A f \in Shared : f \in DOMAIN cc.set <=> layerOf(f) # None
    /\ \A f \in Shared \cap DOMAIN cc.set : cc.set[f].by = layerOf(f)
    /\ \A f \in OfClusterConfig : setterIn(cc, f) = layerOf(f)
    /\ {Name, Provider} \subseteq DOMAIN cc.set /\ nameOf(cc) \in {"ocne", "file", "clusterFlags"}
    /\ \A f \in Bools \cap DOMAIN cc.set : cc.is[f] = (cc.set[f].text = "true")
    /\ \A f \in Bools \cap Shared :
           cc.is[f] = IF layerOf(f) = None THEN isDefaultTrue(f) ELSE text(layerOf(f), f) = "true"
    /\ cc.set[Image].text \in {versionOf(cc), "custom"} /\ cc.set[OsTag].text \in {versionOf(cc), "custom"}

LEMMA FlagConfigs ==
    /\ isConfig(flagConfig) /\ DOMAIN flagConfig.set = setup.flags
    /\ \A f \in setup.flags : flagConfig.set[f] = named("flags", f)
    /\ isConfig(flagClusterConfig) /\ DOMAIN flagClusterConfig.set = setup.clusterFlags
    /\ \A f \in setup.clusterFlags : flagClusterConfig.set[f] = named("clusterFlags", f)
BY LayerConfig DEF flagConfig, flagClusterConfig, named

\* Before RunCmd completes it.
LEMMA MergedStart ==
    ASSUME ConfigurationAssumption, setup \in Setups,
           NEW full, full = GetFullConfig(flagConfig, flagClusterConfig, setup.file # None)
    PROVE  /\ startConfig(full.c) /\ isConfig(full.cc)
           /\ \A f \in Shared :
                  /\ f \in DOMAIN full.cc.set <=> layerOf(f) # None
                  /\ f \in DOMAIN full.cc.set => full.cc.set[f].by = layerOf(f)
                  /\ f \in DOMAIN full.cc.set /\ f # OsRegistry => full.cc.set[f].text = text(layerOf(f), f)
           /\ \A f \in OfClusterConfig :
                  /\ f \in DOMAIN full.cc.set <=> f \in setup.clusterFlags \cup FileFields
                  /\ f \in DOMAIN full.cc.set => full.cc.set[f].by = IF f \in setup.clusterFlags THEN "clusterFlags" ELSE "file"
           /\ Name \in DOMAIN full.cc.set => nameOf(full.cc) \in {"file", "clusterFlags"}
           /\ \A f \in Bools : f \in DOMAIN full.cc.set => full.cc.is[f] = (full.cc.set[f].text = "true")
           /\ \A f \in Bools \cap Shared : f \notin DOMAIN full.cc.set => full.cc.is[f] = isDefaultTrue(f)
<1>1. PICK a, b, there : a = flagConfig /\ b = flagClusterConfig /\ there = (setup.file # None)
  OBVIOUS
<1>2. there \in BOOLEAN /\ full = GetFullConfig(a, b, there)
  BY <1>1
<1>3. /\ isConfig(a) /\ DOMAIN a.set = setup.flags /\ \A f \in setup.flags : a.set[f] = named("flags", f)
      /\ isConfig(b) /\ DOMAIN b.set = setup.clusterFlags
      /\ \A f \in setup.clusterFlags : b.set[f] = named("clusterFlags", f)
  BY <1>1, FlagConfigs
<1>4. fullOf(full, a, b, there)
  BY <1>2, <1>3, FullConfig
<1>5. PICK s : withFile(s, b.set, there) /\ isFields(s) /\ overConfig(full.cc, s, full.c.set)
  BY <1>4 DEF fullOf
<1>6. startConfig(full.c)
  BY <1>3, <1>4 DEF fullOf, overDefaults, startConfig
<1>7. ASSUME NEW f \in Shared \cup OfClusterConfig
      PROVE  /\ f \in DOMAIN s <=> (f \in setup.clusterFlags \/ (there /\ f \in setup.file \cup {<<"WorkingDirectory">>}))
             /\ f \in DOMAIN s /\ f \in setup.clusterFlags => s[f] = named("clusterFlags", f)
             /\ f \in DOMAIN s /\ f \notin setup.clusterFlags => s[f] = named("file", f)
  BY <1>3, <1>5 DEF withFile
<1>8. ASSUME NEW f \in Shared
      PROVE  /\ f \in DOMAIN full.c.set <=> f \in BuiltIn \cup Given \cup setup.flags
             /\ f \in DOMAIN full.c.set /\ f \in setup.flags => full.c.set[f] = named("flags", f)
             /\ f \in DOMAIN full.c.set /\ f \notin setup.flags /\ f \in Given => full.c.set[f] = named("defaults", f)
             /\ f \in DOMAIN full.c.set /\ f \notin setup.flags /\ f \notin Given => full.c.set[f] = named("builtIn", f)
  BY <1>6, SharedCarried DEF startConfig
<1>9. None \notin {"clusterFlags", "file", "flags", "defaults", "builtIn", "ocne"}
  BY DEF ConfigurationAssumption, Layers
<1>10. ASSUME NEW f \in Shared
       PROVE  /\ f \in DOMAIN full.cc.set <=> layerOf(f) # None
              /\ f \in DOMAIN full.cc.set => full.cc.set[f].by = layerOf(f)
              /\ f \in DOMAIN full.cc.set /\ f # OsRegistry => full.cc.set[f].text = text(layerOf(f), f)
  <2>1. f # <<"WorkingDirectory">> /\ f \notin OcneFields
    BY NotShared DEF OcneFields
  <2>2. f \in DOMAIN s <=> f \in setup.clusterFlags \/ f \in FileFields
    BY <1>1, <1>7 DEF FileFields
  <2>3. f \in DOMAIN full.cc.set <=> f \in DOMAIN s \/ f \in DOMAIN full.c.set
    BY <1>5 DEF overConfig
  <2>4. f \in DOMAIN full.cc.set <=> layerOf(f) # None
    BY <1>8, <1>9, <2>1, <2>2, <2>3 DEF layerOf
  <2>5. ASSUME f \in DOMAIN full.cc.set
        PROVE  (IF f \in DOMAIN s THEN s[f] ELSE full.c.set[f]) = named(layerOf(f), f)
    <3>1. CASE f \in DOMAIN s
      BY <1>7, <2>2, <3>1 DEF layerOf
    <3>2. CASE f \notin DOMAIN s
      BY <1>8, <2>1, <2>2, <2>3, <2>5, <3>2 DEF layerOf
    <3> QED BY <3>1, <3>2
  <2>6. ASSUME f \in DOMAIN full.cc.set
        PROVE  full.cc.set[f].by = named(layerOf(f), f).by /\ (f # OsRegistry => full.cc.set[f] = named(layerOf(f), f))
    BY <1>5, <2>5, <2>6 DEF overConfig
  <2>7. named(layerOf(f), f).by = layerOf(f) /\ named(layerOf(f), f).text = text(layerOf(f), f)
    BY DEF named
  <2> QED BY <2>4, <2>6, <2>7
<1>11. ASSUME Name \in DOMAIN full.cc.set PROVE nameOf(full.cc) \in {"file", "clusterFlags"}
  <2>1. Name \in DOMAIN s
    BY <1>5, <1>11, NotShared DEF overConfig
  <2>2. full.cc.set[Name] = s[Name]
    BY <1>5, <1>11, <2>1, Apart DEF overConfig
  <2>3. s[Name] \in {named("clusterFlags", Name), named("file", Name)}
    BY <1>7, <2>1, PlainFields
  <2> QED BY <2>2, <2>3 DEF nameOf, named
<1>12. ASSUME NEW f \in OfClusterConfig
       PROVE  /\ f \in DOMAIN full.cc.set <=> f \in setup.clusterFlags \cup FileFields
              /\ f \in DOMAIN full.cc.set => full.cc.set[f].by = IF f \in setup.clusterFlags THEN "clusterFlags" ELSE "file"
  <2>1. f \notin Shared
    BY ConfigsApart
  <2>2. f \in DOMAIN full.cc.set <=> f \in DOMAIN s
    BY <1>5, <2>1 DEF overConfig
  <2>3. f \in DOMAIN s <=> f \in setup.clusterFlags \cup FileFields
    BY <1>1, <1>7 DEF FileFields
  <2>4. f \in DOMAIN s => s[f].by = IF f \in setup.clusterFlags THEN "clusterFlags" ELSE "file"
    <3>1. \A l : named(l, f).by = l
      BY DEF named
    <3> QED BY <1>7, <3>1
  <2>5. f \in DOMAIN full.cc.set => full.cc.set[f].by = s[f].by
    BY <1>5, <2>2 DEF overConfig
  <2> QED BY <2>2, <2>3, <2>4, <2>5
<1> QED BY <1>5, <1>6, <1>10, <1>11, <1>12 DEF overConfig

\* A field of a ClusterConfig alone is not in the other layers.
LEMMA OwnLayer ==
    ASSUME ConfigurationAssumption, setup \in Setups, defaults \in {setup.defaults, setup.laterDefaults},
           NEW f \in OfClusterConfig
    PROVE  layerOf(f) = IF f \in setup.clusterFlags THEN "clusterFlags"
                        ELSE IF f \in FileFields THEN "file" ELSE IF f \in OcneFields THEN "ocne" ELSE None
<1>1. setup.flags \subseteq ConfigFlags /\ (defaults = None \/ defaults \subseteq Shared \cup OfConfig)
  BY DEF ConfigurationAssumption
<1>2. f \notin setup.flags /\ f \notin Given /\ f \notin BuiltIn
  BY <1>1, FlagsApart, ConfigsApart, BuiltInApart DEF Given
<1> QED BY <1>2 DEF layerOf

LEMMA StartFull ==
    ASSUME ConfigurationAssumption, setup \in Setups, defaults \in {setup.defaults, setup.laterDefaults}
    PROVE  startConfig(startFull.c) /\ startClusterConfig(startFull.cc)
<1>1. PICK full : full = GetFullConfig(flagConfig, flagClusterConfig, setup.file # None)
  OBVIOUS
<1>2. PICK n, o, m : n = full.c /\ o = full.cc /\ m = complete(o)
  OBVIOUS
<1>3. full = [c |-> n, cc |-> o]
  BY <1>1, <1>2 DEF GetFullConfig
<1>4. startFull = [full EXCEPT !.cc = complete(@)]
  BY <1>1 DEF startFull
<1>5. startFull = [c |-> n, cc |-> m]
  BY <1>2, <1>3, <1>4
<1>6. /\ startConfig(n) /\ isConfig(o)
      /\ \A f \in Shared :
             /\ f \in DOMAIN o.set <=> layerOf(f) # None
             /\ f \in DOMAIN o.set => o.set[f].by = layerOf(f)
             /\ f \in DOMAIN o.set /\ f # OsRegistry => o.set[f].text = text(layerOf(f), f)
      /\ \A f \in OfClusterConfig :
             /\ f \in DOMAIN o.set <=> f \in setup.clusterFlags \cup FileFields
             /\ f \in DOMAIN o.set => o.set[f].by = IF f \in setup.clusterFlags THEN "clusterFlags" ELSE "file"
      /\ Name \in DOMAIN o.set => nameOf(o) \in {"file", "clusterFlags"}
      /\ \A f \in Bools : f \in DOMAIN o.set => o.is[f] = (o.set[f].text = "true")
      /\ \A f \in Bools \cap Shared : f \notin DOMAIN o.set => o.is[f] = isDefaultTrue(f)
  BY <1>1, <1>2, MergedStart
<1>7. None \notin {"clusterFlags", "file", "flags", "defaults", "builtIn", "ocne"}
  BY DEF ConfigurationAssumption, Layers
<1>8. \A f \in Shared \cap BuiltIn : layerOf(f) # None
  BY <1>7 DEF layerOf
<1>9. {Image, OsTag, KubeVersion} \subseteq DOMAIN o.set
  BY <1>6, <1>8, PlainFields
<1>10. completed(m, o)
  BY <1>2, <1>6, <1>9, CompleteConfig
<1>11. \A f \in Shared : f \notin {Name, Provider, <<"ControlPlaneNodes">>}
  BY NotShared
<1>12. DOMAIN m.set = DOMAIN o.set \cup {Name, Provider, <<"ControlPlaneNodes">>}
  BY <1>10 DEF completed
<1>13. ASSUME NEW f \in Shared
       PROVE  (f \in DOMAIN m.set <=> layerOf(f) # None) /\ (f \in DOMAIN m.set => m.set[f].by = layerOf(f))
  <2>1. f \in DOMAIN m.set <=> f \in DOMAIN o.set
    BY <1>11, <1>12
  <2> QED BY <1>6, <1>10, <2>1 DEF completed
<1>14. nameOf(m) \in {"ocne", "file", "clusterFlags"}
  BY <1>6, <1>10 DEF completed, nameOf
<1>23. ASSUME NEW f \in OfClusterConfig PROVE setterIn(m, f) = layerOf(f)
  <2>1. layerOf(f) = IF f \in setup.clusterFlags THEN "clusterFlags"
                     ELSE IF f \in FileFields THEN "file" ELSE IF f \in OcneFields THEN "ocne" ELSE None
    BY OwnLayer
  <2>2. CASE f \in DOMAIN o.set
    <3>1. f \in DOMAIN m.set /\ m.set[f].by = o.set[f].by
      BY <1>10, <1>12, <2>2 DEF completed
    <3> QED BY <1>6, <2>1, <2>2, <3>1 DEF setterIn
  <2>3. CASE f \notin DOMAIN o.set /\ f \in OcneFields
    <3>1. f \in DOMAIN m.set /\ m.set[f].by = "ocne"
      BY <1>10, <1>12, <2>3 DEF completed, OcneFields
    <3> QED BY <1>6, <2>1, <2>3, <3>1 DEF setterIn
  <2>4. CASE f \notin DOMAIN o.set /\ f \notin OcneFields
    <3>1. f \notin DOMAIN m.set
      BY <1>12, <2>4 DEF OcneFields
    <3> QED BY <1>6, <2>1, <2>4, <3>1 DEF setterIn
  <2> QED BY <2>2, <2>3, <2>4
<1>15. ASSUME NEW f \in Bools, f \in DOMAIN m.set
       PROVE  f \in DOMAIN o.set /\ m.set[f] = o.set[f] /\ m.is[f] = (m.set[f].text = "true")
  <2>1. f \notin {Image, OsTag, OsRegistry, Name, Provider, <<"ControlPlaneNodes">>}
    BY WhichBools
  <2>2. f \in DOMAIN o.set /\ m.set[f] = o.set[f]
    BY <1>10, <1>12, <1>15, <2>1 DEF completed
  <2> QED BY <1>6, <1>10, <2>2 DEF completed
<1>16. ASSUME NEW f \in Bools \cap Shared
       PROVE  m.is[f] = IF layerOf(f) = None THEN isDefaultTrue(f) ELSE text(layerOf(f), f) = "true"
  <2>1. f # OsRegistry /\ m.is = o.is
    BY <1>10, WhichBools DEF completed
  <2>2. CASE f \in DOMAIN o.set
    <3>1. o.is[f] = (o.set[f].text = "true") /\ layerOf(f) # None /\ o.set[f].text = text(layerOf(f), f)
      BY <1>6, <2>1, <2>2
    <3> QED BY <2>1, <3>1
  <2>3. CASE f \notin DOMAIN o.set
    <3>1. o.is[f] = isDefaultTrue(f) /\ layerOf(f) = None
      BY <1>6, <2>3
    <3> QED BY <2>1, <3>1
  <2> QED BY <2>2, <2>3
<1>17. /\ o.set[Image].text \in {"none", "custom"} \cup Versions
       /\ o.set[OsTag].text \in {DefaultVersion, "custom"}
  BY <1>6, <1>9, PlainFields, Apart, Texts
<1>18. versionOf(m) = versionOf(o)
  BY <1>9, <1>10, Apart DEF completed, versionOf
<1>19. m.set[Image].text \in {versionOf(m), "custom"} /\ m.set[OsTag].text \in {versionOf(m), "custom"}
  BY <1>10, <1>17, <1>18 DEF completed
<1>20. isConfig(m) /\ {Name, Provider} \subseteq DOMAIN m.set
  BY <1>10 DEF completed
<1>21. startClusterConfig(m)
  BY <1>13, <1>14, <1>15, <1>16, <1>19, <1>20, <1>23 DEF startClusterConfig
<1>22. startFull.c = n /\ startFull.cc = m
  BY <1>5
<1> QED BY <1>6, <1>21, <1>22

\* The fields that every configuration of a cluster has.
Needed == {Name, Provider, KubeVersion, OsTag, Image, SessionURI, OsRegistry}

LEMMA StartHas ==
    ASSUME ConfigurationAssumption, NEW cc, startClusterConfig(cc), NEW c, startConfig(c)
    PROVE  Needed \cup ControlPlaneNode \subseteq DOMAIN cc.set /\ {Image, KubeVersion, OsTag, SessionURI} \subseteq DOMAIN c.set
<1>1. None \notin {"clusterFlags", "file", "flags", "defaults", "builtIn", "ocne"}
  BY DEF ConfigurationAssumption, Layers
<1>2. \A f \in Shared \cap BuiltIn : layerOf(f) # None
  BY <1>1 DEF layerOf
<1>3. \A f \in Shared \cap BuiltIn : f \in DOMAIN cc.set /\ f \in DOMAIN c.set
  BY <1>2, SharedCarried DEF startClusterConfig, startConfig
<1>4. ControlPlaneNode \subseteq Shared \cap BuiltIn
  BY ControlPlaneFields
<1>5. {Name, Provider} \subseteq DOMAIN cc.set
  BY DEF startClusterConfig
<1> QED BY <1>3, <1>4, <1>5, PlainFields, SessionShared DEF Needed

-----------------------------------------------------------------------------
(* Clusters                                                                 *)

Eph == "ocne-ephemeral"
hasCluster(cc) == isConfig(cc) /\ Needed \subseteq DOMAIN cc.set
placeOf(cc) == IF providerOf(cc) = "libvirt" THEN cc.set[SessionURI].by ELSE providerOf(cc)

LEMMA Place == \A c, cc : isConfig(c) /\ hasCluster(cc) => place(c, cc) = placeOf(cc)
<1> SUFFICES ASSUME NEW c, NEW cc, isConfig(c), hasCluster(cc) PROVE place(c, cc) = placeOf(cc)
  OBVIOUS
<1>1. isConfig(cc) /\ SessionURI \in DOMAIN cc.set
  BY DEF hasCluster, Needed
<1>2. PICK m : m = OverlayConfig(cc, c)
  OBVIOUS
<1>3. overlaid(m.set, cc.set, c.set)
  BY <1>1, <1>2, OverlaidConfig
<1>4. m.set[SessionURI] = cc.set[SessionURI]
  BY <1>1, <1>3 DEF overlaid
<1> QED BY <1>2, <1>4 DEF place, placeOf

LEMMA SomeCluster == \A cc : hasCluster(cc) => cc # NoConfig
BY EmptyConfig DEF hasCluster, Needed, NoConfig

\* What the libvirt driver is told.
LEMMA ForLibvirt ==
    ASSUME NEW full, isConfig(full.c), {Image, KubeVersion, OsTag} \subseteq DOMAIN full.c.set, hasCluster(full.cc)
    PROVE  /\ isConfig(forLibvirt(full))
           /\ providerOf(full.cc) = "libvirt" => forLibvirt(full).set[Image] = full.cc.set[Image]
           /\ \A f : f \notin {Image, KubeVersion, OsTag} => setterIn(forLibvirt(full), f) = setterIn(full.c, f)
<1>1. PICK c, d, e, g : c = full.c /\ d = full.cc.set[Image] /\ e = full.cc.set[KubeVersion] /\ g = full.cc.set[OsTag]
  OBVIOUS
<1>2. isEntry(d) /\ isEntry(e) /\ isEntry(g)
  BY <1>1 DEF hasCluster, Needed, isConfig, isFields
<1>3. PICK p, q, r : p = newEntry(c, Image, d) /\ q = newEntry(p, KubeVersion, e) /\ r = newEntry(q, OsTag, g)
  OBVIOUS
<1>4. /\ isConfig(p) /\ DOMAIN p.set = DOMAIN c.set /\ p.set[Image] = d
      /\ \A f \in DOMAIN c.set : f # Image => p.set[f] = c.set[f]
  BY <1>1, <1>2, <1>3, NewEntry
<1>5. /\ isConfig(q) /\ DOMAIN q.set = DOMAIN c.set /\ q.set[Image] = d
      /\ \A f \in DOMAIN c.set : f # KubeVersion => q.set[f] = p.set[f]
  BY <1>1, <1>2, <1>3, <1>4, NewEntry, Apart
<1>6. /\ isConfig(r) /\ DOMAIN r.set = DOMAIN c.set /\ r.set[Image] = d
      /\ \A f \in DOMAIN c.set : f # OsTag => r.set[f] = q.set[f]
  BY <1>1, <1>2, <1>3, <1>5, NewEntry, Apart
<1>7. CASE providerOf(full.cc) = "libvirt"
  <2>1. forLibvirt(full) = [c EXCEPT !.set[Image] = d, !.set[KubeVersion] = e, !.set[OsTag] = g]
    BY <1>1, <1>7 DEF forLibvirt
  <2>2. p = [c EXCEPT !.set[Image] = d] /\ q = [p EXCEPT !.set[KubeVersion] = e] /\ r = [q EXCEPT !.set[OsTag] = g]
    BY <1>3 DEF newEntry
  <2>3. [c EXCEPT !.set[Image] = d, !.set[KubeVersion] = e, !.set[OsTag] = g] =
            [[[c EXCEPT !.set[Image] = d] EXCEPT !.set[KubeVersion] = e] EXCEPT !.set[OsTag] = g]
    OBVIOUS
  <2>4. forLibvirt(full) = r
    BY <2>1, <2>2, <2>3
  <2>5. \A f : f \notin {Image, KubeVersion, OsTag} => setterIn(r, f) = setterIn(c, f)
    BY <1>4, <1>5, <1>6 DEF setterIn
  <2> QED BY <1>1, <1>6, <2>4, <2>5
<1>8. CASE providerOf(full.cc) # "libvirt"
  BY <1>8 DEF forLibvirt
<1> QED BY <1>7, <1>8

\* The cluster that StartEphemeralCluster asks for.
forced(cc) ==
    /\ hasCluster(cc) /\ nameOf(cc) = Eph /\ providerOf(cc) = "libvirt"
    /\ cc.is[<<"Headless">>] /\ ~cc.is[<<"Catalog">>] /\ ~cc.is[<<"CommunityCatalog">>]
    /\ <<"WorkerNodes">> \notin DOMAIN cc.set
    /\ \A f \in ControlPlaneNode : cc.set[f].by \in {"defaults", "builtIn"}

LEMMA EphemeralSize ==
    ASSUME ConfigurationAssumption, setup \in Setups, NEW c, startConfig(c), NEW x \in NodeNames
    PROVE  /\ <<"EphemeralConfig", "Node", x>> \in DOMAIN c.set
           /\ c.set[<<"EphemeralConfig", "Node", x>>].by \in {"defaults", "builtIn"}
           /\ isEntry(c.set[<<"EphemeralConfig", "Node", x>>])
<1>1. PICK f : f = <<"EphemeralConfig", "Node", x>>
  OBVIOUS
<1>2. f \in Carried /\ f \in BuiltIn /\ f \notin ConfigFlags
  BY <1>1, EphemeralFields
<1>3. setup.flags \subseteq ConfigFlags
  BY DEF ConfigurationAssumption
<1>4. f \in DOMAIN c.set /\ c.set[f] \in {named("defaults", f), named("builtIn", f)}
  BY <1>2, <1>3 DEF startConfig
<1>5. c.set[f].by \in {"defaults", "builtIn"} /\ isEntry(c.set[f])
  BY <1>4 DEF named, isEntry
<1> QED BY <1>1, <1>4, <1>5

LEMMA EphemeralCluster ==
    ASSUME ConfigurationAssumption, setup \in Setups,
           NEW c, startConfig(c), NEW cc, startClusterConfig(cc)
    PROVE  /\ forced(ephemeral(c, cc).cc)
           /\ ephemeral(c, cc).cc.set[SessionURI].by = cc.set[SessionURI].by
<1>1. PICK k : k = CopyClusterConfig(cc)
  OBVIOUS
<1>2. isConfig(cc) /\ Needed \cup ControlPlaneNode \subseteq DOMAIN cc.set
  BY StartHas DEF startClusterConfig
<1>3. PICK e : e = Empty
  OBVIOUS
<1>4. isConfig(e) /\ DOMAIN e.set = {} /\ k = MergeClusterConfig(e, cc)
  BY <1>1, <1>3, EmptyConfig DEF CopyClusterConfig
<1>5. isConfig(k) /\ merged(k.set, e.set, cc.set, Shared \cup OfClusterConfig)
  BY <1>2, <1>4, MergedClusterConfig
<1>6. DOMAIN k.set = DOMAIN cc.set \cap (Shared \cup OfClusterConfig) /\ \A f \in DOMAIN k.set : k.set[f] = cc.set[f]
  BY <1>4, <1>5 DEF merged
<1>7. PICK i : i = [k.is EXCEPT ![<<"Headless">>] = TRUE, ![<<"Catalog">>] = FALSE, ![<<"CommunityCatalog">>] = FALSE]
  OBVIOUS
<1>8. i = [f \in Bools |-> i[f]] /\ i[<<"Headless">>] = TRUE /\ i[<<"Catalog">>] = FALSE /\ i[<<"CommunityCatalog">>] = FALSE
  <2>1. PICK h, g, j : h = <<"Headless">> /\ g = <<"Catalog">> /\ j = <<"CommunityCatalog">>
    OBVIOUS
  <2>2. h # g /\ h # j /\ g # j
    <3>1. h[1] = "Headless" /\ g[1] = "Catalog" /\ j[1] = "CommunityCatalog"
      BY <2>1
    <3> QED BY <3>1
  <2>3. {h, g, j} \subseteq Bools
    BY <2>1, WhichBools
  <2>4. k.is = [f \in Bools |-> k.is[f]]
    BY <1>5 DEF isConfig
  <2>5. i = [k.is EXCEPT ![h] = TRUE, ![g] = FALSE, ![j] = FALSE]
    BY <1>7, <2>1
  <2>6. i = [f \in Bools |-> i[f]] /\ i[h] = TRUE /\ i[g] = FALSE /\ i[j] = FALSE
    BY <2>2, <2>3, <2>4, <2>5
  <2> QED BY <2>1, <2>6
<1>9. PICK l : l = [k EXCEPT !.is = i]
  OBVIOUS
<1>10. isConfig(l) /\ l.set = k.set /\ l.is = i
  BY <1>5, <1>8, <1>9, NewValues
<1>11. PICK m : m = with(l, Name, "ocne-ephemeral", "")
  OBVIOUS
<1>12. added(m, l, Name) /\ m.set[Name].by = "ocne-ephemeral"
  <2>1. PICK b, t : b = "ocne-ephemeral" /\ t = ""
    OBVIOUS
  <2>2. isConfig(l) /\ m = with(l, Name, b, t)
    BY <1>10, <1>11, <2>1
  <2>3. added(m, l, Name) /\ m.set[Name].by = b
    BY <2>2, WithField
  <2> QED BY <2>1, <2>3
<1>13. PICK n : n = with(m, Provider, "ephemeral", "libvirt")
  OBVIOUS
<1>14. isConfig(m)
  BY <1>12 DEF added
<1>15. added(n, m, Provider) /\ n.set[Provider].text = "libvirt"
  BY <1>13, <1>14, WithField
<1>16. PICK o : o = with(n, <<"ControlPlaneNodes">>, "ephemeral", "1")
  OBVIOUS
<1>17. isConfig(n)
  BY <1>15 DEF added
<1>18. added(o, n, <<"ControlPlaneNodes">>)
  BY <1>16, <1>17, WithField
<1>19. PICK p : p = with(o, <<"CNI">>, "ephemeral", "flannel")
  OBVIOUS
<1>20. isConfig(o)
  BY <1>18 DEF added
<1>21. added(p, o, <<"CNI">>)
  BY <1>19, <1>20, WithField
<1>22. isConfig(p) /\ p.is = i
  BY <1>10, <1>12, <1>15, <1>18, <1>21 DEF added
<1>23. PICK s : s = [f \in DOMAIN p.set \ {<<"WorkerNodes">>} |->
                        IF f \in ControlPlaneNode THEN c.set[<<"EphemeralConfig", "Node", f[4]>>] ELSE p.set[f]]
  OBVIOUS
<1>24. isFields(s)
  <2>1. ASSUME NEW f \in DOMAIN s PROVE isEntry(s[f])
    <3>1. CASE f \in ControlPlaneNode
      <4>1. f[4] \in NodeNames
        BY <3>1, ControlPlaneFields
      <4>2. isEntry(c.set[<<"EphemeralConfig", "Node", f[4]>>])
        BY <4>1, EphemeralSize
      <4> QED BY <1>23, <3>1, <4>2
    <3>2. CASE f \notin ControlPlaneNode
      BY <1>22, <1>23, <3>2 DEF isConfig, isFields
    <3> QED BY <3>1, <3>2
  <2> QED BY <1>23, <2>1 DEF isFields
<1>25. PICK q : q = [p EXCEPT !.set = s]
  OBVIOUS
<1>26. isConfig(q) /\ q.set = s /\ q.is = i
  BY <1>22, <1>24, <1>25, NewFields
<1>27. PICK r : r = with(q, KubeVersion, "ephemeral", DefaultVersion)
  OBVIOUS
<1>28. added(r, q, KubeVersion)
  BY <1>26, <1>27, WithField
<1>29. ephemeral(c, cc).cc = r
  BY <1>1, <1>7, <1>9, <1>11, <1>13, <1>16, <1>19, <1>23, <1>25, <1>27 DEF ephemeral
<1>30. \A g : <<g>> \notin ControlPlaneNode
  BY NotControlPlane
<1>31. Needed \subseteq Shared \cup OfClusterConfig
  BY PlainFields, SessionShared DEF Needed
<1>32. Needed \cup ControlPlaneNode \subseteq DOMAIN k.set
  BY <1>2, <1>6, <1>31, ControlPlaneFields
<1>33. DOMAIN k.set \subseteq DOMAIN p.set
  BY <1>10, <1>12, <1>15, <1>18, <1>21 DEF added
<1>34. <<"WorkerNodes">> \notin Needed \cup ControlPlaneNode
  BY <1>30, Apart DEF Needed
<1>35. Needed \cup ControlPlaneNode \subseteq DOMAIN s /\ <<"WorkerNodes">> \notin DOMAIN s
  BY <1>23, <1>32, <1>33, <1>34
<1>36. hasCluster(r)
  BY <1>26, <1>28, <1>35 DEF hasCluster, added
<1>37. r.is = i
  BY <1>26, <1>28 DEF added
<1>38. <<"WorkerNodes">> \notin DOMAIN r.set
  BY <1>26, <1>28, <1>35, Apart DEF added
<1>39. ASSUME NEW f \in Needed, f # KubeVersion PROVE r.set[f] = p.set[f]
  <2>1. f \notin ControlPlaneNode
    BY <1>30, NotControlPlane DEF Needed, Name, Provider, KubeVersion, OsTag, Image, OsRegistry
  <2>2. s[f] = p.set[f]
    BY <1>23, <1>35, <2>1
  <2> QED BY <1>26, <1>28, <1>35, <1>39, <2>2 DEF added
<1>40. p.set[Name] = m.set[Name] /\ p.set[Provider] = n.set[Provider]
  BY <1>12, <1>15, <1>18, <1>21, Apart DEF added
<1>41. nameOf(r) = Eph /\ providerOf(r) = "libvirt"
  BY <1>12, <1>15, <1>39, <1>40, Apart DEF nameOf, providerOf, Needed, Eph
<1>42. r.set[SessionURI] = cc.set[SessionURI]
  <2>1. SessionURI \in DOMAIN k.set /\ SessionURI # Name /\ SessionURI # Provider
        /\ SessionURI # <<"ControlPlaneNodes">> /\ SessionURI # <<"CNI">> /\ SessionURI # KubeVersion
    BY <1>32, Apart DEF Needed, Name, Provider, KubeVersion
  <2>2. m.set[SessionURI] = k.set[SessionURI] /\ SessionURI \in DOMAIN m.set
    BY <1>10, <1>12, <2>1 DEF added
  <2>3. n.set[SessionURI] = m.set[SessionURI] /\ SessionURI \in DOMAIN n.set
    BY <1>15, <2>1, <2>2 DEF added
  <2>4. o.set[SessionURI] = n.set[SessionURI] /\ SessionURI \in DOMAIN o.set
    BY <1>18, <2>1, <2>3 DEF added
  <2>5. p.set[SessionURI] = o.set[SessionURI]
    BY <1>21, <2>1, <2>4 DEF added
  <2>6. k.set[SessionURI] = cc.set[SessionURI]
    BY <1>6, <2>1
  <2>7. r.set[SessionURI] = p.set[SessionURI]
    BY <1>39, <2>1 DEF Needed
  <2> QED BY <2>2, <2>3, <2>4, <2>5, <2>6, <2>7
<1>43. ASSUME NEW f \in ControlPlaneNode PROVE r.set[f].by \in {"defaults", "builtIn"}
  <2>1. f # KubeVersion
    BY <1>30 DEF KubeVersion
  <2>2. r.set[f] = s[f]
    BY <1>26, <1>28, <1>35, <2>1 DEF added
  <2>3. s[f] = c.set[<<"EphemeralConfig", "Node", f[4]>>]
    BY <1>23, <1>35
  <2>4. f[4] \in NodeNames
    BY ControlPlaneFields
  <2> QED BY <2>2, <2>3, <2>4, EphemeralSize
<1> QED BY <1>8, <1>29, <1>36, <1>37, <1>38, <1>41, <1>42, <1>43 DEF forced

LEMMA EphemeralConfig ==
    ASSUME ConfigurationAssumption, setup \in Setups,
           NEW c, startConfig(c), NEW cc, startClusterConfig(cc)
    PROVE  isConfig(ephemeral(c, cc).c)
<1>1. isConfig(c) /\ isConfig(cc) /\ {Image, OsTag} \subseteq DOMAIN c.set /\ {Image, OsTag} \subseteq DOMAIN cc.set
  BY StartHas DEF startConfig, startClusterConfig, Needed
<1>2. PICK e, k : e = Empty /\ k = CopyConfig(c)
  OBVIOUS
<1>3. isConfig(k) /\ merged(k.set, e.set, c.set, Carried)
  BY <1>1, <1>2, EmptyConfig, MergedConfig DEF CopyConfig
<1>4. Image \in DOMAIN k.set /\ OsTag \in DOMAIN k.set
  BY <1>1, <1>3, PlainFields, SharedCarried DEF merged
<1>5. PICK d, g : d = cc.set[Image] /\ g = cc.set[OsTag]
  OBVIOUS
<1>6. isEntry(d) /\ isEntry(g)
  BY <1>1, <1>5 DEF isConfig, isFields
<1>7. PICK m, n : m = newEntry(k, Image, d) /\ n = newEntry(m, OsTag, g)
  OBVIOUS
<1>8. isConfig(m) /\ OsTag \in DOMAIN m.set
  BY <1>3, <1>4, <1>6, <1>7, NewEntry
<1>9. isConfig(n)
  BY <1>6, <1>7, <1>8, NewEntry
<1>10. PICK i : i = [n.is EXCEPT ![<<"Quiet">>] = TRUE]
  OBVIOUS
<1>11. i = [f \in Bools |-> i[f]]
  <2>1. n.is = [f \in Bools |-> n.is[f]]
    BY <1>9 DEF isConfig
  <2> QED BY <1>10, <2>1
<1>12. PICK o : o = [n EXCEPT !.is = i]
  OBVIOUS
<1>13. isConfig(o)
  BY <1>9, <1>11, <1>12, NewValues
<1>14. o = [k EXCEPT !.set[Image] = d, !.set[OsTag] = g, !.is[<<"Quiet">>] = TRUE]
  <2>1. m = [k EXCEPT !.set[Image] = d] /\ n = [m EXCEPT !.set[OsTag] = g]
    BY <1>7 DEF newEntry
  <2>2. o = [n EXCEPT !.is[<<"Quiet">>] = TRUE]
    BY <1>10, <1>12
  <2>3. [k EXCEPT !.set[Image] = d, !.set[OsTag] = g, !.is[<<"Quiet">>] = TRUE] =
            [[[k EXCEPT !.set[Image] = d] EXCEPT !.set[OsTag] = g] EXCEPT !.is[<<"Quiet">>] = TRUE]
    OBVIOUS
  <2> QED BY <2>1, <2>2, <2>3
<1>15. PICK p : p = with(o, KubeVersion, "ephemeral", DefaultVersion)
  OBVIOUS
<1>16. isConfig(p)
  BY <1>13, <1>15, WithField DEF added
<1>17. isConfig(with(p, <<"Quiet">>, "ephemeral", "true"))
  BY <1>16, WithField DEF added
<1>18. ephemeral(c, cc).c = with(p, <<"Quiet">>, "ephemeral", "true")
  BY <1>2, <1>5, <1>14, <1>15 DEF ephemeral
<1> QED BY <1>17, <1>18

-----------------------------------------------------------------------------
(* Stage and delete                                                         *)

\* The configuration m of a command for the cluster d of the cache.
sameCached(m, d) ==
    /\ hasCluster(m)
    /\ \A f \in DOMAIN d.set : f \in DOMAIN m.set /\ m.set[f].by = d.set[f].by
    /\ nameOf(m) = nameOf(d) /\ placeOf(m) = placeOf(d)
    /\ \A f \in Bools \cap DOMAIN d.set : m.is[f] = (d.set[f].text = "true")

\* What a command that has no options gets from the defaults.
defaulted(full, cc) ==
    /\ isConfig(full.c) /\ isConfig(full.cc)
    /\ {KubeVersion, OsTag, Image, SessionURI, OsRegistry} \cup DOMAIN cc.set \subseteq DOMAIN full.cc.set
    /\ Name \in DOMAIN full.cc.set => Name \in DOMAIN cc.set
    /\ \A f \in DOMAIN cc.set :
           full.cc.set[f].by = cc.set[f].by /\ (f # OsRegistry => full.cc.set[f] = cc.set[f])
    /\ \A f \in Bools \cap DOMAIN cc.set : full.cc.is[f] = (cc.set[f].text = "true")

LEMMA Defaulted ==
    ASSUME NEW cc, isConfig(cc), NEW full, full = GetFullConfig(Empty, cc, FALSE)
    PROVE  defaulted(full, cc)
<1>1. PICK e, no : e = Empty /\ no = FALSE
  OBVIOUS
<1>2. isConfig(e) /\ no \in BOOLEAN /\ full = GetFullConfig(e, cc, no)
  BY <1>1, EmptyConfig
<1>3. fullOf(full, e, cc, no)
  BY <1>2, FullConfig
<1>4. isConfig(full.c) /\ overDefaults(full.c.set, e.set)
  BY <1>3 DEF fullOf
<1>5. PICK s : withFile(s, cc.set, no) /\ overConfig(full.cc, s, full.c.set)
  BY <1>3 DEF fullOf
<1>6. s = cc.set
  BY <1>1, <1>5 DEF withFile
<1>7. overConfig(full.cc, cc.set, full.c.set)
  BY <1>5, <1>6
<1>8. {KubeVersion, OsTag, Image, SessionURI, OsRegistry} \subseteq DOMAIN full.c.set \cap Shared
  BY <1>4, PlainFields, SessionShared DEF overDefaults
<1>9. ASSUME NEW f \in DOMAIN cc.set
      PROVE  /\ f \in DOMAIN full.cc.set /\ full.cc.set[f].by = cc.set[f].by
             /\ f # OsRegistry => full.cc.set[f] = cc.set[f]
  BY <1>7 DEF overConfig
<1>10. ASSUME NEW f \in Bools \cap DOMAIN cc.set PROVE full.cc.is[f] = (cc.set[f].text = "true")
  BY <1>7, <1>9, WhichBools DEF overConfig
<1>11. Name \in DOMAIN full.cc.set => Name \in DOMAIN cc.set
  BY <1>7, NotShared DEF overConfig
<1> QED BY <1>4, <1>7, <1>8, <1>9, <1>10, <1>11 DEF overConfig, defaulted

LEMMA CachedFull ==
    ASSUME NEW d, hasCluster(d), NEW full, full = GetFullConfig(Empty, d, FALSE)
    PROVE  isConfig(full.c) /\ sameCached(full.cc, d)
<1>1. isConfig(d) /\ {Name, Provider, SessionURI} \subseteq DOMAIN d.set
  BY DEF hasCluster, Needed
<1>2. defaulted(full, d)
  BY <1>1, Defaulted
<1>3. hasCluster(full.cc)
  BY <1>1, <1>2 DEF hasCluster, Needed, defaulted
<1>4. full.cc.set[Name] = d.set[Name] /\ full.cc.set[Provider] = d.set[Provider] /\ full.cc.set[SessionURI].by = d.set[SessionURI].by
  BY <1>1, <1>2, Apart DEF defaulted
<1> QED BY <1>2, <1>3, <1>4 DEF defaulted, sameCached, nameOf, placeOf, providerOf

\* What delete does to it.
unnamed(cc) == ifUnset(ifUnset(cc, Name, "ocne", ""), Provider, "ocne", "libvirt")

LEMMA DeletedCached ==
    ASSUME NEW d, hasCluster(d), NEW full, full = GetFullConfig(Empty, d, FALSE)
    PROVE  isConfig(full.c) /\ sameCached(unnamed(full.cc), d)
<1>1. isConfig(full.c) /\ sameCached(full.cc, d)
  BY CachedFull
<1>2. {Name, Provider} \subseteq DOMAIN full.cc.set
  BY <1>1 DEF sameCached, hasCluster, Needed
<1>3. unnamed(full.cc) = full.cc
  BY <1>2 DEF unnamed, ifUnset
<1> QED BY <1>1, <1>3

LEMMA DeletedUnknown ==
    ASSUME NEW cli, isConfig(cli), NEW full, full = GetFullConfig(Empty, cli, FALSE)
    PROVE  /\ isConfig(full.c) /\ hasCluster(unnamed(full.cc))
           /\ Name \in DOMAIN cli.set => nameOf(unnamed(full.cc)) = nameOf(cli)
           /\ Name \notin DOMAIN cli.set => nameOf(unnamed(full.cc)) = "ocne"
<1>1. defaulted(full, cli)
  BY Defaulted
<1>2. PICK p : p = ifUnset(full.cc, Name, "ocne", "")
  OBVIOUS
<1>3. ensured(p, full.cc, Name, "ocne", "")
  BY <1>1, <1>2, Unset DEF defaulted
<1>4. isConfig(p)
  BY <1>3 DEF ensured, added
<1>5. PICK q : q = ifUnset(p, Provider, "ocne", "libvirt")
  OBVIOUS
<1>6. ensured(q, p, Provider, "ocne", "libvirt")
  BY <1>4, <1>5, Unset
<1>7. q = unnamed(full.cc)
  BY <1>2, <1>5 DEF unnamed
<1>8. isConfig(q) /\ Needed \subseteq DOMAIN q.set
  BY <1>1, <1>3, <1>6 DEF defaulted, ensured, added, Needed
<1>9. q.set[Name] = p.set[Name] /\ Name \in DOMAIN p.set
  BY <1>3, <1>6, Apart DEF ensured, added
<1>10. Name \in DOMAIN cli.set => p.set[Name].by = cli.set[Name].by
  BY <1>1, <1>3 DEF defaulted, ensured
<1>11. Name \notin DOMAIN cli.set => p.set[Name].by = "ocne"
  BY <1>1, <1>3 DEF defaulted, ensured
<1> QED BY <1>1, <1>7, <1>8, <1>9, <1>10, <1>11 DEF defaulted, hasCluster, nameOf

-----------------------------------------------------------------------------
(* What the last command worked with                                        *)

LastFields ==
    last.cmd # "none" => {Name, Provider, KubeVersion, OsTag, Image, SessionURI} \subseteq DOMAIN last.cc.set
LastInv == LastFields /\ LayersInOrder /\ CachedWins /\ ImageFollowsVersion /\ RestartAccepted

LEMMA SameText == ASSUME setup' = setup PROVE \A l, f : text(l, f)' = text(l, f)
BY DEF text

LEMMA LastStays == ASSUME last' = last, setup' = setup, LastInv PROVE LastInv'
<1>1. \A l, f : text(l, f)' = text(l, f)
  BY SameText
<1>2. \A f : setters(f)' = setters(f)
  BY DEF setters
<1>3. \A f : firstSetter(f)' = firstSetter(f)
  BY <1>2 DEF firstSetter
<1>4. LayersInOrder'
  BY <1>1, <1>2, <1>3 DEF LastInv, LayersInOrder, overruled, setterIn
<1> QED BY <1>4 DEF LastInv, LastFields, CachedWins, ImageFollowsVersion, RestartAccepted

LEMMA FirstLayer ==
    ASSUME NEW s, NEW i \in 1..6, s[Layers[i]], \A j \in 1..(i - 1) : ~s[Layers[j]]
    PROVE  (CHOOSE k \in 1..6 : s[Layers[k]] /\ \A j \in 1..(k - 1) : ~s[Layers[j]]) = i
<1>1. PICK t : t = [k \in 1..6 |-> s[Layers[k]]]
  OBVIOUS
<1>2. ASSUME NEW k \in 1..6, s[Layers[k]], \A j \in 1..(k - 1) : ~s[Layers[j]] PROVE k = i
  <2>1. ~(i < k)
    <3>1. i < k => i \in 1..(k - 1)
      OBVIOUS
    <3> QED BY <3>1, <1>2
  <2>2. ~(k < i)
    <3>1. k < i => k \in 1..(i - 1)
      OBVIOUS
    <3> QED BY <3>1, <1>2
  <2> QED BY <2>1, <2>2
<1> QED BY <1>2

\* What the layers set, now that a command has ended.
SetBy == [l \in {"clusterFlags", "flags", "file", "defaults", "builtIn", "ocne"} |->
              CASE l = "clusterFlags" -> setup.clusterFlags
                [] l = "flags" -> setup.flags
                [] l = "file" -> FileFields
                [] l = "defaults" -> Given
                [] l = "builtIn" -> BuiltIn
                [] l = "ocne" -> OcneFields]

LEMMA SettersNow ==
    ASSUME setup' = setup, last'.given = defaults, NEW f
    PROVE  /\ setters(f)'["clusterFlags"] <=> f \in setup.clusterFlags
           /\ setters(f)'["flags"] <=> f \in setup.flags
           /\ setters(f)'["file"] <=> f \in FileFields
           /\ setters(f)'["defaults"] <=> f \in Given
           /\ setters(f)'["builtIn"] <=> f \in BuiltIn
           /\ setters(f)'["ocne"] <=> f \in OcneFields
BY DEF setters, Given, FileFields, OcneFields

LEMMA OverruledNow ==
    ASSUME setup' = setup, last'.given = defaults
    PROVE  \A f : overruled(f)' <=> f \in setup.flags /\ f \in FileFields
BY SettersNow DEF overruled

\* Where the file overrules nothing, the order of the code is the documented one.
LEMMA FirstSetterNow ==
    ASSUME setup' = setup, last'.given = defaults
    PROVE  \A f : ~(f \in setup.flags /\ f \in FileFields) => firstSetter(f)' = layerOf(f)
<1> SUFFICES ASSUME NEW f, ~(f \in setup.flags /\ f \in FileFields) PROVE firstSetter(f)' = layerOf(f)
  OBVIOUS
<1>1. PICK s : s = setters(f)'
  OBVIOUS
<1>2. /\ s["clusterFlags"] <=> f \in setup.clusterFlags
      /\ s["flags"] <=> f \in setup.flags
      /\ s["file"] <=> f \in FileFields
      /\ s["defaults"] <=> f \in Given
      /\ s["builtIn"] <=> f \in BuiltIn
      /\ s["ocne"] <=> f \in OcneFields
  BY <1>1, SettersNow
<1>3. firstSetter(f)' = IF \E i \in 1..6 : s[Layers[i]]
                        THEN Layers[CHOOSE i \in 1..6 : s[Layers[i]] /\ \A j \in 1..(i - 1) : ~s[Layers[j]]]
                        ELSE None
  BY <1>1 DEF firstSetter
<1>4. /\ Layers[1] = "clusterFlags" /\ Layers[2] = "flags" /\ Layers[3] = "file"
      /\ Layers[4] = "defaults" /\ Layers[5] = "builtIn" /\ Layers[6] = "ocne"
  BY DEF Layers
<1>5. 1..6 = {1, 2, 3, 4, 5, 6} /\ 1..(1 - 1) = {} /\ 1..(2 - 1) = {1} /\ 1..(3 - 1) = {1, 2} /\ 1..(4 - 1) = {1, 2, 3}
      /\ 1..(5 - 1) = {1, 2, 3, 4} /\ 1..(6 - 1) = {1, 2, 3, 4, 5}
  OBVIOUS
<1>6. ASSUME NEW i \in 1..6, s[Layers[i]], \A j \in 1..(i - 1) : ~s[Layers[j]] PROVE firstSetter(f)' = Layers[i]
  BY <1>3, <1>6, FirstLayer
<1>7. CASE f \in setup.clusterFlags
  <2>1. firstSetter(f)' = Layers[1]
    BY <1>2, <1>4, <1>5, <1>6, <1>7
  <2> QED BY <1>4, <1>7, <2>1 DEF layerOf
<1>8. CASE f \notin setup.clusterFlags /\ f \in setup.flags
  <2>1. firstSetter(f)' = Layers[2]
    BY <1>2, <1>4, <1>5, <1>6, <1>8
  <2> QED BY <1>4, <1>8, <2>1 DEF layerOf
<1>9. CASE f \notin setup.clusterFlags \cup setup.flags /\ f \in FileFields
  <2>1. firstSetter(f)' = Layers[3]
    BY <1>2, <1>4, <1>5, <1>6, <1>9
  <2> QED BY <1>4, <1>9, <2>1 DEF layerOf
<1>10. CASE f \notin setup.clusterFlags \cup setup.flags \cup FileFields /\ f \in Given
  <2>1. firstSetter(f)' = Layers[4]
    BY <1>2, <1>4, <1>5, <1>6, <1>10
  <2> QED BY <1>4, <1>10, <2>1 DEF layerOf
<1>11. CASE f \notin setup.clusterFlags \cup setup.flags \cup FileFields \cup Given /\ f \in BuiltIn
  <2>1. firstSetter(f)' = Layers[5]
    BY <1>2, <1>4, <1>5, <1>6, <1>11
  <2> QED BY <1>4, <1>11, <2>1 DEF layerOf
<1>12. CASE f \notin setup.clusterFlags \cup setup.flags \cup FileFields \cup Given \cup BuiltIn /\ f \in OcneFields
  <2>1. firstSetter(f)' = Layers[6]
    BY <1>2, <1>4, <1>5, <1>6, <1>12
  <2> QED BY <1>4, <1>12, <2>1 DEF layerOf
<1>13. CASE f \notin setup.clusterFlags \cup setup.flags \cup FileFields \cup Given \cup BuiltIn \cup OcneFields
  <2>1. \A i \in 1..6 : ~s[Layers[i]]
    BY <1>2, <1>4, <1>5, <1>13
  <2> QED BY <1>3, <1>13, <2>1 DEF layerOf
<1> QED BY <1>7, <1>8, <1>9, <1>10, <1>11, <1>12, <1>13

\* The Config of a start, without the fields that the ClusterConfig has too.
startsWith(c) == \A f \in OfConfig \ {Preserve} : setterIn(c, f) = layerOf(f)

LEMMA StartConfigLayers ==
    ASSUME ConfigurationAssumption, setup \in Setups, NEW c, startConfig(c)
    PROVE  startsWith(c)
<1> SUFFICES ASSUME NEW f \in OfConfig \ {Preserve} PROVE setterIn(c, f) = layerOf(f)
  BY DEF startsWith
<1>1. f \in Carried /\ f \notin Shared \cup OfClusterConfig
  BY SharedCarried, ConfigsApart
<1>2. f \notin setup.clusterFlags /\ f \notin FileFields /\ f \notin OcneFields
  <2>1. setup.clusterFlags \subseteq ClusterFlags /\ (setup.file = None \/ setup.file \subseteq Shared \cup OfClusterConfig)
    BY DEF ConfigurationAssumption
  <2>2. <<"WorkingDirectory">> \in OfClusterConfig /\ OcneFields \subseteq OfClusterConfig
    BY DEF OfClusterConfig, own, OcneFields, Name, Provider
  <2> QED BY <1>1, <2>1, <2>2, FlagsApart DEF FileFields
<1>3. f \in DOMAIN c.set <=> f \in BuiltIn \cup Given \cup setup.flags
  BY <1>1 DEF startConfig
<1>4. f \in DOMAIN c.set => c.set[f].by = IF f \in setup.flags THEN "flags" ELSE IF f \in Given THEN "defaults" ELSE "builtIn"
  <2>1. PICK l : l = IF f \in setup.flags THEN "flags" ELSE IF f \in Given THEN "defaults" ELSE "builtIn"
    OBVIOUS
  <2>2. f \in DOMAIN c.set => c.set[f] = named(l, f)
    BY <2>1 DEF startConfig
  <2>3. named(l, f).by = l
    BY DEF named
  <2> QED BY <2>1, <2>2, <2>3
<1> QED BY <1>2, <1>3, <1>4 DEF layerOf, setterIn

LEMMA StartEnds ==
    ASSUME ConfigurationAssumption, setup \in Setups, setup' = setup,
           NEW c, NEW cc, startClusterConfig(cc), hasCluster(cc),
           providerOf(cc) = "libvirt" => c.set[Image] = cc.set[Image], startsWith(c),
           NEW ok, setup.defaults = setup.laterDefaults => ok,
           ends("start", c, cc, NoConfig, ok)
    PROVE  LastInv'
<1>1. last' = [cmd |-> "start", c |-> c, cc |-> cc, given |-> defaults, cached |-> NoConfig, ok |-> ok]
  BY DEF ends
<1>2. last'.cmd = "start" /\ last'.c = c /\ last'.cc = cc /\ last'.given = defaults /\ last'.cached = NoConfig /\ last'.ok = ok
  BY <1>1
<1>3. /\ \A f : ~(f \in setup.flags /\ f \in FileFields) => firstSetter(f)' = layerOf(f)
      /\ \A f : overruled(f)' <=> f \in setup.flags /\ f \in FileFields
  BY <1>2, FirstSetterNow, OverruledNow
<1>4. \A l, f : text(l, f)' = text(l, f)
  BY SameText
<1>5. LayersInOrder'
  <2>1. ASSUME NEW f \in Shared \cup OfClusterConfig
        PROVE  setterIn(cc, f) = layerOf(f)
    BY DEF startClusterConfig, setterIn
  <2>2. ASSUME NEW f \in Shared, f \in Bools
        PROVE  cc.is[f] = IF layerOf(f) = None THEN isDefaultTrue(f) ELSE text(layerOf(f), f) = "true"
    BY <2>2 DEF startClusterConfig
  <2>3. ASSUME NEW f \in OfClusterConfig PROVE f \notin Bools
    BY ConfigsApart DEF Bools
  <2>4. ASSUME NEW f \in Shared \cup OfClusterConfig
        PROVE  (IF overruled(f) THEN setterIn(last.cc, f) \in {"file", "flags"}
                ELSE /\ setterIn(last.cc, f) = firstSetter(f)
                     /\ f \in Bools => last.cc.is[f] = IF firstSetter(f) = None THEN isDefaultTrue(f)
                                                       ELSE text(firstSetter(f), f) = "true")'
    <3>1. PICK l : l = layerOf(f)
      OBVIOUS
    <3>2. setterIn(last.cc, f)' = l
      BY <1>2, <2>1, <3>1 DEF setterIn
    <3>3. CASE overruled(f)'
      <4>1. f \notin setup.clusterFlags
        <5>1. setup.flags \subseteq ConfigFlags /\ setup.clusterFlags \subseteq ClusterFlags
          BY DEF ConfigurationAssumption
        <5>2. ConfigFlags \cap ClusterFlags = {}
          BY OptionsApart
        <5> QED BY <1>3, <3>3, <5>1, <5>2
      <4>2. l = "file"
        BY <1>3, <3>1, <3>3, <4>1 DEF layerOf
      <4> QED BY <3>2, <3>3, <4>2
    <3>4. CASE ~overruled(f)'
      <4>1. firstSetter(f)' = l /\ text(l, f)' = text(l, f)
        BY <1>3, <1>4, <3>1, <3>4
      <4>2. f \in Bools => cc.is[f] = IF l = None THEN isDefaultTrue(f) ELSE text(l, f) = "true"
        BY <2>2, <2>3, <3>1
      <4> QED BY <1>2, <3>2, <3>4, <4>1, <4>2
    <3> QED BY <3>3, <3>4
  <2>5. ASSUME NEW f \in OfConfig \ {Preserve} PROVE (setterIn(last.c, f) = firstSetter(f))'
    <3>1. setterIn(c, f) = layerOf(f)
      BY DEF startsWith
    <3>2. f \notin FileFields
      <4>1. setup.file = None \/ setup.file \subseteq Shared \cup OfClusterConfig
        BY DEF ConfigurationAssumption
      <4>2. <<"WorkingDirectory">> \in OfClusterConfig
        BY DEF OfClusterConfig, own
      <4> QED BY <4>1, <4>2, ConfigsApart DEF FileFields
    <3> QED BY <1>2, <1>3, <3>1, <3>2 DEF setterIn
  <2> QED BY <2>4, <2>5 DEF LayersInOrder
<1>6. LastFields'
  BY <1>2 DEF LastFields, hasCluster, Needed
<1>7. CachedWins'
  BY <1>2 DEF CachedWins
<1>8. ImageFollowsVersion'
  BY <1>2 DEF ImageFollowsVersion, startClusterConfig, versionOf, providerOf
<1>9. RestartAccepted'
  BY <1>2 DEF RestartAccepted
<1> QED BY <1>5, <1>6, <1>7, <1>8, <1>9 DEF LastInv

\* A stage or a delete.
LEMMA OtherEnds ==
    ASSUME NEW cmd, cmd # "start", NEW c, NEW cc, hasCluster(cc), NEW d,
           d # NoConfig => /\ \A f \in DOMAIN d.set : cc.set[f].by = d.set[f].by
                           /\ \A f \in Bools \cap DOMAIN d.set : cc.is[f] = d.is[f],
           ends(cmd, c, cc, d, TRUE)
    PROVE  LastInv'
<1>1. last' = [cmd |-> cmd, c |-> c, cc |-> cc, given |-> defaults, cached |-> d, ok |-> TRUE]
  BY DEF ends
<1>2. last'.cmd = cmd /\ last'.cc = cc /\ last'.cached = d
  BY <1>1
<1>3. LastFields'
  BY <1>2 DEF LastFields, hasCluster, Needed
<1>4. CachedWins'
  BY <1>2 DEF CachedWins
<1> QED BY <1>2, <1>3, <1>4 DEF LastInv, LayersInOrder, ImageFollowsVersion, RestartAccepted

-----------------------------------------------------------------------------
(* The cache and the hypervisors                                            *)

LEMMA SameStart == ASSUME setup' = setup, defaults' = defaults PROVE startFull' = startFull
<1>1. \A l, f : text(l, f)' = text(l, f)
  BY SameText
<1>2. \A l, F : layer(l, F)' = layer(l, F)
  <2> SUFFICES ASSUME NEW l, NEW F PROVE layer(l, F)' = layer(l, F)
    OBVIOUS
  <2>1. [f \in F |-> [by |-> l, text |-> text(l, f)]]' = [f \in F |-> [by |-> l, text |-> text(l, f)]]
    BY <1>1
  <2> QED BY <2>1 DEF layer
<1>3. flagConfig' = flagConfig /\ flagClusterConfig' = flagClusterConfig
  BY <1>2 DEF flagConfig, flagClusterConfig
<1>4. GetDefaultConfig' = GetDefaultConfig
  BY <1>2 DEF GetDefaultConfig
<1>5. ParseClusterConfigFile' = ParseClusterConfigFile
  BY <1>2 DEF ParseClusterConfigFile
<1>6. \A c, cc, b : GetFullConfig(c, cc, b)' = GetFullConfig(c, cc, b)
  BY <1>4, <1>5 DEF GetFullConfig
<1> QED BY <1>3, <1>6 DEF startFull

\* The layer that names the hypervisor if the defaults file does not come
\* and go with it.
steadyLayer ==
    IF SessionURI \in FileFields THEN "file"
    ELSE IF SessionURI \in setup.flags THEN "flags"
    ELSE IF setup.defaults # None /\ SessionURI \in setup.defaults THEN "defaults" ELSE "builtIn"

isSteady(cc) == sessionIsSteady => cc.set[SessionURI].by = steadyLayer
saysWhatItIs(cc) == \A f \in Bools \cap DOMAIN cc.set : cc.is[f] = (cc.set[f].text = "true")

LEMMA Steady ==
    ASSUME ConfigurationAssumption, setup \in Setups, defaults \in {setup.defaults, setup.laterDefaults},
           NEW cc, startClusterConfig(cc), hasCluster(cc)
    PROVE  isSteady(cc) /\ saysWhatItIs(cc)
<1>1. cc.set[SessionURI].by = layerOf(SessionURI)
  BY SessionShared DEF startClusterConfig, hasCluster, Needed
<1>2. SessionURI \notin setup.clusterFlags
  <2>1. setup.clusterFlags \subseteq ClusterFlags
    BY DEF ConfigurationAssumption
  <2> QED BY <2>1, Apart DEF ClusterFlags, Name, Provider, KubeVersion
<1>3. sessionIsSteady => (SessionURI \in Given <=> setup.defaults # None /\ SessionURI \in setup.defaults)
  BY DEF sessionIsSteady, Given
<1>4. sessionIsSteady => layerOf(SessionURI) = steadyLayer
  BY <1>2, <1>3, SessionShared DEF layerOf, steadyLayer
<1> QED BY <1>1, <1>4 DEF isSteady, startClusterConfig, saysWhatItIs

\* A cache K and clusters R that belong together.
keptAs(n, cc, R) ==
    /\ hasCluster(cc) /\ nameOf(cc) = n /\ <<n, placeOf(cc)>> \in R
    /\ isSteady(cc) /\ (n # Eph => saysWhatItIs(cc))
kept(K, R) ==
    /\ K = [n \in ClusterNames |-> K[n]]
    /\ \A n \in ClusterNames : K[n] # NoConfig => keptAs(n, K[n], R)
found(K, R) ==
    setup.careful /\ sessionIsSteady =>
        \A r \in R : /\ r = <<r[1], r[2]>> /\ r[1] \in ClusterNames
                     /\ K[r[1]] # NoConfig /\ placeOf(K[r[1]]) = r[2]

LEMMA ConfigCreated ==
    ASSUME kept(cache, runs), found(cache, runs),
           NEW c, isConfig(c), NEW cc, hasCluster(cc), nameOf(cc) \in ClusterNames,
           isSteady(cc), nameOf(cc) # Eph => saysWhatItIs(cc),
           NEW r, r = create(c, cc)
    PROVE  /\ kept(r.cache, r.runs) /\ found(r.cache, r.runs)
           /\ \A n \in ClusterNames : r.cache[n] = cache[n] \/ (n = nameOf(cc) /\ r.cache[n] = cc)
<1>1. PICK n, p : n = nameOf(cc) /\ p = placeOf(cc)
  OBVIOUS
<1>2. place(c, cc) = p
  BY <1>1, Place
<1>3. CASE ~sameCluster(cc)
  <2>1. r.runs = runs /\ r.cache = cache
    BY <1>3 DEF create
  <2> QED BY <2>1
<1>4. CASE sameCluster(cc) /\ <<n, p>> \in runs
  <2>1. r.runs = runs \cup {<<n, p>>} /\ r.cache = cache
    BY <1>1, <1>2, <1>4 DEF create
  <2>2. r.runs = runs
    BY <1>4, <2>1
  <2> QED BY <2>1, <2>2
<1>5. CASE sameCluster(cc) /\ <<n, p>> \notin runs /\ cache[n] = NoConfig
  <2>1. r.runs = runs \cup {<<n, p>>} /\ r.cache = [cache EXCEPT ![n] = cc]
    BY <1>1, <1>2, <1>5 DEF create
  <2>2. PICK K, R : K = r.cache /\ R = r.runs
    OBVIOUS
  <2>3. /\ cache = [m \in ClusterNames |-> cache[m]] /\ n \in ClusterNames
        /\ \A m \in ClusterNames : cache[m] # NoConfig => keptAs(m, cache[m], runs)
    BY <1>1 DEF kept
  <2>4. K = [m \in ClusterNames |-> K[m]] /\ K[n] = cc /\ \A m \in ClusterNames : m # n => K[m] = cache[m]
    BY <2>1, <2>2, <2>3
  <2>5. ASSUME NEW m \in ClusterNames, K[m] # NoConfig PROVE keptAs(m, K[m], R)
    <3>1. CASE m = n
      BY <1>1, <2>1, <2>2, <2>4, <3>1 DEF keptAs
    <3>2. CASE m # n
      BY <2>1, <2>2, <2>3, <2>4, <2>5, <3>2 DEF keptAs
    <3> QED BY <3>1, <3>2
  <2>6. ASSUME setup.careful /\ sessionIsSteady, NEW s \in R
        PROVE  s = <<s[1], s[2]>> /\ s[1] \in ClusterNames /\ K[s[1]] # NoConfig /\ placeOf(K[s[1]]) = s[2]
    <3>1. CASE s = <<n, p>>
      BY <1>1, <2>3, <2>4, <3>1, SomeCluster
    <3>2. CASE s \in runs
      <4>1. s = <<s[1], s[2]>> /\ s[1] \in ClusterNames /\ cache[s[1]] # NoConfig /\ placeOf(cache[s[1]]) = s[2]
        BY <2>6, <3>2 DEF found
      <4>2. s[1] # n
        BY <1>5, <4>1
      <4> QED BY <2>4, <4>1, <4>2
    <3> QED BY <2>1, <2>2, <3>1, <3>2
  <2>7. kept(K, R) /\ found(K, R)
    BY <2>4, <2>5, <2>6 DEF kept, found
  <2> QED BY <1>1, <2>2, <2>4, <2>7
<1>6. CASE sameCluster(cc) /\ <<n, p>> \notin runs /\ cache[n] # NoConfig
  <2>1. r.runs = runs \cup {<<n, p>>} /\ r.cache = cache
    BY <1>1, <1>2, <1>6 DEF create
  <2>2. keptAs(n, cache[n], runs)
    BY <1>1, <1>6 DEF kept
  <2>3. providerOf(cache[n]) = providerOf(cc)
    BY <1>1, <1>6 DEF sameCluster
  <2>4. ~sessionIsSteady
    <3> SUFFICES ASSUME sessionIsSteady PROVE FALSE
      OBVIOUS
    <3>1. cache[n].set[SessionURI].by = cc.set[SessionURI].by
      BY <2>2 DEF keptAs, isSteady
    <3>2. placeOf(cache[n]) = p
      BY <1>1, <2>3, <3>1 DEF placeOf
    <3> QED BY <1>6, <2>2, <3>2 DEF keptAs
  <2>5. kept(cache, r.runs) /\ found(cache, r.runs)
    BY <2>1, <2>4 DEF kept, found, keptAs
  <2> QED BY <2>1, <2>5
<1> QED BY <1>3, <1>4, <1>5, <1>6

LEMMA Removed ==
    ASSUME NEW K, NEW R, kept(K, R), found(K, R), NEW n \in ClusterNames, NEW p,
           setup.careful /\ K[n] # NoConfig => placeOf(K[n]) = p
    PROVE  kept([K EXCEPT ![n] = NoConfig], R \ {<<n, p>>}) /\ found([K EXCEPT ![n] = NoConfig], R \ {<<n, p>>})
<1>1. PICK L, S : L = [K EXCEPT ![n] = NoConfig] /\ S = R \ {<<n, p>>}
  OBVIOUS
<1>2. K = [m \in ClusterNames |-> K[m]] /\ \A m \in ClusterNames : K[m] # NoConfig => keptAs(m, K[m], R)
  BY DEF kept
<1>3. L = [m \in ClusterNames |-> L[m]] /\ L[n] = NoConfig /\ \A m \in ClusterNames : m # n => L[m] = K[m]
  BY <1>1, <1>2
<1>4. ASSUME NEW m \in ClusterNames, L[m] # NoConfig PROVE keptAs(m, L[m], S)
  <2>1. m # n /\ L[m] = K[m] /\ keptAs(m, K[m], R)
    BY <1>2, <1>3, <1>4
  <2>2. <<m, placeOf(K[m])>> # <<n, p>>
    BY <2>1
  <2> QED BY <1>1, <2>1, <2>2 DEF keptAs
<1>5. ASSUME setup.careful /\ sessionIsSteady, NEW r \in S
      PROVE  r = <<r[1], r[2]>> /\ r[1] \in ClusterNames /\ L[r[1]] # NoConfig /\ placeOf(L[r[1]]) = r[2]
  <2>1. r = <<r[1], r[2]>> /\ r[1] \in ClusterNames /\ K[r[1]] # NoConfig /\ placeOf(K[r[1]]) = r[2]
    BY <1>1, <1>5 DEF found
  <2>2. r # <<n, p>>
    BY <1>1
  <2>3. r[1] # n
    BY <1>5, <2>1, <2>2
  <2> QED BY <1>3, <2>1, <2>3
<1>6. kept(L, S) /\ found(L, S)
  BY <1>3, <1>4, <1>5 DEF kept, found
<1> QED BY <1>1, <1>6

-----------------------------------------------------------------------------
(* The invariant                                                            *)

same(K) ==
    setup.defaults = setup.laterDefaults =>
        \A n \in ClusterNames \ {Eph} : K[n] # NoConfig => K[n] = startFull.cc

using ==
    /\ open # NoRun => /\ open = startFull /\ providerOf(open.cc) # "libvirt"
                       /\ eph # NoRun /\ cache[Eph] \in {NoConfig, eph.cc}
    /\ open = NoRun => cache[Eph] = NoConfig
    /\ eph # NoRun => forced(eph.cc)

Inv ==
    /\ setup \in Setups /\ defaults \in {setup.defaults, setup.laterDefaults}
    /\ kept(cache, runs) /\ found(cache, runs)
    /\ same(cache) /\ using
    /\ LastInv

LEMMA InitInv == ASSUME ConfigurationAssumption, ConfigInit PROVE Inv
<1>1. \A n \in ClusterNames : cache[n] = NoConfig
  BY DEF ConfigInit
<1>2. kept(cache, runs) /\ found(cache, runs) /\ same(cache)
  BY <1>1 DEF ConfigInit, kept, found, same
<1>3. using
  BY <1>1 DEF ConfigInit, using, ClusterNames, Eph
<1>4. LastInv
  BY DEF ConfigInit, NoCommand, LastInv, LastFields, LayersInOrder, CachedWins, ImageFollowsVersion, RestartAccepted
<1> QED BY <1>2, <1>3, <1>4 DEF ConfigInit, Inv

LEMMA SameWorld ==
    ASSUME setup' = setup
    PROVE  \A K, R : (kept(K, R) <=> kept(K, R)') /\ (found(K, R) <=> found(K, R)')
<1>1. steadyLayer' = steadyLayer /\ sessionIsSteady' = sessionIsSteady
  BY DEF steadyLayer, sessionIsSteady, FileFields
<1>2. \A cc : isSteady(cc)' <=> isSteady(cc)
  BY <1>1 DEF isSteady
<1>3. \A n, cc, R : keptAs(n, cc, R)' <=> keptAs(n, cc, R)
  BY <1>2 DEF keptAs
<1>4. \A K, R : kept(K, R) <=> kept(K, R)'
  BY <1>3 DEF kept
<1>5. \A K, R : found(K, R) <=> found(K, R)'
  BY <1>1 DEF found
<1> QED BY <1>4, <1>5

LEMMA StartCluster ==
    ASSUME ConfigurationAssumption, Inv
    PROVE  /\ startConfig(startFull.c) /\ startClusterConfig(startFull.cc)
           /\ hasCluster(startFull.cc) /\ isConfig(startFull.c)
           /\ {Image, KubeVersion, OsTag, SessionURI} \subseteq DOMAIN startFull.c.set
           /\ isSteady(startFull.cc) /\ saysWhatItIs(startFull.cc)
           /\ nameOf(startFull.cc) \in ClusterNames \ {Eph}
<1>1. startConfig(startFull.c) /\ startClusterConfig(startFull.cc)
  BY StartFull DEF Inv
<1>2. PICK c, cc : c = startFull.c /\ cc = startFull.cc
  OBVIOUS
<1>3. isConfig(c) /\ isConfig(cc) /\ nameOf(cc) \in {"ocne", "file", "clusterFlags"}
  BY <1>1, <1>2 DEF startConfig, startClusterConfig
<1>4. Needed \subseteq DOMAIN cc.set /\ {Image, KubeVersion, OsTag, SessionURI} \subseteq DOMAIN c.set
  BY <1>1, <1>2, StartHas
<1>5. hasCluster(cc)
  BY <1>3, <1>4 DEF hasCluster
<1>6. isSteady(cc) /\ saysWhatItIs(cc)
  BY <1>1, <1>2, <1>5, Steady DEF Inv
<1> QED BY <1>1, <1>2, <1>3, <1>4, <1>5, <1>6 DEF ClusterNames, Eph

\* Started again.
LEMMA Again ==
    ASSUME ConfigurationAssumption, Inv, setup.defaults = setup.laterDefaults, NEW c, isConfig(c)
    PROVE  sameCluster(startFull.cc) /\ create(c, startFull.cc).ok
<1>1. PICK cc, n : cc = startFull.cc /\ n = nameOf(cc)
  OBVIOUS
<1>2. hasCluster(cc) /\ n \in ClusterNames \ {Eph}
  BY <1>1, StartCluster
<1>3. place(c, cc) = placeOf(cc)
  BY <1>2, Place
<1>4. cache[n] = NoConfig \/ cache[n] = cc
  BY <1>1, <1>2 DEF Inv, same
<1>5. sameCluster(cc)
  BY <1>1, <1>4 DEF sameCluster
<1>6. cache[n] # NoConfig => <<n, placeOf(cc)>> \in runs
  BY <1>2, <1>4 DEF Inv, kept, keptAs
<1>7. create(c, cc).ok
  BY <1>1, <1>3, <1>5, <1>6 DEF create
<1> QED BY <1>1, <1>5, <1>7

LEMMA StartInv == ASSUME ConfigurationAssumption, Inv, Start PROVE Inv'
<1>1. PICK full, c, r : full = startFull /\ c = forLibvirt(full) /\ r = create(c, full.cc)
  OBVIOUS
<1>2. /\ open = NoRun /\ providerOf(full.cc) = "libvirt"
      /\ runs' = r.runs /\ cache' = r.cache
      /\ ends("start", c, full.cc, NoConfig, r.ok)
      /\ defaults' = defaults /\ eph' = eph /\ open' = open /\ setup' = setup
  BY <1>1 DEF Start
<1>3. /\ startClusterConfig(full.cc) /\ hasCluster(full.cc) /\ isConfig(full.c)
      /\ {Image, KubeVersion, OsTag} \subseteq DOMAIN full.c.set
      /\ isSteady(full.cc) /\ saysWhatItIs(full.cc) /\ nameOf(full.cc) \in ClusterNames \ {Eph}
  BY <1>1, StartCluster
<1>4. isConfig(c) /\ c.set[Image] = full.cc.set[Image]
  BY <1>1, <1>2, <1>3, ForLibvirt
<1>5. /\ kept(r.cache, r.runs) /\ found(r.cache, r.runs)
      /\ \A n \in ClusterNames : r.cache[n] = cache[n] \/ (n = nameOf(full.cc) /\ r.cache[n] = full.cc)
  BY <1>1, <1>3, <1>4, ConfigCreated DEF Inv
<1>6. (kept(cache, runs) /\ found(cache, runs))'
  BY <1>2, <1>5, SameWorld
<1>7. startFull' = startFull
  BY <1>2, SameStart
<1>8. same(cache)'
  BY <1>1, <1>2, <1>5, <1>7 DEF Inv, same
<1>9. using'
  <2>1. cache'[Eph] = NoConfig
    BY <1>2, <1>3, <1>5 DEF Inv, using, ClusterNames, Eph
  <2> QED BY <1>2, <2>1 DEF Inv, using
<1>10. setup.defaults = setup.laterDefaults => r.ok
  BY <1>1, <1>4, Again
<1>11. startsWith(c)
  <2>1. startsWith(full.c)
    BY <1>1, StartCluster, StartConfigLayers DEF Inv
  <2>2. \A f \in OfConfig : setterIn(c, f) = setterIn(full.c, f)
    <3>1. OfConfig \cap {Image, KubeVersion, OsTag} = {}
      BY ConfigsApart, PlainFields
    <3> QED BY <1>1, <1>3, <3>1, ForLibvirt
  <2> QED BY <2>1, <2>2 DEF startsWith
<1>12. LastInv'
  BY <1>2, <1>3, <1>4, <1>10, <1>11, StartEnds DEF Inv
<1> QED BY <1>2, <1>6, <1>8, <1>9, <1>12 DEF Inv

LEMMA EnsureInv == ASSUME ConfigurationAssumption, Inv, EnsureCluster PROVE Inv'
<1>1. PICK full, e, r : full = startFull /\ e = ephemeral(full.c, full.cc) /\ r = create(e.c, e.cc)
  OBVIOUS
<1>2. /\ open = NoRun /\ providerOf(full.cc) # "libvirt"
      /\ defaults' = defaults /\ setup' = setup
      /\ IF sameCluster(full.cc)
         THEN runs' = r.runs /\ cache' = r.cache /\ eph' = e /\ open' = full /\ last' = last
         ELSE /\ ends("start", full.c, full.cc, NoConfig, FALSE)
              /\ runs' = runs /\ cache' = cache /\ eph' = eph /\ open' = open
  BY <1>1 DEF EnsureCluster
<1>3. /\ startConfig(full.c) /\ startClusterConfig(full.cc) /\ hasCluster(full.cc) /\ isConfig(full.c)
      /\ isSteady(full.cc)
  BY <1>1, StartCluster
<1>4. startFull' = startFull
  BY <1>2, SameStart
<1>5. CASE ~sameCluster(full.cc)
  <2>1. (kept(cache, runs) /\ found(cache, runs))'
    BY <1>2, <1>5, SameWorld DEF Inv
  <2>2. same(cache)' /\ using'
    BY <1>2, <1>4, <1>5 DEF Inv, same, using
  <2>3. setup.defaults # setup.laterDefaults
    BY <1>1, <1>3, <1>5, Again
  <2>4. PICK no : no = FALSE
    OBVIOUS
  <2>5. ends("start", full.c, full.cc, NoConfig, no) /\ (setup.defaults = setup.laterDefaults => no)
    BY <1>2, <1>5, <2>3, <2>4
  <2>6. LastInv'
    BY <1>2, <1>3, <2>5, StartEnds, StartConfigLayers DEF Inv
  <2> QED BY <1>2, <2>1, <2>2, <2>6 DEF Inv
<1>6. CASE sameCluster(full.cc)
  <2>1. forced(e.cc) /\ e.cc.set[SessionURI].by = full.cc.set[SessionURI].by /\ isConfig(e.c)
    BY <1>1, <1>3, EphemeralCluster, EphemeralConfig DEF Inv
  <2>2. hasCluster(e.cc) /\ nameOf(e.cc) = Eph /\ isSteady(e.cc) /\ Eph \in ClusterNames
    BY <1>3, <2>1 DEF forced, isSteady, ClusterNames, Eph
  <2>3. /\ kept(r.cache, r.runs) /\ found(r.cache, r.runs)
        /\ \A n \in ClusterNames : r.cache[n] = cache[n] \/ (n = nameOf(e.cc) /\ r.cache[n] = e.cc)
    BY <1>1, <2>1, <2>2, ConfigCreated DEF Inv
  <2>4. (kept(cache, runs) /\ found(cache, runs))'
    BY <1>2, <1>6, <2>3, SameWorld
  <2>5. same(cache)'
    BY <1>2, <1>4, <1>6, <2>2, <2>3 DEF Inv, same
  <2>6. e # NoRun /\ full # NoRun
    BY <1>3, <2>2, EmptyConfig DEF NoRun, hasCluster, Needed
  <2>7. cache'[Eph] \in {NoConfig, e.cc}
    BY <1>2, <1>6, <2>2, <2>3 DEF Inv, using
  <2>8. using'
    BY <1>1, <1>2, <1>4, <1>6, <2>1, <2>6, <2>7 DEF using
  <2>9. LastInv'
    BY <1>2, <1>6, LastStays DEF Inv
  <2> QED BY <1>2, <2>4, <2>5, <2>8, <2>9 DEF Inv
<1> QED BY <1>5, <1>6

LEMMA StopInv == ASSUME ConfigurationAssumption, Inv, StopEphemeralCluster PROVE Inv'
<1>1. PICK c, cc, r : c = open.c /\ cc = open.cc /\ r = create(c, cc)
  OBVIOUS
<1>2. open # NoRun /\ open = startFull /\ c = startFull.c /\ cc = startFull.cc
      /\ providerOf(cc) # "libvirt" /\ cache[Eph] \in {NoConfig, eph.cc} /\ forced(eph.cc)
  BY <1>1 DEF StopEphemeralCluster, Inv, using
<1>3. /\ startConfig(c) /\ startClusterConfig(cc) /\ hasCluster(cc) /\ isConfig(c)
      /\ isSteady(cc) /\ saysWhatItIs(cc) /\ nameOf(cc) \in ClusterNames \ {Eph}
  BY <1>2, StartCluster
<1>4. Preserve \notin DOMAIN open.c.set
  BY <1>1, <1>3, SharedCarried DEF startConfig
<1>5. hasCluster(eph.cc) /\ isConfig(open.c)
  BY <1>1, <1>2, <1>3 DEF forced
<1>6. PICK p : p = placeOf(eph.cc)
  OBVIOUS
<1>7. place(open.c, eph.cc) = p
  BY <1>5, <1>6, Place
<1>8. /\ runs' = r.runs \ {<<Eph, p>>} /\ cache' = [r.cache EXCEPT ![Eph] = NoConfig]
      /\ eph' = NoRun /\ open' = NoRun
      /\ ends("start", c, cc, NoConfig, r.ok)
      /\ defaults' = defaults /\ setup' = setup
  BY <1>1, <1>4, <1>7 DEF StopEphemeralCluster, Eph
<1>9. /\ kept(r.cache, r.runs) /\ found(r.cache, r.runs)
      /\ \A n \in ClusterNames : r.cache[n] = cache[n] \/ (n = nameOf(cc) /\ r.cache[n] = cc)
  BY <1>1, <1>3, ConfigCreated DEF Inv
<1>10. Eph \in ClusterNames
  BY DEF Eph, ClusterNames
<1>11. r.cache[Eph] # NoConfig => placeOf(r.cache[Eph]) = p
  BY <1>2, <1>3, <1>6, <1>9, <1>10
<1>12. kept(cache', runs') /\ found(cache', runs')
  BY <1>8, <1>9, <1>10, <1>11, Removed
<1>13. (kept(cache, runs) /\ found(cache, runs))'
  BY <1>8, <1>12, SameWorld
<1>14. \A n \in ClusterNames : cache'[n] = IF n = Eph THEN NoConfig ELSE r.cache[n]
  BY <1>8, <1>9 DEF kept
<1>15. startFull' = startFull
  BY <1>8, SameStart
<1>16. same(cache)'
  BY <1>2, <1>8, <1>9, <1>14, <1>15 DEF Inv, same
<1>17. using'
  BY <1>8, <1>10, <1>14 DEF using
<1>18. setup.defaults = setup.laterDefaults => r.ok
  BY <1>1, <1>2, <1>3, Again
<1>19. LastInv'
  BY <1>2, <1>3, <1>8, <1>18, StartEnds, StartConfigLayers DEF Inv
<1> QED BY <1>8, <1>13, <1>16, <1>17, <1>19 DEF Inv

LEMMA StageInv == ASSUME ConfigurationAssumption, Inv, NEW n \in ClusterNames, Stage(n) PROVE Inv'
<1>1. PICK d, full, m : /\ d = cache[n] /\ full = GetFullConfig(Empty, d, FALSE)
                        /\ m = [full.cc EXCEPT !.set[Image] = EnsureBootImageVersion("1.32", @)]
  OBVIOUS
<1>2. /\ open = NoRun /\ d # NoConfig /\ ends("stage", full.c, m, d, TRUE)
      /\ defaults' = defaults /\ cache' = cache /\ runs' = runs /\ eph' = eph /\ open' = open /\ setup' = setup
  BY <1>1 DEF Stage
<1>3. n # Eph /\ hasCluster(d) /\ saysWhatItIs(d)
  BY <1>1, <1>2 DEF Inv, using, kept, keptAs
<1>4. sameCached(full.cc, d)
  BY <1>1, <1>3, CachedFull
<1>5. isConfig(full.cc) /\ Needed \subseteq DOMAIN full.cc.set /\ Image \in DOMAIN full.cc.set
  BY <1>4 DEF sameCached, hasCluster, Needed
<1>6. sameBut(m, full.cc, {Image})
  BY <1>1, <1>5, BootImage
<1>7. hasCluster(m)
  BY <1>5, <1>6 DEF sameBut, hasCluster
<1>8. \A f \in DOMAIN d.set : m.set[f].by = d.set[f].by
  BY <1>4, <1>6 DEF sameBut, sameCached
<1>9. \A f \in Bools \cap DOMAIN d.set : m.is[f] = d.is[f]
  BY <1>3, <1>4, <1>6 DEF sameBut, sameCached, saysWhatItIs
<1>10. LastInv'
  BY <1>2, <1>7, <1>8, <1>9, OtherEnds
<1>11. (kept(cache, runs) /\ found(cache, runs))'
  BY <1>2, SameWorld DEF Inv
<1>12. startFull' = startFull
  BY <1>2, SameStart
<1>13. same(cache)' /\ using'
  BY <1>2, <1>12 DEF Inv, same, using
<1> QED BY <1>2, <1>10, <1>11, <1>13 DEF Inv

LEMMA DeleteInv ==
    ASSUME ConfigurationAssumption, Inv, NEW n \in (ClusterNames \ {Eph}) \cup {None}, DeleteCluster(n)
    PROVE  Inv'
<1>1. PICK d, cli : /\ d = IF n = None THEN NoConfig ELSE cache[n]
                    /\ cli = IF n = None THEN Empty ELSE with(Empty, Name, n, "")
  OBVIOUS
<1>2. PICK full : full = GetFullConfig(Empty, IF d = NoConfig THEN cli ELSE d, FALSE)
  OBVIOUS
<1>3. PICK cc : cc = unnamed(full.cc)
  OBVIOUS
<1>4. /\ open = NoRun /\ (setup.careful => n # None)
      /\ runs' = runs \ {<<nameOf(cc), place(full.c, cc)>>} /\ cache' = [cache EXCEPT ![nameOf(cc)] = NoConfig]
      /\ ends("delete", full.c, cc, d, TRUE)
      /\ defaults' = defaults /\ eph' = eph /\ open' = open /\ setup' = setup
  BY <1>1, <1>2, <1>3 DEF DeleteCluster, unnamed
<1>5. /\ hasCluster(cc) /\ isConfig(full.c) /\ nameOf(cc) \in ClusterNames
      /\ setup.careful /\ cache[nameOf(cc)] # NoConfig => placeOf(cache[nameOf(cc)]) = placeOf(cc)
      /\ d # NoConfig => /\ \A f \in DOMAIN d.set : cc.set[f].by = d.set[f].by
                         /\ \A f \in Bools \cap DOMAIN d.set : cc.is[f] = d.is[f]
  <2>1. CASE d # NoConfig
    <3>1. n \in ClusterNames \ {Eph} /\ d = cache[n]
      BY <1>1, <2>1
    <3>2. hasCluster(d) /\ nameOf(d) = n /\ saysWhatItIs(d)
      BY <2>1, <3>1 DEF Inv, kept, keptAs
    <3>3. isConfig(full.c) /\ sameCached(cc, d)
      BY <1>2, <1>3, <2>1, <3>2, DeletedCached
    <3> QED BY <3>1, <3>2, <3>3 DEF sameCached, saysWhatItIs
  <2>2. CASE d = NoConfig
    <3>1. full = GetFullConfig(Empty, cli, FALSE)
      BY <1>2, <2>2
    <3>2. CASE n = None
      <4>1. cli = Empty
        BY <1>1, <3>2
      <4>2. isConfig(cli) /\ Name \notin DOMAIN cli.set
        BY <4>1, EmptyConfig
      <4>3. isConfig(full.c) /\ hasCluster(cc) /\ nameOf(cc) = "ocne"
        BY <1>3, <3>1, <4>2, DeletedUnknown
      <4> QED BY <1>4, <2>2, <3>2, <4>3 DEF ClusterNames
    <3>3. CASE n # None
      <4>1. PICK e, t : e = Empty /\ t = ""
        OBVIOUS
      <4>2. cli = with(e, Name, n, t) /\ isConfig(e)
        BY <1>1, <3>3, <4>1, EmptyConfig
      <4>3. added(cli, e, Name) /\ cli.set[Name].by = n
        BY <4>2, WithField
      <4>4. isConfig(cli) /\ Name \in DOMAIN cli.set /\ nameOf(cli) = n
        BY <4>3 DEF added, nameOf
      <4>5. isConfig(full.c) /\ hasCluster(cc) /\ nameOf(cc) = n
        BY <1>3, <3>1, <4>4, DeletedUnknown
      <4>6. cache[n] = NoConfig
        BY <1>1, <2>2, <3>3
      <4> QED BY <2>2, <3>3, <4>5, <4>6
    <3> QED BY <3>2, <3>3
  <2> QED BY <2>1, <2>2
<1>6. place(full.c, cc) = placeOf(cc)
  BY <1>5, Place
<1>7. kept(cache', runs') /\ found(cache', runs')
  BY <1>4, <1>5, <1>6, Removed DEF Inv
<1>8. (kept(cache, runs) /\ found(cache, runs))'
  BY <1>4, <1>7, SameWorld
<1>9. \A m \in ClusterNames : cache'[m] \in {NoConfig, cache[m]}
  BY <1>4 DEF Inv, kept
<1>10. startFull' = startFull
  BY <1>4, SameStart
<1>11. same(cache)'
  BY <1>4, <1>9, <1>10 DEF Inv, same
<1>12. Eph \in ClusterNames
  BY DEF Eph, ClusterNames
<1>13. using'
  BY <1>4, <1>9, <1>12 DEF Inv, using
<1>14. LastInv'
  BY <1>4, <1>5, OtherEnds
<1> QED BY <1>4, <1>8, <1>11, <1>13, <1>14 DEF Inv

LEMMA EditInv == ASSUME Inv, EditDefaults PROVE Inv'
<1>1. /\ open = NoRun /\ defaults # setup.laterDefaults /\ defaults' = setup.laterDefaults
      /\ cache' = cache /\ runs' = runs /\ eph' = eph /\ open' = open /\ last' = last /\ setup' = setup
  BY DEF EditDefaults
<1>2. (kept(cache, runs) /\ found(cache, runs))'
  BY <1>1, SameWorld DEF Inv
<1>3. same(cache)'
  BY <1>1 DEF Inv, same
<1>4. using'
  BY <1>1 DEF Inv, using
<1>5. LastInv'
  BY <1>1, LastStays DEF Inv
<1> QED BY <1>1, <1>2, <1>3, <1>4, <1>5 DEF Inv

LEMMA StutterInv == ASSUME Inv, UNCHANGED configVars PROVE Inv'
<1>1. /\ defaults' = defaults /\ cache' = cache /\ runs' = runs /\ eph' = eph /\ open' = open
      /\ last' = last /\ setup' = setup
  BY DEF configVars
<1>2. (kept(cache, runs) /\ found(cache, runs))'
  BY <1>1, SameWorld DEF Inv
<1>3. startFull' = startFull
  BY <1>1, SameStart
<1>4. same(cache)' /\ using'
  BY <1>1, <1>3 DEF Inv, same, using
<1>5. LastInv'
  BY <1>1, LastStays DEF Inv
<1> QED BY <1>1, <1>2, <1>4, <1>5 DEF Inv

LEMMA NextInv == ASSUME ConfigurationAssumption, Inv, [ConfigNext]_configVars PROVE Inv'
<1>1. CASE Start
  BY <1>1, StartInv
<1>2. CASE EnsureCluster
  BY <1>2, EnsureInv
<1>3. CASE StopEphemeralCluster
  BY <1>3, StopInv
<1>4. CASE \E n \in ClusterNames : Stage(n)
  BY <1>4, StageInv
<1>5. CASE \E n \in (ClusterNames \ {Eph}) \cup {None} : DeleteCluster(n)
  BY <1>5, DeleteInv
<1>6. CASE EditDefaults
  BY <1>6, EditInv
<1>7. CASE UNCHANGED configVars
  BY <1>7, StutterInv
<1> QED BY <1>1, <1>2, <1>3, <1>4, <1>5, <1>6, <1>7 DEF ConfigNext, Done, Eph

LEMMA AlwaysInv == ASSUME ConfigurationAssumption PROVE ConfigSpec => []Inv
<1>1. ConfigInit => Inv
  BY InitInv
<1>2. Inv /\ [ConfigNext]_configVars => Inv'
  BY NextInv
<1> QED BY <1>1, <1>2, PTL DEF ConfigSpec

-----------------------------------------------------------------------------
(* The theorems                                                             *)

LEMMA InvFollows == ASSUME ConfigurationAssumption, Inv PROVE ValuesFollow /\ CachedWins /\ FoundAgain
<1>1. LayersInOrder /\ ImageFollowsVersion /\ CachedWins /\ RestartAccepted /\ LastFields
  BY DEF Inv, LastInv
<1>2. \A n \in ClusterNames : cache[n] # NoConfig => hasCluster(cache[n]) /\ place(Empty, cache[n]) = placeOf(cache[n])
  BY EmptyConfig, Place DEF Inv, kept, keptAs
<1>3. ConfigInv
  BY <1>1, <1>2 DEF Inv, kept, keptAs, using, LastFields, ConfigInv
<1>4. open # NoRun => nameOf(open.cc) # Eph
  BY StartCluster DEF Inv, using
<1>5. EphemeralForced
  BY <1>4 DEF Inv, using, forced, EphemeralForced, Eph
<1>6. Tracked
  BY <1>2 DEF Inv, found, Tracked
<1> QED BY <1>1, <1>3, <1>5, <1>6 DEF ValuesFollow, FoundAgain

\* Whatever the layers set, every value that a command or its ephemeral
\* cluster works with is that of the first layer that has it, the image
\* follows the version, and the ephemeral cluster is what it has to be:
\* GetFullConfig, RunCmd of start and StartEphemeralCluster.
THEOREM ValuesAlwaysFollow == ConfigSpec => []ValuesFollow
<1>1. ConfigSpec => []Inv
  BY AlwaysInv, ConfigurationAssumption
<1>2. Inv => ValuesFollow
  BY InvFollows, ConfigurationAssumption
<1> QED BY <1>1, <1>2, PTL

\* A cluster of the cache is staged and deleted with the configuration that
\* it was started with, whatever became of the defaults file.
THEOREM CachedAlwaysWins == ConfigSpec => []CachedWins
<1>1. ConfigSpec => []Inv
  BY AlwaysInv, ConfigurationAssumption
<1>2. Inv => CachedWins
  BY InvFollows, ConfigurationAssumption
<1> QED BY <1>1, <1>2, PTL

\* No cluster is lost: one that runs is in the cache with the hypervisor
\* where it runs, and a start that is repeated is accepted.
THEOREM AlwaysFoundAgain == ConfigSpec => []FoundAgain
<1>1. ConfigSpec => []Inv
  BY AlwaysInv, ConfigurationAssumption
<1>2. Inv => FoundAgain
  BY InvFollows, ConfigurationAssumption
<1> QED BY <1>1, <1>2, PTL
=============================================================================
