---------------------------- MODULE ClusterCache ----------------------------
(***************************************************************************)
(* The cluster cache, ~/.ocne/clusters.yaml, and the commands that use it: *)
(* src/pkg/cluster/cache/cache.go, and the parts of "ocne cluster start",  *)
(* "delete" and "list" that read and write it.  Several ocne processes of  *)
(* one user share the file.  Each read and each write is bracketed by the  *)
(* pid lock, whose errors are ignored; the lock is not held between the    *)
(* read of a command and its write.                                        *)
(*                                                                         *)
(* The driver that creates and deletes the cluster itself is abstracted to *)
(* what the cache depends on: the configuration a cluster was made with,   *)
(* or that it does not exist.                                              *)
(***************************************************************************)
EXTENDS PidLock

CONSTANTS
    Clusters,     \* cluster names
    Configs,      \* provider and Kubernetes version of a cluster
    NoEntry,      \* the name is not in the map; the cluster does not exist
    NoJob,        \* the process runs no command
    NilMap        \* what yaml.Unmarshal makes of an empty file

VARIABLES
    cacheFile,    \* the map in clusters.yaml; NilMap: the file is truncated
    infra,        \* the configuration of each existing cluster
    job,          \* the command line of each process
    phase,        \* how far the process is in its command
    mem,          \* the ClusterCache the process read
    settled,      \* observer: how a cluster's last command ended, if well, alone
    unlisted      \* observer: clusters made by a start that did not get to
                  \* save them, or whose entry was lost with the file

cacheVars == <<cacheFile, infra, job, phase, mem, settled, unlisted>>
vars == <<cacheFile, infra, job, phase, mem, settled, unlisted, pidfile, creator, call, world>>

Maps == [Clusters -> Configs \cup {NoEntry}]
EmptyMap == [c \in Clusters |-> NoEntry]
Jobs == [kind : {"start"}, name : Clusters, config : Configs]
            \cup [kind : {"delete"}, name : Clusters]
            \cup [kind : {"list"}]

ASSUME CacheAssumption ==
    /\ NoEntry \notin Configs
    /\ NoJob \notin Jobs
    /\ NilMap \notin [Clusters -> Configs \cup {NoEntry}]

Phases == {"idle",
           "check", "checked",        \* first GetCache: before and after the read
           "driver", "create",        \* in the driver
           "recheck", "rechecked",    \* second GetCache
           "save", "writing", "saved",
           "failed",                  \* GetCache or Save returns an error
           "dead"}

TypeOK ==
    /\ LockTypeOK
    /\ cacheFile \in Maps \cup {NilMap}
    /\ infra \in Maps
    /\ job \in [Procs -> Jobs \cup {NoJob}]
    /\ phase \in [Procs -> Phases]
    /\ mem \in [Procs -> Maps \cup {NilMap}]
    /\ settled \in [Clusters -> {"no", "started", "found", "deleted"}]
    /\ unlisted \subseteq Clusters

Init ==
    /\ LockInit
    /\ cacheFile = EmptyMap
    /\ infra = EmptyMap
    /\ job = [p \in Procs |-> NoJob]
    /\ phase = [p \in Procs |-> "idle"]
    /\ mem = [p \in Procs |-> EmptyMap]
    /\ settled = [c \in Clusters |-> "no"]
    /\ unlisted = {}

step(p, s) == phase' = [phase EXCEPT ![p] = s]
\* The process ends; what it read is gone with it.
end(p, s) ==
    /\ step(p, s)
    /\ job' = [job EXCEPT ![p] = NoJob]
    /\ mem' = [mem EXCEPT ![p] = EmptyMap]

name(p) == job[p].name
starts(p) == job[p].kind = "start"

-----------------------------------------------------------------------------
(***************************************************************************)
(* A command begins.                                                       *)
(***************************************************************************)

Begin(p, j) ==
    /\ phase[p] = "idle"
    /\ call[p] = "out"
    /\ world.overlap \/ \A q \in Procs : phase[q] \in {"idle", "dead"}
    /\ job' = [job EXCEPT ![p] = j]
    /\ step(p, "check")
    /\ settled' = IF j.kind = "list" THEN settled ELSE [settled EXCEPT ![j.name] = "no"]
    /\ UNCHANGED <<lockVars, cacheFile, infra, mem, unlisted>>

(***************************************************************************)
(* The pid lock, as GetCache and Save call it: whatever WaitFor returned,  *)
(* the file is accessed and Drop is called.                                *)
(***************************************************************************)

holderGone == creator \in Procs => call[creator] \notin {"created", "held", "removing"}

Lock(p) ==
    /\ phase[p] \in {"check", "recheck", "save"}
    /\ \/ WaitFor(p)
       \/ CreateFile(p)
       \/ TimeOut(p) /\ (world.slow \/ holderGone)
       \/ WritePid(p)
    /\ UNCHANGED cacheVars

LockFails(p) ==
    /\ phase[p] \in {"check", "recheck", "save"}
    /\ OpenFails(p)
    /\ UNCHANGED cacheVars

Unlock(p) ==
    /\ phase[p] \in {"checked", "rechecked", "saved", "failed"}
    /\ InDrop(p)
    /\ UNCHANGED cacheVars

mayAccess(p) == call[p] \in {"held", "refused"}

\* os.ReadFile and yaml.Unmarshal in GetCache.
MutantReadCache(p) ==
    /\ phase[p] \in {"check", "recheck"}
    /\ call[p] \in {"out", "held", "refused"}
    /\ mem' = [mem EXCEPT ![p] = cacheFile]
    /\ step(p, IF phase[p] = "check" THEN "checked" ELSE "rechecked")
    /\ UNCHANGED <<lockVars, cacheFile, infra, job, settled, unlisted>>

ReadCache(p) ==
    /\ phase[p] \in {"check", "recheck"}
    /\ mayAccess(p)
    /\ mem' = [mem EXCEPT ![p] = cacheFile]
    /\ step(p, IF phase[p] = "check" THEN "checked" ELSE "rechecked")
    /\ UNCHANGED <<lockVars, cacheFile, infra, job, settled, unlisted>>

-----------------------------------------------------------------------------
(***************************************************************************)
(* The commands between their accesses to the file.                        *)
(***************************************************************************)

entryOf(p) == IF mem[p] = NilMap THEN NoEntry ELSE mem[p][name(p)]

\* The command ends.
Finish(p, how) ==
    /\ end(p, "idle")
    /\ settled' = IF how = "no" \/ world.overlap THEN settled ELSE [settled EXCEPT ![name(p)] = how]
    /\ UNCHANGED <<lockVars, cacheFile, infra, unlisted>>

\* list and show only read.  start refuses a cluster that is cached with
\* another provider or Kubernetes version.
SameCluster(p) == entryOf(p) \in {NoEntry, job[p].config}

Checked(p) ==
    /\ phase[p] = "checked"
    /\ call[p] = "out"
    /\ IF job[p].kind = "list" \/ (starts(p) /\ ~SameCluster(p))
       THEN Finish(p, "no")
       ELSE /\ step(p, "driver")
            /\ UNCHANGED <<lockVars, cacheFile, infra, job, mem, settled, unlisted>>

\* drv.Start of a cluster that runs already: start returns without an error,
\* and adds nothing to the cache, be the cluster listed there or not.
AlreadyRunning(p) ==
    /\ phase[p] = "driver"
    /\ starts(p)
    /\ infra[name(p)] # NoEntry
    /\ Finish(p, "found")

\* drv.Start found no cluster and goes on to create one.
NotRunning(p) ==
    /\ phase[p] = "driver"
    /\ starts(p)
    /\ infra[name(p)] = NoEntry
    /\ step(p, "create")
    /\ UNCHANGED <<lockVars, cacheFile, infra, job, mem, settled, unlisted>>

Created(p) ==
    /\ phase[p] = "create"
    /\ infra[name(p)] = NoEntry
    /\ infra' = [infra EXCEPT ![name(p)] = job[p].config]
    /\ unlisted' = unlisted \cup {name(p)}
    /\ step(p, "recheck")
    /\ UNCHANGED <<lockVars, cacheFile, job, mem, settled>>

\* The creation fails, having made the cluster or not, and start returns.
CreateFails(p) ==
    /\ phase[p] = "create"
    /\ \/ UNCHANGED <<infra, unlisted>>
       \/ /\ infra[name(p)] = NoEntry
          /\ infra' = [infra EXCEPT ![name(p)] = job[p].config]
          /\ unlisted' = unlisted \cup {name(p)}
    /\ end(p, "idle")
    /\ UNCHANGED <<lockVars, cacheFile, settled>>

\* drv.Delete succeeds, or fails before or after the cluster is gone.
Deleted(p) ==
    /\ phase[p] = "driver"
    /\ job[p].kind = "delete"
    /\ infra' = [infra EXCEPT ![name(p)] = NoEntry]
    /\ unlisted' = unlisted \ {name(p)}
    /\ step(p, "recheck")
    /\ UNCHANGED <<lockVars, cacheFile, job, mem, settled>>

DeleteFails(p) ==
    /\ phase[p] = "driver"
    /\ job[p].kind = "delete"
    /\ \/ UNCHANGED <<infra, unlisted>>
       \/ /\ infra' = [infra EXCEPT ![name(p)] = NoEntry]
          /\ unlisted' = unlisted \ {name(p)}
    /\ end(p, "idle")
    /\ UNCHANGED <<lockVars, cacheFile, settled>>

\* ClusterCache.Add: refuses a name that is there; a nil map cannot be
\* assigned to, the process panics.
Add(p) ==
    /\ phase[p] = "rechecked"
    /\ call[p] = "out"
    /\ starts(p)
    /\ mem[p] # NilMap
    /\ entryOf(p) = NoEntry
    /\ mem' = [mem EXCEPT ![p][name(p)] = job[p].config]
    /\ step(p, "save")
    /\ UNCHANGED <<lockVars, cacheFile, infra, job, settled, unlisted>>

AddRefused(p) ==
    /\ phase[p] = "rechecked"
    /\ call[p] = "out"
    /\ starts(p)
    /\ entryOf(p) # NoEntry
    /\ unlisted' = unlisted \ {name(p)}
    /\ end(p, "idle")
    /\ UNCHANGED <<lockVars, cacheFile, infra, settled>>

AddPanics(p) ==
    /\ phase[p] = "rechecked"
    /\ starts(p)
    /\ mem[p] = NilMap
    /\ call[p] = "out"
    /\ Die(p)
    /\ end(p, "dead")
    /\ UNCHANGED <<cacheFile, infra, settled, unlisted>>

\* ClusterCache.Delete: the name need not be there, nor the map.  Saving a
\* nil map writes an empty one.
MutantDelete(p) ==
    /\ phase[p] = "rechecked"
    /\ call[p] = "out"
    /\ job[p].kind = "delete"
    /\ step(p, "save")
    /\ UNCHANGED <<lockVars, cacheFile, infra, job, mem, settled, unlisted>>

Delete(p) ==
    /\ phase[p] = "rechecked"
    /\ call[p] = "out"
    /\ job[p].kind = "delete"
    /\ mem' = [mem EXCEPT ![p] = IF @ = NilMap THEN EmptyMap
                                 ELSE [@ EXCEPT ![name(p)] = NoEntry]]
    /\ step(p, "save")
    /\ UNCHANGED <<lockVars, cacheFile, infra, job, settled, unlisted>>

-----------------------------------------------------------------------------
(***************************************************************************)
(* Save: os.WriteFile truncates the file and then writes it.               *)
(***************************************************************************)

Truncate(p) ==
    /\ phase[p] = "save"
    /\ mayAccess(p)
    /\ cacheFile' = NilMap
    /\ step(p, "writing")
    /\ UNCHANGED <<lockVars, infra, job, mem, settled, unlisted>>

Write(p) ==
    /\ phase[p] = "writing"
    /\ cacheFile' = mem[p]
    /\ unlisted' = unlisted \ {name(p)}
    /\ step(p, "saved")
    /\ UNCHANGED <<lockVars, infra, job, mem, settled>>

Saved(p) ==
    /\ phase[p] = "saved"
    /\ call[p] = "out"
    /\ Finish(p, IF starts(p) THEN "started" ELSE "deleted")

\* The file cannot be read, or cannot be written once it is truncated or not:
\* the lock is dropped and the command returns the error.
AccessFails(p) ==
    /\ world.faults
    /\ phase[p] \in {"check", "recheck", "save"}
    /\ mayAccess(p)
    /\ \E truncated \in {FALSE, phase[p] = "save"} :
        /\ cacheFile' = IF truncated THEN NilMap ELSE cacheFile
        /\ settled' = IF truncated THEN [c \in Clusters |-> "no"] ELSE settled
        /\ unlisted' = IF truncated THEN Clusters ELSE unlisted
    /\ step(p, "failed")
    /\ UNCHANGED <<lockVars, infra, job, mem>>

Failed(p) ==
    /\ phase[p] = "failed"
    /\ call[p] = "out"
    /\ Finish(p, "no")

\* A process killed between the truncation and the write leaves an empty file
\* to the next command, and with it loses what is known of every cluster.
Kill(p) ==
    /\ world.faults
    /\ phase[p] \notin {"idle", "dead"}
    /\ Die(p)
    /\ end(p, "dead")
    /\ settled' = IF phase[p] = "writing" THEN [c \in Clusters |-> "no"] ELSE settled
    /\ unlisted' = IF phase[p] = "writing" THEN Clusters ELSE unlisted
    /\ UNCHANGED <<cacheFile, infra>>

-----------------------------------------------------------------------------
Command(p) ==
    \/ Lock(p) \/ Unlock(p) \/ ReadCache(p) \/ Checked(p)
    \/ AlreadyRunning(p) \/ NotRunning(p) \/ Created(p) \/ CreateFails(p)
    \/ Deleted(p) \/ DeleteFails(p)
    \/ Add(p) \/ AddRefused(p) \/ AddPanics(p) \/ Delete(p)
    \/ Truncate(p) \/ Write(p) \/ Saved(p) \/ AccessFails(p) \/ Failed(p)

Next ==
    \E p \in Procs : Command(p) \/ LockFails(p) \/ Kill(p) \/ \E j \in Jobs : Begin(p, j)

\* A command that was started is carried on by the operating system.  That the
\* pidfile cannot be opened is never counted on.
Fairness == \A p \in Procs : WF_vars(Command(p))

Spec == Init /\ [][Next]_vars /\ Fairness

-----------------------------------------------------------------------------
(***************************************************************************)
(* Properties.                                                             *)
(***************************************************************************)

\* A process that is past a GetCache holds a map: the pid lock keeps readers
\* away from the moment between the truncation and the write of Save, as
\* long as no process is killed and no holder outlasts a timeout.
NoTornRead ==
    ~world.faults /\ ~world.slow =>
      \A p \in Procs : phase[p] \in {"checked", "rechecked"} => mem[p] # NilMap

\* Every command ends, so no process is left waiting in GetCache or Save,
\* also when the pidfile was left behind or is taken over and over by others
\* (so that only the timeout ends the wait: a slow world).
CommandsEnd ==
    \A p \in Procs : world.slow /\ phase[p] # "idle" ~> phase[p] \in {"idle", "dead"}

\* A cluster in the cache has the provider and version of the cluster that
\* exists, if commands do not overlap, even after a delete that was killed
\* between the driver and the cache: the check at the top of Start is what
\* keeps the two together.
CachedConfigMatches ==
    \A c \in Clusters :
        ~world.overlap /\ cacheFile # NilMap /\ cacheFile[c] # NoEntry /\ infra[c] # NoEntry
            => cacheFile[c] = infra[c]

\* After a command that ended well, alone, the cache and the infrastructure
\* agree about its cluster, whatever was killed or failed before: a created
\* cluster is cached and a deleted one is in neither place.  A start that
\* found its cluster running ends well too, and only vouches for the cluster
\* that exists: when an earlier start was cut off between driver and cache,
\* or the file was lost, it stays out of the cache, however often start is
\* repeated, until it is deleted.  Nothing else keeps a cluster that exists
\* off the list.  Ignoring the lock's error is what makes this hold with a
\* pidfile left behind.
CommandsSettle ==
    ~world.overlap /\ cacheFile # NilMap =>
        \A c \in Clusters :
            /\ settled[c] = "started" => infra[c] # NoEntry /\ cacheFile[c] # NoEntry
            /\ settled[c] = "found" => infra[c] # NoEntry
            /\ settled[c] = "deleted" => infra[c] = NoEntry /\ cacheFile[c] = NoEntry
            /\ infra[c] # NoEntry => c \in unlisted \/ cacheFile[c] # NoEntry

\* GetCache, Add, Delete and Save: the state is well formed, and the cache and
\* the clusters that exist agree as far as overlapping and interrupted commands
\* allow.
CacheAgrees == TypeOK /\ CachedConfigMatches /\ CommandsSettle

-----------------------------------------------------------------------------
(***************************************************************************)
(* The inductive invariant behind NoTornRead and CacheAgrees.              *)
(***************************************************************************)

active(p) == phase[p] \notin {"idle", "dead"}
changes(p) == job[p] \in Jobs /\ job[p].kind # "list"

\* What a process knows in each phase, in every world.
ProcInv(p) ==
    /\ active(p) => job[p] \in Jobs
    /\ phase[p] \notin {"idle", "dead", "check", "checked", "failed"} => changes(p)
    /\ phase[p] = "create" => starts(p)
    /\ phase[p] \in {"idle", "driver", "create"} => call[p] = "out"
    /\ phase[p] = "writing" => mayAccess(p)
    /\ phase[p] \in {"save", "writing", "saved"} => mem[p] \in Maps

\* Without faults and without holders that outlast a timeout: a pidfile has a
\* holder that is alive, so nobody is refused, and who accesses the file is
\* that holder.  Then the file is truncated only while its holder writes.
KindInv ==
    /\ HeldByTheLiving
    /\ cacheFile = NilMap => \E p \in Procs : phase[p] = "writing"
    /\ \A p \in Procs : phase[p] \in {"checked", "rechecked"} => mem[p] # NilMap

\* A map that a command reads or writes agrees with the clusters that exist:
\* the entries have the right configuration, a cluster whose last command
\* ended well is in both or in neither, and one that exists is in the map
\* unless it is known to be unlisted.
AgreesOn(m, c) ==
    /\ m[c] # NoEntry /\ infra[c] # NoEntry => m[c] = infra[c]
    /\ settled[c] = "started" => m[c] # NoEntry /\ infra[c] # NoEntry
    /\ settled[c] = "found" => infra[c] # NoEntry
    /\ settled[c] = "deleted" => m[c] = NoEntry /\ infra[c] = NoEntry
    /\ infra[c] # NoEntry => c \in unlisted \/ m[c] # NoEntry

\* An empty file lists nothing.
onDisk == IF cacheFile = NilMap THEN EmptyMap ELSE cacheFile

wanted(p) == IF starts(p) THEN job[p].config ELSE NoEntry

\* What the only command that runs knows of the file and of its cluster.
AloneInv(p) ==
    /\ active(p) /\ changes(p) => settled[name(p)] = "no"
    /\ phase[p] \in {"checked", "rechecked"} => mem[p] = cacheFile
    /\ phase[p] \in {"driver", "create"} /\ starts(p) /\ cacheFile # NilMap =>
          cacheFile[name(p)] \in {NoEntry, job[p].config}
    /\ phase[p] \in {"recheck", "rechecked", "save", "writing", "saved"} => infra[name(p)] = wanted(p)
    /\ phase[p] \in {"recheck", "rechecked"} /\ starts(p) => name(p) \in unlisted
    /\ phase[p] \in {"save", "writing", "saved"} => mem[p][name(p)] = wanted(p)
    /\ phase[p] \in {"save", "writing"} => \A c \in Clusters : AgreesOn(mem[p], c)
    /\ phase[p] = "writing" => cacheFile = NilMap
    /\ phase[p] = "saved" => cacheFile = mem[p]

\* Commands that do not overlap, with all faults.
SerialInv ==
    /\ \A p, q \in Procs : active(p) /\ active(q) => p = q
    /\ \/ \E p \in Procs : phase[p] = "writing"
       \/ \A c \in Clusters : AgreesOn(onDisk, c)
    /\ \A p \in Procs : AloneInv(p)

CacheInv ==
    /\ LockInv
    /\ TypeOK
    /\ \A p \in Procs : ProcInv(p)
    /\ ~world.faults /\ ~world.slow => KindInv
    /\ ~world.overlap => SerialInv
=============================================================================
