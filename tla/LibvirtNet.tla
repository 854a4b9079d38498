----------------------------- MODULE LibvirtNet -----------------------------
(***************************************************************************)
(* The addresses and tunnel ports that the libvirt driver hands out to     *)
(* clusters: src/pkg/cluster/driver/libvirt/net.go, and the parts of       *)
(* create, initializeCluster and Delete in libvirt.go that use it.  The    *)
(* book of used addresses and ports is a YAML file shared by the ocne      *)
(* processes of one user.  The port is chosen and recorded under the pid   *)
(* lock; the address is chosen before the lock is taken.                   *)
(*                                                                         *)
(* One libvirt host.  A virtual machine is the first control plane node of *)
(* its cluster, with the address and port it was defined with.             *)
(***************************************************************************)
EXTENDS PidLock, Integers

CONSTANTS
    Clusters,             \* cluster names
    FirstPort, EndPort,   \* 6443 and 65535: the ports tried are FirstPort..EndPort-1
    FirstIP, EndIP,       \* the part of the subnet that is tried, in the same form
    GivenIPs,             \* virtual IPs and load balancers of the configurations
    Localhost,            \* "127.0.0.1", the address without bridge networking
    Allocate,             \* the configuration leaves the address to allocateIP
    NoEntry,              \* no record, no virtual machine
    NoJob                 \* the process runs no command

Ports == FirstPort .. (EndPort - 1)
IPs == FirstIP .. (EndIP - 1)
Addresses == IPs \cup GivenIPs \cup {Localhost}
Record == [ip : Addresses, port : Ports]
Entries == Record \cup {NoEntry}

\* What create makes the address from: bridge networking without a
\* configured address, bridge networking with one, or user networking.
Jobs == [kind : {"start"}, name : Clusters, addr : GivenIPs \cup {Localhost, Allocate}]
            \cup [kind : {"delete"}, name : Clusters]

ASSUME NetAssumption ==
    /\ FirstPort \in Nat /\ EndPort \in Nat
    /\ FirstIP \in Nat /\ EndIP \in Nat
    /\ GivenIPs \subseteq Int
    /\ Allocate \notin GivenIPs \cup {Localhost}
    /\ Localhost \notin IPs \cup GivenIPs
    /\ NoEntry \notin Record
    /\ NoJob \notin Jobs

VARIABLES
    net,      \* the file: used addresses, used ports, the record of each cluster
    vm,       \* the virtual machine of each cluster
    job,      \* the command of each process
    phase,    \* how far it is
    want,     \* the address and port the process has chosen
    out       \* the file contents the process is about to write

netVars == <<net, vm, job, phase, want, out>>
vars == <<net, vm, job, phase, want, out, pidfile, creator, call, world>>

Books == [ips : SUBSET Addresses, ports : SUBSET Ports, clusters : [Clusters -> Entries]]

\* A missing file and an empty one: both are read as nothing used.
EmptyBook == [ips |-> {}, ports |-> {}, clusters |-> [c \in Clusters |-> NoEntry]]

Phases == {"idle", "begin", "ip", "lock", "node", "add", "write", "unlock", "dead"}

NetTypeOK ==
    /\ net \in Books
    /\ vm \in [Clusters -> Entries]
    /\ job \in [Procs -> Jobs \cup {NoJob}]
    /\ phase \in [Procs -> Phases]
    /\ want \in [Procs -> [ip : Addresses \cup {NoEntry}, port : Ports \cup {NoEntry}]]
    /\ out \in [Procs -> Books]

NoWant == [ip |-> NoEntry, port |-> NoEntry]

Init ==
    /\ LockInit
    /\ net = EmptyBook
    /\ vm = [c \in Clusters |-> NoEntry]
    /\ job = [p \in Procs |-> NoJob]
    /\ phase = [p \in Procs |-> "idle"]
    /\ want = [p \in Procs |-> NoWant]
    /\ out = [p \in Procs |-> EmptyBook]

step(p, s) == phase' = [phase EXCEPT ![p] = s]

\* The process ends; what it chose and read is gone with it.
end(p, s) ==
    /\ step(p, s)
    /\ job' = [job EXCEPT ![p] = NoJob]
    /\ want' = [want EXCEPT ![p] = NoWant]
    /\ out' = [out EXCEPT ![p] = EmptyBook]

running == {p \in Procs : phase[p] \notin {"idle", "dead"}}
starts(p) == job[p].kind = "start"
target(p) == job[p].name
isFirst(n, S) == n \in S /\ \A m \in S : n <= m

-----------------------------------------------------------------------------
\* Commands on different clusters always overlap; in some worlds commands on
\* the same cluster do, too.
Begin(p, j) ==
    /\ phase[p] = "idle"
    /\ call[p] = "out"
    /\ world.overlap \/ \A q \in running : target(q) # j.name
    /\ job' = [job EXCEPT ![p] = j]
    /\ step(p, "begin")
    /\ UNCHANGED <<lockVars, net, vm, want, out>>

\* Start finds the first domain of the cluster and leaves it as it is.
AlreadyExists(p) ==
    /\ phase[p] = "begin"
    /\ starts(p)
    /\ vm[target(p)] # NoEntry
    /\ end(p, "idle")
    /\ UNCHANGED <<lockVars, net, vm>>

StartCreate(p) ==
    /\ phase[p] = "begin"
    /\ starts(p)
    /\ vm[target(p)] = NoEntry
    /\ step(p, "ip")
    /\ UNCHANGED <<lockVars, net, vm, job, want, out>>

\* allocateIP: the first address of the range that is not in the file.  The
\* choice is not written back.
freeIPs == IPs \ net.ips

AllocateIP(p) ==
    /\ phase[p] = "ip"
    /\ \E ip \in Addresses :
        /\ IF job[p].addr = Allocate THEN isFirst(ip, freeIPs) ELSE ip = job[p].addr
        /\ want' = [want EXCEPT ![p].ip = ip]
    /\ step(p, "lock")
    /\ UNCHANGED <<lockVars, net, vm, job, out>>

AllocateIPFails(p) ==
    /\ phase[p] = "ip"
    /\ job[p].addr = Allocate
    /\ freeIPs = {} \/ world.faults
    /\ end(p, "idle")
    /\ UNCHANGED <<lockVars, net, vm>>

-----------------------------------------------------------------------------
(***************************************************************************)
(* The pid lock.  initializeCluster and Delete return when they do not get *)
(* it.                                                                     *)
(***************************************************************************)

holderGone == creator \in Procs => call[creator] \notin {"created", "held", "removing"}

Lock(p) ==
    /\ phase[p] = "lock"
    /\ \/ WaitFor(p)
       \/ CreateFile(p)
       \/ TimeOut(p) /\ (world.slow \/ holderGone)
       \/ OpenFails(p)
       \/ WritePid(p)
    /\ UNCHANGED netVars

LockRefused(p) ==
    /\ phase[p] = "lock"
    /\ GiveUp(p)
    /\ end(p, "idle")
    /\ UNCHANGED <<net, vm>>

Unlock(p) ==
    /\ phase[p] = "unlock"
    /\ InDrop(p)
    /\ UNCHANGED netVars

Unlocked(p) ==
    /\ phase[p] = "unlock"
    /\ call[p] = "out"
    /\ end(p, "idle")
    /\ UNCHANGED <<lockVars, net, vm>>

-----------------------------------------------------------------------------
(***************************************************************************)
(* initializeCluster, under the lock.                                      *)
(***************************************************************************)

freePorts == Ports \ net.ports

\* allocatePort: the first port that is not in the file.
AllocatePort(p) ==
    /\ phase[p] = "lock"
    /\ starts(p)
    /\ call[p] = "held"
    /\ \E port \in Ports :
        /\ isFirst(port, freePorts)
        /\ want' = [want EXCEPT ![p].port = port]
    /\ step(p, "node")
    /\ UNCHANGED <<lockVars, net, vm, job, out>>

AllocatePortFails(p) ==
    /\ phase[p] = "lock"
    /\ starts(p)
    /\ call[p] = "held"
    /\ freePorts = {} \/ world.faults
    /\ step(p, "unlock")
    /\ UNCHANGED <<lockVars, net, vm, job, want, out>>

\* addNode defines the domain of the first node, unless one of that name has
\* come into being since StartCreate.
AddNode(p) ==
    /\ phase[p] = "node"
    /\ vm[target(p)] = NoEntry
    /\ vm' = [vm EXCEPT ![target(p)] = want[p]]
    /\ step(p, "add")
    /\ UNCHANGED <<lockVars, net, job, want, out>>

\* Any of its calls before the definition fails, or the definition does.
AddNodeFails(p) ==
    /\ phase[p] = "node"
    /\ step(p, "unlock")
    /\ UNCHANGED <<lockVars, net, vm, job, want, out>>

recordedIP(ip) == IF ip = Localhost THEN {} ELSE {ip}

MutantWithCluster(book, c, r) ==
    [book EXCEPT !.ips = @ \cup recordedIP(r.ip), !.clusters[c] = r]

WithCluster(book, c, r) ==
    [book EXCEPT !.ips = @ \cup recordedIP(r.ip), !.ports = @ \cup {r.port}, !.clusters[c] = r]

\* addCluster reads the file again, adds the record and truncates the file
\* before it writes it.
AddCluster(p) ==
    /\ phase[p] = "add"
    /\ net.clusters[target(p)] = NoEntry
    /\ out' = [out EXCEPT ![p] = WithCluster(net, target(p), want[p])]
    /\ net' = EmptyBook
    /\ step(p, "write")
    /\ UNCHANGED <<lockVars, vm, job, want>>

\* There is a record of that name already, or the file cannot be read: the
\* error is dropped, and the new virtual machine is not recorded.
AddClusterFails(p) ==
    /\ phase[p] = "add"
    /\ net.clusters[target(p)] # NoEntry \/ world.faults
    /\ step(p, "unlock")
    /\ UNCHANGED <<lockVars, net, vm, job, want, out>>

Write(p) ==
    /\ phase[p] = "write"
    /\ net' = out[p]
    /\ step(p, "unlock")
    /\ UNCHANGED <<lockVars, vm, job, want, out>>

\* The write fails after the truncation.
WriteFails(p) ==
    /\ world.faults
    /\ phase[p] = "write"
    /\ step(p, "unlock")
    /\ UNCHANGED <<lockVars, net, vm, job, want, out>>

-----------------------------------------------------------------------------
(***************************************************************************)
(* Delete.                                                                 *)
(***************************************************************************)

\* The domains are removed, without the lock.
RemoveNodes(p) ==
    /\ phase[p] = "begin"
    /\ job[p].kind = "delete"
    /\ vm' = [vm EXCEPT ![target(p)] = NoEntry]
    /\ step(p, "lock")
    /\ UNCHANGED <<lockVars, net, job, want, out>>

RemoveNodesFails(p) ==
    /\ phase[p] = "begin"
    /\ job[p].kind = "delete"
    /\ end(p, "idle")
    /\ UNCHANGED <<lockVars, net, vm>>

MutantWithoutCluster(book, c) ==
    [book EXCEPT !.ips = @ \ {book.clusters[c].ip}, !.ports = @ \ {book.clusters[c].port}]

WithoutCluster(book, c) ==
    [book EXCEPT !.ips = @ \ {book.clusters[c].ip},
                 !.ports = @ \ {book.clusters[c].port},
                 !.clusters[c] = NoEntry]

RemoveCluster(p) ==
    /\ phase[p] = "lock"
    /\ job[p].kind = "delete"
    /\ call[p] = "held"
    /\ IF net.clusters[target(p)] = NoEntry
       THEN /\ step(p, "unlock")
            /\ UNCHANGED <<net, out>>
       ELSE /\ out' = [out EXCEPT ![p] = WithoutCluster(net, target(p))]
            /\ net' = EmptyBook
            /\ step(p, "write")
    /\ UNCHANGED <<lockVars, vm, job, want>>

\* The file cannot be read.
RemoveClusterFails(p) ==
    /\ world.faults
    /\ phase[p] = "lock"
    /\ job[p].kind = "delete"
    /\ call[p] = "held"
    /\ step(p, "unlock")
    /\ UNCHANGED <<lockVars, net, vm, job, want, out>>

Kill(p) ==
    /\ world.faults
    /\ phase[p] \notin {"idle", "dead"}
    /\ Die(p)
    /\ end(p, "dead")
    /\ UNCHANGED <<net, vm>>

-----------------------------------------------------------------------------
Command(p) ==
    \/ AlreadyExists(p) \/ StartCreate(p) \/ AllocateIP(p) \/ AllocateIPFails(p)
    \/ Lock(p) \/ LockRefused(p) \/ Unlock(p) \/ Unlocked(p)
    \/ AllocatePort(p) \/ AllocatePortFails(p) \/ AddNode(p) \/ AddNodeFails(p)
    \/ AddCluster(p) \/ AddClusterFails(p) \/ Write(p) \/ WriteFails(p)
    \/ RemoveNodes(p) \/ RemoveNodesFails(p) \/ RemoveCluster(p)
    \/ RemoveClusterFails(p)

Next == \E p \in Procs : Command(p) \/ Kill(p) \/ \E j \in Jobs : Begin(p, j)

Spec == Init /\ [][Next]_vars

-----------------------------------------------------------------------------
(***************************************************************************)
(* Properties.                                                             *)
(***************************************************************************)

recorded(book) == {c \in Clusters : book.clusters[c] # NoEntry}

\* The book is consistent: a port is used exactly if a cluster has it, and no
\* two clusters have the same.
BookOK(book) ==
    /\ book.ports = {book.clusters[c].port : c \in recorded(book)}
    /\ \A c, d \in recorded(book) : book.clusters[c].port = book.clusters[d].port => c = d

\* Ports are never given twice nor leaked in the file: "As clusters are
\* deleted, the ports are freed".  It holds with overlapping commands, failed
\* calls, timeouts of the lock and killed processes.
PortsConsistent == BookOK(net)

\* Nothing fails, no holder of the lock is too slow and no two commands work
\* on the same cluster; commands on different clusters overlap.
careful == ~world.faults /\ ~world.slow /\ ~world.overlap

\* Two virtual machines never forward the same port of the host in a careful
\* world.  It needs more than PortsConsistent: every machine must be recorded.
VMPortsDistinct ==
    \A c, d \in Clusters :
        careful /\ vm[c] # NoEntry /\ vm[d] # NoEntry /\ vm[c].port = vm[d].port => c = d

\* A cluster that no command is busy with has a record exactly if it has a
\* virtual machine, with the same address and port.  It holds as long as no
\* process is killed, no delete is refused the lock and commands on the same
\* cluster do not overlap: the error of addCluster is then never dropped.
RecordMatchesVM ==
    \A c \in Clusters :
        careful /\ (\A p \in running : target(p) # c)
            => (\E p \in Procs : phase[p] = "write") \/ net.clusters[c] = vm[c]

\* The inductive invariant behind PortsConsistent: between allocatePort and
\* the write of addCluster the process holds the pid lock and its port is in
\* nobody's record, and what a process is about to write is consistent.
ProcInv(p) ==
    /\ phase[p] \in {"node", "add", "write"} => call[p] = "held"
    /\ phase[p] \in {"ip", "node", "add"} => job[p] \in Jobs /\ starts(p)
    /\ phase[p] \in {"begin", "lock"} => job[p] \in Jobs
    /\ phase[p] = "lock" /\ starts(p) => want[p].ip \in Addresses
    /\ phase[p] \in {"node", "add"} => want[p] \in Record /\ want[p].port \notin net.ports
    /\ phase[p] = "write" => BookOK(out[p])

NetInv ==
    /\ LockInv
    /\ NetTypeOK
    /\ BookOK(net)
    /\ \A p \in Procs : ProcInv(p)

\* The clusters that a book need not describe: a machine that is defined and
\* not yet recorded, and one that is removed and still recorded.
lagging(p) == phase[p] = "add" \/ (phase[p] = "lock" /\ ~starts(p))
lags(c) == \E p \in running : target(p) = c /\ lagging(p)

Described(book) == \A c \in Clusters : lags(c) \/ book.clusters[c] = vm[c]

\* The strengthening behind FileDescribesVMs, in a careful world: one command
\* a cluster, and the file, or what its writer is about to write, describes
\* the machines.
CarefulInv ==
    /\ HeldByTheLiving
    /\ \A p, q \in running : target(p) = target(q) => p = q
    /\ \A p \in Procs :
        /\ phase[p] \in {"ip", "lock", "node"} => vm[target(p)] = NoEntry
        /\ phase[p] = "add" => net.clusters[target(p)] = NoEntry /\ vm[target(p)] = want[p]
        /\ phase[p] = "write" => Described(out[p])
    /\ (\A p \in Procs : phase[p] # "write") => Described(net)

DescribedInv == NetInv /\ (careful => CarefulInv)

\* allocatePort, addCluster and removeCluster: without faults the network file
\* describes the virtual machines that exist, and they share no port.
FileDescribesVMs == VMPortsDistinct /\ RecordMatchesVM
=============================================================================
