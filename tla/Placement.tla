----------------------------- MODULE Placement -----------------------------
(***************************************************************************)
(* Where the processes of a reconfiguration are placed: the discovery of   *)
(* the nodes (MAM_RMS.c), the distribution of new processes over them and  *)
(* the hosts given to MPI_Comm_spawn (ProcessDist.c), the removal of the   *)
(* last ranks of a Merge shrink, and the counts MAM_Commit leaves for the  *)
(* next reconfiguration.                                                   *)
(*                                                                         *)
(* The root computes the plan and broadcasts it, so the vectors of mall    *)
(* are one state for the whole application.  The loops of the distribution *)
(* are steps: each iteration is an action.                                 *)
(***************************************************************************)
EXTENDS Integers, Sequences, FiniteSets, SequencesExt

CONSTANTS
  Nodes,        \* machines of the allocation
  MaxCores,     \* bound on the cores of a machine
  MaxReconfs    \* bound on the number of reconfigurations

ASSUME PlacementAssumption ==
  Nodes \in Nat \ {0} /\ MaxCores \in Nat \ {0} /\ MaxReconfs \in Nat

VARIABLES
  cpus,       \* cpus[n]: the cores of machine n that its processes may use
  where,      \* where[r]: the machine on which rank r - 1 really runs
  nodelist,   \* the machines mall knows of, in the order of its vectors
  max_cpus, assigned_cpus, spawned_cpus,
  conf,       \* resource manager, distribution, one spawn or one per node
  spawn,      \* Spawn_data: method, initial_qty, target_qty, spawn_qty, already_created
  pc, i,      \* loop being executed and its index
  left,       \* to_assig_cores, asigCores or to_remove_ranks
  not_full, tam_bl,
  sets,       \* the spawn sets: quantity and hosts
  reconfs

vars == <<cpus, where, nodelist, max_cpus, assigned_cpus, spawned_cpus, conf,
          spawn, pc, i, left, not_full, tam_bl, sets, reconfs>>
plan == <<i, left, not_full, tam_bl, sets>>
known == <<cpus, where, nodelist, max_cpus, assigned_cpus, conf>>

Cores == 0 .. MaxCores - 1
Ix == DOMAIN nodelist
Zeros(s) == [k \in DOMAIN s |-> 0]
RanksOn(n) == Cardinality({r \in DOMAIN where : where[r] = n})

-----------------------------------------------------------------------------
(* Discovery of the nodes. *)

\* GetCPUCount: the cores before the first one outside the affinity mask.
GetCPUCount(n) == Cardinality({c \in cpus[n] : 0 .. c \subseteq cpus[n]})

\* MAM_I_get_hosts_info: rank after rank, a host is listed when it differs
\* from SOME host of the list.
UniqueHosts(ranks) ==
  LET list[r \in DOMAIN ranks] ==
        IF r = 1 THEN <<ranks[1]>>
        ELSE IF \E j \in DOMAIN list[r - 1] : list[r - 1][j] # ranks[r]
               THEN Append(list[r - 1], ranks[r]) ELSE list[r - 1]
  IN  list[Len(ranks)]

\* How the application may be started: ranks in node order.
Launches ==
  {s \in UNION {[1 .. n -> 1 .. Nodes] : n \in 1 .. Nodes + 1} :
     \A r \in 2 .. Len(s) : s[r - 1] <= s[r]}

\* What the discovery leaves in mall: the list and the cores of each entry; both
\* ways of asking Slurm give the nodes of the allocation.
SlurmInfo == [list |-> [n \in 1 .. Nodes |-> n],
              cores |-> [n \in 1 .. Nodes |-> Cardinality(cpus[n])]]
HostsInfo ==
  LET list == UniqueHosts(where)
  IN  [list |-> list, cores |-> [k \in DOMAIN list |-> GetCPUCount(list[k])]]

\* MAM_I_slurm_get_assigned_cpus: the ranks of an entry have its hash.
AssignedCpus(list) == [k \in DOMAIN list |-> RanksOn(list[k])]

\* MAM_check_hosts: from Slurm, or else from the processes.
CheckHosts ==
  LET info == IF conf.slurm THEN SlurmInfo ELSE HostsInfo
  IN  /\ pc = "start"
      /\ nodelist' = info.list /\ max_cpus' = info.cores
      /\ assigned_cpus' = AssignedCpus(info.list)
      /\ spawned_cpus' = Zeros(info.list)
      /\ pc' = "idle"
      /\ UNCHANGED <<cpus, where, conf, spawn, plan, reconfs>>

Init ==
  /\ cpus \in [1 .. Nodes -> SUBSET Cores \ {{}}]
  /\ conf \in [slurm : BOOLEAN, dist : {"spread", "compact"}, many : BOOLEAN]
  /\ where \in Launches
  /\ nodelist = <<>> /\ max_cpus = <<>> /\ assigned_cpus = <<>> /\ spawned_cpus = <<>>
  /\ spawn = [method |-> "merge", initial |-> 0, target |-> 0, qty |-> 0, created |-> 0]
  /\ pc = "start" /\ i = 1 /\ left = 0 /\ not_full = 0 /\ tam_bl = 0
  /\ sets = <<>> /\ reconfs = 0

-----------------------------------------------------------------------------
(* The distribution of the new processes. *)

\* The OCCUPIED_CPUS macro.
Occupied(k) == IF spawn.created # 0 THEN assigned_cpus[k] + spawned_cpus[k]
                                    ELSE spawned_cpus[k]

\* set_spawn_configuration and the choice of generic_spawn: new processes are
\* distributed when spawn_qty is positive, ranks removed at the end of a shrink.
Reconfigure(method, target) ==
  LET initial == Len(where)
      created == IF method = "merge" THEN initial ELSE 0
  IN  /\ pc = "idle" /\ reconfs < MaxReconfs /\ target # initial
      /\ reconfs' = reconfs + 1
      /\ spawn' = [method |-> method, initial |-> initial, target |-> target,
                   qty |-> target - created, created |-> created]
      /\ sets' = <<>>
      /\ \/ /\ target > created
            /\ pc' = conf.dist
            /\ left' = IF conf.dist = "spread" THEN target - created ELSE created
            /\ not_full' = Cardinality({k \in Ix : max_cpus[k] > IF created # 0 THEN assigned_cpus[k] ELSE 0})
            /\ i' = 1
         \/ /\ target < created
            /\ pc' = "remove" /\ left' = initial - target /\ i' = Len(nodelist)
            /\ UNCHANGED not_full
      /\ UNCHANGED <<known, spawned_cpus, tam_bl>>

\* spread_dist: the test of the while loop and what follows it.
SpreadRound ==
  /\ pc = "spread"
  /\ \/ /\ left > not_full /\ not_full > 0
        /\ tam_bl' = left \div not_full
        /\ pc' = "fill"
     \/ /\ left <= not_full
        /\ pc' = "rest" /\ UNCHANGED tam_bl
     \/ /\ left > 0 /\ not_full = 0
        /\ pc' = "abort" /\ UNCHANGED tam_bl
  /\ i' = 1
  /\ UNCHANGED <<known, spawned_cpus, spawn, left, not_full, sets, reconfs>>

\* Mutant: a node takes all it can of what is left.
MutSpreadShare(room) == IF room > left THEN left ELSE IF room > 0 THEN room ELSE 0

\* What node k gets in a round.
SpreadShare(room) == IF room > tam_bl THEN tam_bl ELSE IF room > 0 THEN room ELSE 0

\* Mutant: a node that fills up is still counted as having room.
MutNeverFull(room) == FALSE

\* Whether the round leaves the node full.
FillsUp(room) == 0 < room /\ room <= tam_bl

\* spread_dist: one node in a round.
SpreadNode ==
  LET room == max_cpus[i] - Occupied(i)
      share == SpreadShare(room)
  IN  /\ pc = "fill"
      /\ spawned_cpus' = [spawned_cpus EXCEPT ![i] = @ + share]
      /\ left' = left - share
      /\ not_full' = IF FillsUp(room) THEN not_full - 1 ELSE not_full
      /\ i' = i + 1
      /\ pc' = IF i = Len(nodelist) THEN "spread" ELSE "fill"
      /\ UNCHANGED <<known, spawn, tam_bl, sets, reconfs>>

\* spread_dist: one more process for the first nodes with room.
SpreadRest ==
  LET extra == IF max_cpus[i] > Occupied(i) THEN 1 ELSE 0
  IN  /\ pc = "rest"
      /\ \/ /\ i <= Len(nodelist) /\ left > 0
            /\ spawned_cpus' = [spawned_cpus EXCEPT ![i] = @ + extra]
            /\ left' = left - extra
            /\ i' = i + 1 /\ pc' = "rest"
         \/ /\ ~(i <= Len(nodelist) /\ left > 0)
            /\ pc' = "sets" /\ UNCHANGED <<spawned_cpus, left, i>>
      /\ UNCHANGED <<known, spawn, not_full, tam_bl, sets, reconfs>>

\* Mutant: the processes that a node runs already are forgotten.
MutRoom(k) == max_cpus[k]
\* The cores compact_dist finds free on node k.
Room(k) == IF spawn.created # 0 THEN max_cpus[k] - assigned_cpus[k] ELSE max_cpus[k]

\* compact_dist: one node, or the end of the loop.
CompactNode ==
  /\ pc = "compact"
  /\ \/ /\ i <= Len(nodelist) /\ left < spawn.target
        /\ LET diff == IF left + Room(i) > spawn.target THEN spawn.target - left ELSE Room(i)
           IN  IF 0 < Room(i)
                 THEN /\ spawned_cpus' = [spawned_cpus EXCEPT ![i] = diff]
                      /\ left' = left + diff
                 ELSE UNCHANGED <<spawned_cpus, left>>
        /\ i' = i + 1 /\ pc' = "compact"
     \/ /\ ~(i <= Len(nodelist) /\ left < spawn.target)
        /\ pc' = IF left < spawn.target THEN "abort" ELSE "sets"
        /\ UNCHANGED <<spawned_cpus, left, i>>
  /\ UNCHANGED <<known, spawn, not_full, tam_bl, sets, reconfs>>

\* Mutant: what the last node frees in excess is not given back.
MutExcess == 0

\* What the last node has given beyond the ranks to remove, negated.
Excess == left

\* remove_dist: one node from the last one down, or the end of the loop, which
\* gives back what the last node freed in excess.
RemoveNode ==
  /\ pc = "remove"
  /\ \/ /\ i > 0 /\ left > 0
        /\ spawned_cpus' = [spawned_cpus EXCEPT ![i] = @ - assigned_cpus[i]]
        /\ left' = left - assigned_cpus[i]
        /\ i' = i - 1 /\ pc' = "remove"
     \/ /\ ~(i > 0 /\ left > 0)
        /\ spawned_cpus' = [spawned_cpus EXCEPT ![i + 1] = @ - Excess]
        /\ pc' = IF left > 0 THEN "abort" ELSE "planned"
        /\ UNCHANGED <<left, i>>
  /\ UNCHANGED <<known, spawn, not_full, tam_bl, sets, reconfs>>

-----------------------------------------------------------------------------
(* The spawn sets and their hosts. *)

\* The nodes with new processes.
Used == {k \in Ix : spawned_cpus[k] # 0}

\* Mutant: compact_dist also returns how many nodes it uses.
MutUsedNodes == Cardinality(Used)

\* The nodes the distribution says it uses: spread_dist counts those with new
\* processes, compact_dist gives the index at which it stopped.
UsedNodes == IF conf.dist = "spread" THEN Cardinality(Used) ELSE i - 1

\* node_dist: one spawn per node, counted over the first UsedNodes nodes.
TotalSpawns == IF conf.many THEN Cardinality({k \in Used : k <= UsedNodes}) ELSE 1

\* write_str_node: the name of the node once per process.
HostString(k) == [p \in 1 .. spawned_cpus[k] |-> nodelist[k]]

\* write_hostfile_node: a line with the node and its processes, which MPI reads
\* as that many hosts.
HostLine(k) == [node |-> nodelist[k], qty |-> spawned_cpus[k]]
HostsOfLine(line) == [p \in 1 .. line.qty |-> line.node]

\* How many of the nodes with new processes a hostfile has at node k.
Nth(k) == Cardinality({l \in Used : l <= k})

\* fill_str_hosts: those of the first UsedNodes nodes that have processes.
StringHosts == FlattenSeq([k \in Ix |-> IF k <= UsedNodes THEN HostString(k) ELSE <<>>])

\* fill_hostfile_slurm: the first UsedNodes nodes among those with processes.
HostfileHosts ==
  FlattenSeq([k \in Ix |-> IF k \in Used /\ Nth(k) <= UsedNodes
                             THEN HostsOfLine(HostLine(k)) ELSE <<>>])

\* set_mapping_host.
Set(qty, hosts) == [qty |-> qty, hosts |-> hosts]

\* generate_info_string: a string of hosts for all the processes.
StringSet == <<Set(spawn.qty, StringHosts)>>

\* generate_multiple_info_string: a set for each of the first UsedNodes nodes
\* that has processes.
StringSets ==
  FlattenSeq([k \in Ix |-> IF k \in Used /\ k <= UsedNodes
                             THEN <<Set(spawned_cpus[k], HostString(k))>> ELSE <<>>])

\* fill_multiple_hostfile_slurm: a hostfile for each spawn, that continues at the
\* node where the previous one ended.
MultipleHostfileSets ==
  FlattenSeq([k \in Ix |-> IF k \in Used /\ Nth(k) <= TotalSpawns
                             THEN <<Set(spawned_cpus[k], HostsOfLine(HostLine(k)))>> ELSE <<>>])

\* generate_info_hostfile_slurm.
HostfileSets ==
  IF conf.many THEN MultipleHostfileSets ELSE <<Set(spawn.qty, HostfileHosts)>>

\* processes_dist, after the distribution.
FillSets ==
  /\ pc = "sets"
  /\ sets' = IF conf.slurm THEN HostfileSets
             ELSE IF conf.many THEN StringSets ELSE StringSet
  /\ pc' = "planned"
  /\ UNCHANGED <<known, spawned_cpus, spawn, i, left, not_full, tam_bl, reconfs>>

Placed == FlattenSeq([j \in DOMAIN sets |-> sets[j].hosts])
Complete == Len(Placed) = spawn.qty

\* The counts of the group that goes on.
NewCounts == IF spawn.method = "baseline" THEN spawned_cpus
             ELSE [k \in Ix |-> assigned_cpus[k] + spawned_cpus[k]]

\* MAM_Commit: the processes of the sets exist, or the last ranks are gone, and
\* the counts become those of the new group.  With fewer hosts than processes
\* the group that starts is not the one the sources wait for.
Commit ==
  /\ pc = "planned"
  /\ \/ /\ spawn.qty > 0 /\ ~Complete
        /\ pc' = "short"
        /\ UNCHANGED <<where, assigned_cpus, spawned_cpus>>
     \/ /\ spawn.qty > 0 => Complete
        /\ pc' = "idle"
        /\ spawned_cpus' = Zeros(nodelist)
        /\ assigned_cpus' = NewCounts
        /\ where' = IF spawn.method = "baseline" THEN Placed
                    ELSE IF spawn.qty > 0 THEN where \o Placed
                    ELSE SubSeq(where, 1, spawn.target)
  /\ UNCHANGED <<cpus, nodelist, max_cpus, conf, spawn, plan, reconfs>>

\* The bounded application, or an aborted one, stops.
Stopped ==
  /\ pc \in {"abort", "short"} \/ (pc = "idle" /\ reconfs = MaxReconfs)
  /\ UNCHANGED vars

Work ==
  \/ CheckHosts \/ SpreadRound \/ SpreadNode \/ SpreadRest \/ CompactNode
  \/ RemoveNode \/ FillSets \/ Commit

Next ==
  \/ Work
  \/ \E method \in {"merge", "baseline"}, target \in 1 .. Nodes * MaxCores : Reconfigure(method, target)
  \/ Stopped

\* The root executes the loops to their end.
Spec == Init /\ [][Next]_vars /\ WF_vars(Work)
-----------------------------------------------------------------------------
(* Properties. *)

\* New processes go only where there is room: a node that receives any runs, with
\* those it keeps, at most as many processes as it has cores; removal takes from
\* a node at most what it runs.
NodeBounds ==
  \A k \in Ix : /\ spawned_cpus[k] > 0 => Occupied(k) <= max_cpus[k]
               /\ 0 <= assigned_cpus[k] + spawned_cpus[k]

\* The children are distributed as the user asked: spread_dist gives a node two
\* processes more than another only when the other one is full, and compact_dist
\* fills each node before it uses the next one, whatever the nodes already run.
Distributed ==
  pc = "sets" => \A a, b \in Ix :
    /\ conf.dist = "spread" /\ spawned_cpus[a] > spawned_cpus[b] + 1 => Occupied(b) >= max_cpus[b]
    /\ conf.dist = "compact" /\ a < b /\ spawned_cpus[b] > 0 => Occupied(a) >= max_cpus[a]

\* With compact_dist, and with spread_dist whenever the nodes used are the first
\* of the list, each process of the spawn has a host and each set as many hosts
\* as processes: nothing is lost between the vectors of mall and what
\* MPI_Comm_spawn is told.
HostsComplete ==
  pc = "planned" /\ spawn.qty > 0
  /\ (conf.dist = "compact" \/ Used = 1 .. Cardinality(Used)) =>
    /\ Complete
    /\ \A j \in DOMAIN sets : sets[j].qty = Len(sets[j].hosts)

\* The counts say where the processes really are, machine by machine.
Tracked == \A k \in Ix : assigned_cpus[k] = RanksOn(nodelist[k])

InNodeOrder ==
  \E rank \in {[n \in 1 .. Nodes |-> IF \E k \in Ix : nodelist[k] = n
                                      THEN CHOOSE k \in Ix : nodelist[k] = n ELSE 0]} :
    \A r \in 2 .. Len(where) : rank[where[r - 1]] <= rank[where[r]]

\* No machine is in the list twice: always with Slurm; without it, when
\* MAM_I_get_hosts_info tells the hosts apart.
OneEach == \A a, b \in Ix : nodelist[a] = nodelist[b] => a = b

\* Machine k really runs more processes than it has cores.
Crowded(k) == RanksOn(nodelist[k]) > max_cpus[k]

\* With a list that has each machine once, a commit keeps the counts true: always
\* when processes are added or replaced, and after a shrink when the ranks are in
\* the order of the node list, because remove_dist empties the last nodes while it
\* is the last ranks that leave.  And where the counts are true no machine that
\* receives processes ends up with more of them than cores.
CommitTracks ==
  [][pc = "planned" /\ pc' = "idle" /\ OneEach /\ Tracked /\ (spawn.qty > 0 \/ InNodeOrder)
     => Tracked' /\ \A k \in Ix : spawned_cpus[k] > 0 => ~Crowded(k)']_vars

\* The loops end: every reconfiguration is placed, or aborts.
Ends == pc \in {"spread", "compact", "remove"} ~> pc \in {"idle", "abort", "short"}
=============================================================================
