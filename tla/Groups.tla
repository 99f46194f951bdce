------------------------------- MODULE Groups -------------------------------
(***************************************************************************)
(* The strategies that create the children as several groups, one per      *)
(* node, and make one communicator of them.  Parallel: the sources and the *)
(* children spawn in a tree (hypercube when all groups are equal, diffusive *)
(* otherwise), tokens go up and down the tree when all groups exist, the    *)
(* groups merge two by two through ports and connect to the sources.       *)
(* Multiple: the sources spawn every group and lead them one by one to the *)
(* port of the first one.  Ports are published under the id of their group *)
(* (PortService.c).                                                        *)
(*                                                                         *)
(* The size of each group is what ProcessDist.c left in spawned_cpus, the  *)
(* nodes without new processes skipped.                                    *)
(***************************************************************************)
EXTENDS Integers, Sequences, FiniteSets

CONSTANTS
  MaxGroups,    \* bound on the groups spawned
  MaxSize,      \* bound on the processes of a group
  MaxInit,      \* bound on the nodes of the sources
  MaxSources,   \* bound on the sources
  AnyShape      \* FALSE: hypercubes whose sources are as many per node as their children

ASSUME GroupsAssumption ==
  /\ {MaxGroups, MaxSize, MaxInit, MaxSources} \subseteq Nat \ {0}
  /\ AnyShape \in BOOLEAN

VARIABLES
  shape,    \* strategy, init_nodes, initial_qty (numP) and the sizes of the groups
  mine,     \* mine[p]: the groups that p spawns when the groups differ in size
  made,     \* made[g]: how many times group g has been spawned
  parent,   \* parent[g]: the process that spawned it
  k,        \* k[p]: how many groups process p has spawned
  opened,   \* opened[g]: open_port has been called in g (or in the sources)
  up, down, \* the token of the root of g to its parent, and the answer
  sent,     \* sent[g]: the spawners of g have answered their groups
  disc,     \* disc[g]: g and its parent have disconnected
  team,     \* team[g]: the communicator whose root is the root of group g
  told,     \* Multiple: groups that know their turn
  tokens,   \* Multiple: tokens sent by the root of the first group
  over      \* sources and children are connected

vars == <<shape, mine, made, parent, k, opened, up, down, sent, disc, team, told, tokens, over>>

Sources == -1
G == Cardinality(DOMAIN shape.size)
Gids == 0 .. G - 1
Size(g) == IF g = Sources THEN shape.numP ELSE shape.size[g]
Ranks(g) == {<<g, r>> : r \in 0 .. Size(g) - 1}
Root(g) == <<g, 0>>
Procs == UNION {Ranks(g) : g \in Gids \cup {Sources}}
Exists(g) == IF g = Sources THEN TRUE ELSE made[g] > 0
Parallel == shape.strat = "parallel"

\* check_homogenous_dist.
Homogeneous(size) == \A a, b \in DOMAIN size : size[a] = size[b]

-----------------------------------------------------------------------------
(* Which group a process spawns next (Parallel). *)

\* pow(b, e).
Power(b, e) ==
  LET power[i \in Nat] == IF i = 0 THEN 1 ELSE b * power[i - 1] IN power[e]

\* floor(log(x)/log(b)).
FloorLog(x, b) == CHOOSE e \in 0 .. x : Power(b, e) <= x /\ x < Power(b, e + 1)

\* Mutant: the children take up the step at which their group was spawned.
MutFirstStep(g) ==
  IF g = Sources THEN 0
  ELSE FloorLog((g + shape.init_nodes) \div shape.init_nodes, 1 + Size(g))

\* parallel_strat_children: the step at which the ranks of group g join.
FirstStep(g) ==
  IF g = Sources THEN 0
  ELSE FloorLog((g + shape.init_nodes) \div shape.init_nodes, 1 + Size(g)) + 1

\* hypercube_spawn: next_group_id of p after c spawns.
HypercubeNext(p, c) ==
  LET n == shape.size[0]
      gid == IF p[1] = Sources THEN -shape.init_nodes ELSE p[1]
  IN  Power(1 + n, FirstStep(p[1]) + c) * shape.init_nodes - shape.init_nodes
        + n * (shape.init_nodes + gid) + p[2]

\* The rank expected in the final communicator, among sources and children.
SizeBefore(g) ==
  LET sum[i \in 0 .. G] == IF i = 0 THEN 0 ELSE sum[i - 1] + shape.size[i - 1] IN sum[g]
ExpId(p) == IF p[1] = Sources THEN p[2] ELSE shape.numP + SizeBefore(p[1]) + p[2]

\* diffusive_iterative_spawn: the slot whose turn it is at group g, and how many
\* slots its wave has; those of a wave spawn from the next one on.
Slot(g) ==
  LET slot[i \in 0 .. G] ==
        IF i = 0 THEN [j |-> 0, actual |-> shape.numP]
        ELSE IF slot[i - 1].j + 1 < slot[i - 1].actual
               THEN [slot[i - 1] EXCEPT !.j = @ + 1]
               ELSE [j |-> 0, actual |-> shape.numP + SizeBefore(i)]
  IN  slot[g]

\* The groups of a process: those at whose turn the slot is its expected id.
DiffusiveGroups == [p \in Procs |-> {g \in Gids : Slot(g).j = ExpId(p)}]

\* The group p spawns after c others, if any.
GroupAfter(p, c) ==
  IF Homogeneous(shape.size)
    THEN IF (p[1] = Sources \/ G > shape.numP) /\ HypercubeNext(p, c) < G
           THEN {HypercubeNext(p, c)} ELSE {}
    ELSE {g \in mine[p] : Cardinality({h \in mine[p] : h < g}) = c}

NextGroup(p) == GroupAfter(p, k[p])

\* The launches in which every group of the hypercube has one spawner.
HypercubeFits(s) ==
  LET n == s.size[0] * s.init_nodes
      g == Cardinality(DOMAIN s.size)
  IN  s.numP = n \/ (g <= s.numP /\ g <= n)
Fitting(s) == s.strat = "parallel" /\ Homogeneous(s.size) => HypercubeFits(s)

Shapes ==
  [strat : {"parallel", "multiple"}, init_nodes : 1 .. MaxInit, numP : 1 .. MaxSources,
   size : UNION {[0 .. n - 1 -> 1 .. MaxSize] : n \in 1 .. MaxGroups}]

NoTeam == [st |-> "none", cnt |-> 0, members |-> <<>>]

Init ==
  /\ shape \in {s \in Shapes :
       /\ s.init_nodes <= s.numP
       /\ s.strat = "multiple" => s.init_nodes = 1   \* it plays no part
       /\ ~AnyShape => Fitting(s)}
  /\ mine = DiffusiveGroups
  /\ made = [g \in Gids |-> 0] /\ parent = [g \in Gids |-> Root(Sources)]
  /\ k = [p \in Procs |-> 0]
  /\ opened = [g \in Gids \cup {Sources} |-> FALSE]
  /\ up = [g \in Gids |-> FALSE] /\ down = [g \in Gids |-> FALSE]
  /\ sent = [g \in Gids \cup {Sources} |-> FALSE]
  /\ disc = [g \in Gids |-> FALSE]
  /\ team = [g \in Gids |-> NoTeam]
  /\ told = 0 /\ tokens = 0 /\ over = FALSE

-----------------------------------------------------------------------------
(* Parallel: spawning and synchronising. *)

\* open_port: the sources open one for the children, and so do the first half
\* of the groups; the others only set a name.
OpenPort(g) ==
  /\ Parallel /\ Exists(g) /\ ~opened[g]
  /\ opened' = [opened EXCEPT ![g] = TRUE]
  /\ UNCHANGED <<shape, mine, made, parent, k, up, down, sent, disc, team, told, tokens, over>>

HasPort(g) ==
  opened[g] /\ IF Parallel THEN g < G \div 2 ELSE g = 0

\* mam_spawn on MPI_COMM_SELF, in the loop of either algorithm.  The root opens
\* the port before its loop, the others do not wait for it.
Spawn(p) ==
  /\ Parallel /\ Exists(p[1])
  /\ p = Root(p[1]) => opened[p[1]]
  /\ \E g \in NextGroup(p) :
       /\ made' = [made EXCEPT ![g] = @ + 1]
       /\ parent' = [parent EXCEPT ![g] = p]
  /\ k' = [k EXCEPT ![p] = @ + 1]
  /\ UNCHANGED <<shape, mine, opened, up, down, sent, disc, team, told, tokens, over>>

\* All ranks of g have left their loops: MPI_Comm_split returns.
SplitOver(g) == Exists(g) /\ opened[g] /\ \A p \in Ranks(g) : NextGroup(p) = {}
SpawnedBy(g) == {m \in Gids : made[m] > 0 /\ parent[m][1] = g}
RootSpawns(g) == k[Root(g)] > 0

\* Mutant: a spawner waits for its own groups only, and so does the root.
MutBarrier(g) == SplitOver(g) /\ \A m \in SpawnedBy(g) : parent[m] = Root(g) => up[m]

\* The spawners of g have the tokens of all their groups, and their barrier.
Barrier(g) == SplitOver(g) /\ \A m \in SpawnedBy(g) : up[m]

\* common_synch, upside: the root of a child group; it is in the barrier only
\* when it has spawned groups itself.
SendUp(g) ==
  /\ Parallel /\ g # Sources /\ ~up[g]
  /\ SplitOver(g) /\ (RootSpawns(g) => Barrier(g))
  /\ up' = [up EXCEPT ![g] = TRUE]
  /\ UNCHANGED <<shape, mine, made, parent, k, opened, down, sent, disc, team, told, tokens, over>>

\* common_synch, downside: the spawners of g answer their groups, in a child
\* group after a barrier that the root enters when it has its own answer.
SendDown(g) ==
  /\ Parallel /\ Exists(g) /\ ~sent[g] /\ SpawnedBy(g) # {} /\ Barrier(g)
  /\ (IF g # Sources /\ RootSpawns(g) THEN down[g] ELSE TRUE)
  /\ down' = [m \in Gids |-> down[m] \/ m \in SpawnedBy(g)]
  /\ sent' = [sent EXCEPT ![g] = TRUE]
  /\ UNCHANGED <<shape, mine, made, parent, k, opened, up, disc, team, told, tokens, over>>

\* MPI_Comm_disconnect of a group and the process that spawned it: each rank
\* first disconnects the groups it has spawned, in order.
Disconnect(g) ==
  LET p == parent[g]
  IN  /\ Parallel /\ made[g] > 0 /\ ~disc[g]
      /\ sent[p[1]] /\ (IF p[1] # Sources /\ p = Root(p[1]) THEN down[p[1]] ELSE TRUE)
      /\ \A m \in SpawnedBy(p[1]) : parent[m] = p /\ m < g => disc[m]
      /\ SplitOver(g) /\ down[g] /\ (SpawnedBy(g) # {} => sent[g])
      /\ \A m \in SpawnedBy(g) : disc[m]
      /\ disc' = [disc EXCEPT ![g] = TRUE]
      /\ team' = [team EXCEPT ![g] = [st |-> "tree", cnt |-> G, members |-> <<g>>]]
      /\ UNCHANGED <<shape, mine, made, parent, k, opened, up, down, sent, told, tokens, over>>

-----------------------------------------------------------------------------
(* Parallel: binary_tree_connection.  The id of a team is that of the group *)
(* whose root is its root.                                                  *)

Middle(n) == n \div 2
NewGroups(n) == (n + 1) \div 2
InTree(g) == team[g].st = "tree" /\ team[g].cnt > 1
Accepts(g) == InTree(g) /\ g < Middle(team[g].cnt)
Connects(g) == InTree(g) /\ g >= NewGroups(team[g].cnt)
Partner(g) == team[g].cnt - g - 1

\* The odd team of a round goes on alone.
CarryOver(g) ==
  /\ InTree(g) /\ ~Accepts(g) /\ ~Connects(g)
  /\ team' = [team EXCEPT ![g].cnt = NewGroups(@)]
  /\ UNCHANGED <<shape, mine, made, parent, k, opened, up, down, sent, disc, told, tokens, over>>

\* Mutant: the number of groups is sent before it is halved.
MutNextRound(g, h) == team[g].cnt

\* The number of groups of the next round comes from the root, that of g.
NextRound(g, h) == NewGroups(team[g].cnt)

\* Team h connects to the port of its partner g, which accepts whoever comes,
\* in its own round or in a later one.
Merge(h) ==
  LET g == Partner(h)
  IN  /\ Connects(h) /\ HasPort(g) /\ Accepts(g)
      /\ team' = [team EXCEPT ![g] = [st |-> "tree", cnt |-> NextRound(g, h),
                                      members |-> @.members \o team[h].members],
                              ![h].st = "joined"]
      /\ UNCHANGED <<shape, mine, made, parent, k, opened, up, down, sent, disc, told, tokens, over>>

\* The last team connects to the port of the sources, who accept when all their
\* groups are disconnected.
ConnectSources ==
  /\ Parallel /\ team[0].st = "tree" /\ team[0].cnt <= 1 /\ HasPort(Sources)
  /\ SplitOver(Sources) /\ \A m \in SpawnedBy(Sources) : disc[m]
  /\ ~over /\ over' = TRUE
  /\ UNCHANGED <<shape, mine, made, parent, k, opened, up, down, sent, disc, team, told, tokens>>

-----------------------------------------------------------------------------
(* Multiple. *)

\* baseline_parents: the sources spawn the sets in order.
SpawnSet(g) ==
  /\ ~Parallel /\ made[g] = 0 /\ \A m \in 0 .. g - 1 : made[m] > 0
  /\ made' = [made EXCEPT ![g] = 1]
  /\ UNCHANGED <<shape, mine, parent, k, opened, up, down, sent, disc, team, told, tokens, over>>

\* Mutant: the root of the sources does not wait for the tokens.
MutMayTell == TRUE

\* multiple_strat_parents: the token of the group told before has arrived.
MayTell == tokens >= told

\* multiple_strat_parents: the next group is told its turn.
Tell ==
  /\ ~Parallel /\ (\A g \in Gids : made[g] > 0) /\ told < G /\ MayTell
  /\ told' = told + 1
  /\ UNCHANGED <<shape, mine, made, parent, k, opened, up, down, sent, disc, team, tokens, over>>

\* multiple_strat_children, the first group: open the port, send a token.
OpenFirst ==
  /\ ~Parallel /\ told > 0 /\ ~opened[0]
  /\ opened' = [opened EXCEPT ![0] = TRUE]
  /\ team' = [team EXCEPT ![0] = [st |-> "tree", cnt |-> 1, members |-> <<0>>]]
  /\ tokens' = tokens + 1
  /\ UNCHANGED <<shape, mine, made, parent, k, up, down, sent, disc, told, over>>

\* multiple_strat_children: group g connects and merges, the first group accepts
\* whoever comes and sends a token.
Join(g) ==
  /\ ~Parallel /\ g > 0 /\ told > g /\ team[g].st = "none"
  /\ HasPort(0) /\ team[0].st = "tree" /\ team[0].cnt < G
  /\ team' = [team EXCEPT ![0].members = Append(@, g), ![0].cnt = @ + 1, ![g].st = "joined"]
  /\ tokens' = tokens + 1
  /\ UNCHANGED <<shape, mine, made, parent, k, opened, up, down, sent, disc, told, over>>

\* The sources connect after the last token; the children accept them when they
\* have accepted all groups.
JoinSources ==
  /\ ~Parallel /\ told = G /\ MayTell /\ HasPort(0) /\ team[0].cnt = G
  /\ ~over /\ over' = TRUE
  /\ UNCHANGED <<shape, mine, made, parent, k, opened, up, down, sent, disc, team, told, tokens>>

-----------------------------------------------------------------------------
Done == over /\ UNCHANGED vars

Step ==
  \/ \E g \in Gids \cup {Sources} : OpenPort(g) \/ SendDown(g)
  \/ \E p \in Procs : Spawn(p)
  \/ \E g \in Gids : \/ SendUp(g) \/ Disconnect(g) \/ CarryOver(g) \/ Merge(g)
                     \/ SpawnSet(g) \/ Join(g)
  \/ ConnectSources \/ Tell \/ OpenFirst \/ JoinSources

Next == Step \/ Done

\* MPI makes every call that can complete complete.
Spec == Init /\ [][Next]_vars /\ WF_vars(Step)

-----------------------------------------------------------------------------
(* Properties. *)

\* No group is spawned by two processes, although each computes alone which ones
\* are its own ("every rank can reproduce the same strict spawn order locally",
\* Strategy_Parallel.c:356).
EachGroupOnce == \A g \in Gids : made[g] <= 1

\* No group connects to another, and the sources do not accept, before every
\* group exists and has opened its port: what common_synch is for.
AllExistFirst ==
  (\E g \in Gids : disc[g]) => \A m \in Gids : made[m] = 1 /\ opened[m]

\* The rank of a process in the final communicator: the groups by expected id
\* (Parallel), or in the order in which they merged (Multiple).
FinalRank(p) ==
  IF Parallel
    THEN Cardinality({q \in Procs : q[1] # Sources /\ ExpId(q) < ExpId(p)})
    ELSE LET turn == CHOOSE x \in DOMAIN team[0].members : team[0].members[x] = p[1]
             sum[x \in 0 .. G] == IF x = 0 THEN 0 ELSE sum[x - 1] + Size(team[0].members[x])
         IN  sum[turn - 1] + p[2]

\* Connected children are in one communicator, with no group left out or twice in
\* it, in the order of their nodes and of their ranks in the node: the order on
\* which the block distribution and the counts of the nodes rest.
OrderedChildren ==
  over => /\ {team[0].members[x] : x \in DOMAIN team[0].members} = Gids
          /\ Len(team[0].members) = G
          /\ \A p \in Procs : p[1] # Sources => FinalRank(p) = SizeBefore(p[1]) + p[2]

\* The sources and the children are connected in the end.
Connected == <>over
=============================================================================
