# Verification of Proteo

Proteo is two programs: **MaM**, a library that changes the number of
processes of a running MPI application (a *reconfiguration*: new processes are
spawned or old ones end, and the application's data moves from the *sources*
to the *targets*), and **SAM**, a synthetic application that emulates the
computation of a real one and drives MaM. This directory holds TLA+ modules
that model both programs, TLC configurations that check them on small
instances, and theorems checked by TLAPS. Paths below are relative to
`src/Codes/` unless they start with `src/`.

Contents: 1 inventory, 2 plan, 3 modules and code, 4 runs, 5 bounds,
6 fairness, 7 proofs, 8 disagreements found, 9 what is not modelled.

## 1. Inventory

Every rank of the application keeps its own copy of all this state; ranks
agree only through MPI collectives.

### State machine of a reconfiguration (`MaM/MAM_Manager.c`)
State: `state` (one of `mam_inner_states`), `mall` (ranks, communicators, the
asynchronous requests, `comm_state`, the threads), `rep_a_data`,
`dist_a_data`, ... the registered data. Operations: `MAM_Init`,
`MAM_Checkpoint`, which runs one handler `MAM_St_*` after another until one
asks to be called again, `MAM_Resume_redistribution`, `MAM_Commit`,
`MAM_Finalize`, and on the spawned side `Children_init`.
It calls every other component. Hard: each call may poll
(`MAM_CHECK_COMPLETION`) or wait (`MAM_WAIT_COMPLETION`); all the sources must
leave a stage in the same call, since the next one starts with a collective.
Correct: no rank goes on to a stage before all the ranks can; the stages
follow in order; a reconfiguration started ends.

### Asynchronous spawn (`MaM/spawn_methods/GenericSpawn.c`, `Spawn_state.c`, `Strategy_Single.c`, `Merge.c`, `Baseline.c`)
State: `spawn_state`, a mutex, two condition variables with their flags
(`waiting_completion`, `waiting_redistribution`), `spawn_data`.
Operations: `init_spawn`, `check_spawn_state`, `unset_spawn_postpone_flag`
called by the master thread, `thread_work` by a detached thread of each
source, `generic_spawn` by both. Strategies: none, SINGLE (the root spawns
alone, then tells the others the port to connect to), MULTIPLE, PARALLEL.
Hard: two threads of each of several ranks, a state read under the mutex and
used after it, condition variables waited on once, a thread that outlives
what it shares. Correct: the spawn is reported when everybody is connected,
and to everybody; ranks choose the same collective; a Merge shrink does not
split the group before the data has moved.

### Redistribution (`MAM_Manager.c`, `MaM/distribution_methods/Distributed_CommDist.c`)
State: `comm_state`, `wait_targets_posted`, requests and windows of each entry,
one thread per rank under PTHREAD. Operations: `start_redistribution`,
`check_redistribution`, `end_redistribution`, `thread_creation`,
`thread_check`, `send_*_data`, `recv_*_data`. Strategies: none, WAIT_SOURCES,
WAIT_TARGETS (an `MPI_Ibarrier` with the targets), PTHREAD. Hard: three
places post the same barrier; zombies act differently from survivors;
`MPI_Win_free` is collective. Correct: nobody leaves with a request pending,
under WAIT_TARGETS not before the targets have their data, all leave
together, every element gets to the block it belongs to.

### Block distribution (`MaM/distribution_methods/block_distribution.c`)
Pure: the block of a rank, the ranks of the other group it overlaps, counts
and displacements. Correct: consecutive balanced blocks, both sides compute
the same counts. Hard: rounding, entries smaller than a group.

### Zombie service (`MaM/MAM_Zombies.c`)
State: the table of process ids of rank 0 of each `MPI_COMM_WORLD`,
`zombies_qty`. Operations: `MAM_Zombies_update` (in `MAM_Commit`),
`MAM_I_zombies_collect`, `_split`, `_suspend`, `_awake`,
`MAM_Zombies_service_free` (in `MAM_Finalize`). Hard: the table lives across
reconfigurations in a shrinking communicator; signals race with
`sigsuspend`. Correct: the zombies of the world, all and only they, are
signalled when the world ends.

### Configuration (`MaM/MAM_Configuration.c`)
State: methods and strategies, number of targets. Operations: setters from
the application or the environment, `MAM_Check_configuration` at the start of
a reconfiguration. Hard: rules that depend on each other and on what the
last reconfiguration left. Correct: a reconfiguration runs with a combination
its stages can carry out.

### Data registry (`MaM/MAM_Types.c`, `Distributed_CommDist.c`)
State: for each kind of data (distributed or replicated, variable or constant)
parallel arrays of buffers, quantities, requests and windows. Operations:
`add_data`, `modify_data`, the description sent to the children
(`comm_data_info`), `MAM_Data_get_pointer`, `free_malleability_data_struct`.
Hard: the registry lives across reconfigurations whose methods and sizes
differ, and the buffer of an entry is replaced under the application. Correct:
requests fit the array; each buffer has one owner, who frees it.

### Physical distribution and resource manager (`MaM/spawn_methods/ProcessDist.c`, `SpawnUtils.c`, `MAM_RMS.c`)
State: the nodes, their cores, the processes of the job on each
(`assigned_cpus`) and those of the next spawn (`spawned_cpus`). Operations:
discovery from Slurm or from the processes themselves, `processes_dist` (spread
or compact), `remove_dist`, the hosts given to `MPI_Comm_spawn`, the counts
kept at the commit. Hard: three loops over partly full nodes; counts kept from
earlier reconfigurations. Correct: no node above its cores, a host for each
process, counts that say where the processes are.

### Multiple and Parallel (`Strategy_Multiple.c`, `Strategy_Parallel.c`, `PortService.c`)
State: in each group its id, the groups it spawns, ports. Children are spawned
in a group per node: by the root one after another (MULTIPLE) or in a cascade,
hypercube or diffusive (PARALLEL), which then synchronises in a tree of
messages and connects in a binary tree. Hard: nobody has the whole picture.
Correct: each group is spawned once, nobody connects before all exist, ranks
come in node order, and sources and children end up connected.

### Times (`MaM/MAM_Times.c`)
State: the start and end of each stage, in each process. Hard: with Baseline
the sources end, and only the children can report the times. Correct: the
last root holds, for each reconfiguration, intervals taken in it.

### SAM application (`SAM/Main/Main.c`, `SAM/Emulation/process_phase.c`)
State: the group, phase and iteration it is at, results, its data. Operations:
`main`, `work`, phases that iterate until their end or until `MAM_Checkpoint`
says so, the user stage, `init_targets`. It is the only client of MaM here.
Hard: the application goes on iterating while it is being reconfigured; the
targets start from the middle. Correct: the iterations of the configuration are
executed once each, in order, by groups of the sizes asked for, and reported
once.

### SAM emulation (`SAM/Emulation/process_stage.c`, `computing_func.c`, `comunication_func.c`, `io_func.c`)
State: operations, requests and buffers of each stage. Operations: the
initialisation of each kind of stage, which times it, and its execution. Hard:
loops limited by time that contain collectives; asynchronous exchanges waited
for in another stage. Correct: all ranks make the same calls and agree on the
work; nobody waits on requests that are gone.

### SAM input and output (`SAM/IOcodes/`, `SAM/Main/configuration.c`)
State: the configuration. Operations: INI and JSON readers, the broadcast to
the children, allocation and release, results. Hard: structures whose sizes
come from what was read before. Correct: what the processes hold is what the
file says; everything is freed.

The hazards of the code, each at its line, are listed in `PROJECT.json`.

## 2. Plan

In the order written, the most important behaviour first.

1. [x] `MaMStates`, `GroupSpawn` (abstract), `AsyncSpawn` (implements it),
   `AsyncSpawnProofs`.
2. [x] `Redistribution`, `DataMovementProofs` (with item 3).
3. [x] `BlockDistribution`, `DataMovement` on top of it,
   `BlockDistributionProofs`, `DataMovementProofs`.
4. [x] `Zombies`, `ProcessProofs` (with item 8).
5. [x] `Configuration`, `ConfigurationProofs`.
6. [x] `Malleable` (abstract), `App` (implements it): the whole state machine of
   the Manager, sources and children, with the registry, the times, and SAM's
   loop on top; `AppProofs`.
7. [x] `Groups`: MULTIPLE, PARALLEL and the ports; `GroupsProofs`.
8. [x] `Placement`: the physical distribution and the resource manager;
   `ProcessProofs`.
9. [x] `Stages`: the emulation; `StagesProofs`. `ConfigFile`: the configuration
   of SAM; `ConfigurationProofs`.
10. [ ] Growth of the registry past its 100 entries and its windows across
    reconfigurations; replicated entries in `DataMovement`.
11. [x] A proof of `RequestsSafe` of `Stages`, in `StagesProofs`.

Abstract specifications: `GroupSpawn`, what a spawn promises to the Manager,
and `Malleable`, what the whole promises to the user of the application. What
the movement of data promises is stated directly (`BlockReceived`).

A proof module may be about two components; those that one of them extends
together give their specifications names of their own (`RedistSpec`,
`SettingsSpec`, `ZombiesSpec`).

## 3. Modules and code

`PROJECT.json` maps every definition to its lines; in outline:

| module | models | state in the code |
|---|---|---|
| `MaMStates` | the values of `mam_inner_states`, their order | enum |
| `GroupSpawn` | what a spawn promises | - |
| `AsyncSpawn` | both threads of each source during an asynchronous spawn | `spawn_state`, flags, `spawn_data`, `state`; `mpc`/`tpc` are the program counters |
| `Redistribution` | `MAM_St_red_*`, PTHREAD threads, the children's `Children_init` | `comm_state` (in `contrib`, `decision`), `wait_targets_posted` (`arrived`), requests (`started`, `complete`) |
| `BlockDistribution` | `block_distribution.c`, as operators | - |
| `DataMovement` | the transfers of the distributed entries | receive buffers, `Counts` of both sides, window sizes |
| `Zombies` | the service over worlds that come and go | `zombies_qty`, the table, what each process does |
| `Configuration` | setters and `MAM_Check_configuration` | `mall_conf`, `numC` |
| `Malleable` | what a malleable application promises | - |
| `App` | `Main.c`, `process_phase.c`, `MAM_Checkpoint` and `Children_init` end to end, `MAM_Types.c`, `MAM_Times.c`, which results are printed | `state`, `pc`/`kpc`, `proc` (what each process holds), `wire` (what is on its way to the children) |
| `Groups` | `Strategy_Multiple.c`, `Strategy_Parallel.c`, `PortService.c` | `made`, `k` (spawns made by each process), tokens, `opened` ports, `team` (communicators) |
| `Placement` | `ProcessDist.c`, `SpawnUtils.c`, the result of `MAM_RMS.c` | `max_cpus`, `assigned_cpus`, `spawned_cpus`, `Spawn_data`, the loop indices; `where`: on which node each rank really is |
| `Stages` | `process_stage.c`, `comunication_func.c`, and the hand-over to the next group | operations and requests of each stage in each process, the calls left to make |
| `ConfigFile` | `read_ini.c`, `read_json.c`, `configuration.c` | the structures, the indices of the readers, `heap` |

**AsyncSpawn.** A step is a critical section of `spawn_mutex`, an MPI call,
or local work nobody can see. `mode` is chosen in the initial state: *generic*
(Baseline, Merge expand), *single*, *shrink* (Merge shrink, whose thread stops
at `wait_redistribution`). `MPI_Allreduce` and `MPI_Bcast` are two steps per
rank, enter and leave, so that ranks are caught inside. `waiting_completion`
starts with either value, since nothing resets it between reconfigurations.
`waiting_redistribution` may be left set too, by a Merge shrink whose PENDING
`generic_spawn` replaced: `Leftovers` gives the sets of sources that may start a
Merge shrink with it, and `stale` remembers them.
`wait_redistribution` tests its flag with an `if`: `Spurious` names the modes
in which `pthread_cond_wait` may return by itself. After a master has freed
`spawn_data`, a thread that still uses it may do so or die (`UseAfterFree`).
The synchronous path and the inside of a spawn call are one step.

**Redistribution.** `reconf` is the reconfiguration, chosen in the initial state
among those `MAM_Check_configuration` lets through: who is spawned, who ends,
strategy, intercommunicator, windows, polling or waiting. WAIT_SOURCES appears
as "none": nothing in the code reads it after the configuration. MPI is
modelled from its standard: a rank that receives cannot complete before every
source has called; an intercommunicator barrier waits for the other group.

**DataMovement.** A buffer holds the global index of each element, so a wrong
count, displacement or peer shows as a wrong element. Each process prepares
its own counts apart from the others, entry after entry, as
`prepare_redistribution` does, reusing them for an entry of the same
quantity. Sends are eager or rendezvous, as MPI allows. `get_util_ids` divides
by zero for an entry smaller than the other group; the process then crashes
(`Fault`).

**Zombies.** A rank is active, becomes a zombie when a reconfiguration leaves
it out, arms its handler, sleeps, and is woken by rank 0 of its world, or ends
with its whole world. A world of one node signals; one over several aborts.
`gapped` remembers the worlds that lost several ranks at once when they had
zombies, in whose table the code leaves gaps.

**Configuration.** A setter takes an ordinal, as the code does, one value
beyond the longest key standing for all invalid ones.

**App.** The processes of a group make the same calls, so that a group moves
as one, each process with its own data; sources and children run side by side
and meet in joint actions where the code has a call over both. Each stage of
`MAM_Checkpoint` is an action; a call that polls stops where the code returns,
and the application may iterate before it calls again. The interleavings inside
a stage are those of `AsyncSpawn` and `Redistribution`, whose results (a spawn
that finishes for all, a redistribution that all leave) are steps here. A
buffer is named by its entry and the group it was allocated for; `heap` is
what a process has allocated and not freed. A time is the number of the
reconfiguration it was taken in. When the application ends before a
reconfiguration does, the code touches a row of results past the last phase
(`Access`); what is there lets the job go on or ends it (`Lost`).

**Groups.** The first half decides who spawns what, from each process's own
arithmetic, as the code does; the second is messages between roots, ports under
the id of their group, and merges. `Homogeneous` sizes take the hypercube,
others the diffusive cascade. `Fitting` says which launches give every group of
the hypercube one spawner.

**Placement.** The loops over nodes are unrolled into steps (`Work`), each
iteration one, since their ends are the difficult part. `where` is a ghost: the
code only has the counts. Without Slurm the hosts of the launch come in any
order, so that the list may have a machine twice; `OneEach` says that it has not.

**Stages.** A rank has a list of calls left to make; a collective is made when
all are at it, an exchange when both are. Every rank measures when it calibrates
a communication, the root alone when it does a computation or a file
(`Measures`); the others get the result by the broadcasts behind it. What a clock
shows, and so how many times a rank goes round a loop limited by time, is a free
choice. The ranks that go on to the next group are the first `Staying` ones and
the children.

**ConfigFile.** A value is named by its place in the file. The INI reader is a
handler called for each line (`line` is the one it is at, `LineAfter` the next;
the sections of each kind come in the order of their indices, those of groups
anywhere among those of the phases), the JSON one may fail at every item.

## 4. Runs

The runs of parts that really stop (the spawn, the redistribution, the
movement, the zombies, the setters) use `CHECK_DEADLOCK FALSE`; that nothing
stops early is what their liveness properties and `NoCircle` are for. **Place**,
**Groups**, **App**, **Stages** and **ConfigRead** check deadlock: their end is
an explicit step.

Passing:
- **SpawnSafe**: *generic* and *single*, three sources, with spurious wake-ups.
  A source is told of a finished spawn only when every source is connected
  (`CompletedMeansConnected`; `AbsSpec`, the refinement of `GroupSpawn`); the
  masters never mix a broadcast and a reduction (`CollectivesMatch`); under
  SINGLE nobody joins without a port (`JoinAfterPort`); a waiting call returns a
  finished spawn in *generic* (`WaitReturnsFinished`).
- **SpawnLive**: the three modes under fairness, two sources. Every source is
  connected in the end (`EventuallyConnected`), in *generic* every source
  learns it (`GenericFinishes`), a shrink splits only after every source with a
  clear flag has redistributed, and as long as one flag was clear only once every
  source has come to the redistribution (`SplitAfterRedistribution`).
- **Redist**: every configuration with up to two sources and two children,
  under fairness. Under WAIT_TARGETS nobody leaves before the targets have
  their data (`WaitTargets`), or with a request of its own pending
  (`OwnRequestsComplete`); polling sources leave in the same call
  (`LeaveTogether`); every rank reaches the user stage (`EventuallyUser`).
- **Move**: every method, communicator and kind of call, two entries. Each
  target gets its block, except for what a copy of bytes leaves out
  (`BlockReceived`); both sides of every transfer have computed the same peers
  and counts, and slices stay inside their buffers (`InBounds`); no window is
  freed under a reader (`WindowHeld`), no ring of processes waits for itself
  (`NoCircle`).
- **ZombiesSafe**: worlds that expand, shrink, are replaced and end, over one
  node or several. In each world that is not in `gapped` the table names the zombies
  (`ZombiesRecorded`), only they are signalled (`OnlyZombiesSignalled`), and those
  asleep wake up (`SuspendedWoken`).
- **ConfigSetCheck**: all sequences of setter calls and reconfigurations:
  a reconfiguration runs with a combination its stages can carry out
  (`Admissible`).
- **Place**: two reconfigurations of either method over three nodes. No node
  that receives processes goes above its cores (`NodeBounds`), they are spread
  or packed as asked for (`Distributed`), each has a host (`HostsComplete`), every
  placement ends (`Ends`). `NodeBounds` and `Distributed` are about the counts;
  `CommitTracks` ties these to the processes: while the list has each machine once,
  a commit keeps true counts true (after a shrink if the ranks are in node order)
  and no machine that receives processes really runs more than it has cores.
- **Groups**: up to five groups of both strategies, in the launches that fit
  (section 8). `EachGroupOnce`; no group
  connects before all exist (`AllExistFirst`); the ranks of the children are in
  node order (`OrderedChildren`); sources and children end up connected, under
  fairness (`Connected`).
- **App**: three groups, two reconfigurations. It implements `Malleable`,
  liveness included (`Malleability`): no iteration is lost, repeated or out of
  order across a reconfiguration and all are made. The members of a group agree
  on their progress (`SameProgress`), the output files hold each iteration once and
  no row past the last phase is touched before all the work is done
  (`ReportedOnce`), no process loses a buffer or keeps a pointer to one that is
  gone (`BuffersOwned`), requests fit their array (`RequestsFit`), the
  times printed at the end of each resize are of that resize (`Measured`).
- **Stages**: one to four stages, one or two processes, two groups. The ranks
  make the same calls (`InStep`), agree on the work (`SameWork`), also after a
  reconfiguration, and wait on requests that exist (`RequestsSafe`).
- **ConfigRead**: both readers up to two phases, stages and groups. Parent and
  child hold what the file says (`Faithful`), every block is reached from a
  configuration and freed at the end, and a reader that gives up leaves only
  datatypes (`NothingLost`).

Violation (section 8): **SingleLostUpdate**.

Each property of a passing run is also run against a mutant, a changed copy of
one definition (`Mut...`, beside the original), which must violate it.

## 5. Bounds

- `MaxPolls`: polling calls before the waiting one, or the last. A call that
  polls and finds nothing changes nothing but the count, so one or two before
  each outcome give all the orders; with `LastWait` the master then blocks.
- *Sources*: two ranks show every race between a master and the thread of
  another rank; the third, in **SpawnSafe**, lets one rank be ahead of one and
  behind another. **Redist** has been run with three sources too.
- `Leftovers`: none, or the flag of one source, in **SpawnLive**: of two sources
  one then goes ahead and the other does not.
- `MaxRedist` (2): a shrink told to postpone may redistribute again; more
  would repeat.
- `Sizes` 1..3, `Quantities` {2, 5}, `MaxProcs` 4: blocks that do not align
  (3 to 2 and 2 to 3), longer and shorter blocks, an entry with fewer elements
  than ranks, one rank. `Entries` 2 is what the reuse of counts needs.
  `DataSize` 2: elements of more than one byte, of which the copy of section 8
  leaves some out.
- `WorldSizes` {1, 3, 4}, `MaxWorlds` 2: a zombie after another, a world that
  loses its last ranks or all of them, two worlds of one application.
  `Slots` 8 holds them all. A world with zombies may lose one more or several.
- `Placement`: three nodes let one be full, one partly so and one empty, which
  is what the rounds of the distribution tell apart; two reconfigurations let
  the second meet the counts the first has left. The hosts of the launch come in
  any order.
- `Groups`: five groups of at most two processes give a cascade of more than
  one step, a binary connection of three rounds and an odd number of groups in
  one of them. `AnyShape` FALSE leaves the launches that do not fit out (section 8).
- `App`: `Groups` 3, so that one group is both target and source; `Procs`
  {2, 3} gives growth, shrinkage and equal sizes; two phases, so that a
  reconfiguration may fall at the end of one or in the middle; `Qty` 4 is more
  than the processes, as the registry of SAM always has.
- `Stages`: two processes exchange in pairs; up to two asynchronous exchanges
  nested in each other, each with an identifier and a wait of its own.
  `Calibration` and `StageTime` are 2 for 5000 operations and a time; `Garbage`,
  `CappedWaits` and `Opens` choose the cases without the faults of section 8.
- Configuration with `MaxProcs` 2: only whether `numP` is less than, equal to
  or greater than `numC` matters.

## 6. Fairness

`AsyncSpawn!FairSpec`: weak fairness of each thread, of MPI's combination of a
reduction and of the children. The operating system runs every thread; the
application keeps calling `MAM_Checkpoint`, as the library demands; MPI makes
progress. It says nothing of spurious wake-ups, which nobody owes.
`Redistribution!FairSpec`: the same, and a request completes only once every
rank has started: before that a send may or may not be buffered.
`Placement`: the loops of the root go on. `Groups` and `App`: weak
fairness of the steps of the code; a process keeps running and MPI completes a
call that can complete. In `App` that includes the application's own loop,
which calls `MAM_Checkpoint` until MaM is done.
`DataMovement` uses none: each step uses up something (an entry, a peer, a
phase), so that a state with no step in which not all have returned
(`NoCircle`) is the only way not to end.

## 7. Proofs

Constants are arbitrary within the `ASSUME` of each module (a finite set of
sources with the root in it, any number of polls and redistributions, any set
of modes with spurious wake-ups, any groups, ...).

- **AsyncSpawnProofs**: `TypeCorrect`, `Connected`
  (`CompletedMeansConnected`), `NoAbort` (`NeverInvalid`), `Refinement`
  (`AbsSpec`). `CompletedMeansConnected` is not inductive: what makes it true
  is that a final state is only ever held by a connected source, and that one
  that comes out of a collective was everyone's (`FinalOK`). For SINGLE that
  needs more: the others create their thread only after the root has
  broadcast that it has the port, and from then on the root itself is past
  that phase (`RootPast`, `SingleOK`); otherwise the root, in an old phase,
  could answer for the others. `ValuesOK` confines the states to those of the
  mode, `CheckOK` keeps `check_spawn_state` from its abort. `IInv` is their
  conjunction; there is one lemma per conjunct and in it one step per action.
  On top of `IInv`: `PortFirst` (`JoinAfterPort`), `SameCollective`
  (`CollectivesMatch`), `SplitLast` (`SplitAfterRedistribution`, for
  `Spurious` without shrink and any sources with a flag left set), and
  `WaitsToTheEnd` (`WaitReturnsFinished`, which is about *generic*): the
  sources make their calls together (`Calls`), so that when one waits all do, and
  nobody contributes a pending state to the reduction behind the wait (`WaitOK`).
  `SameCollective` needs most: a source is in the
  broadcasts until its thread joins and in the reductions afterwards, and once
  the root is past the broadcasts, the announcement is on its way to everyone
  who has not joined (`MatchOK`); hence whoever reduces finds nobody waiting for
  a broadcast that is not coming.
- **BlockDistributionProofs**: blocks are consecutive and cover the array
  (`Consecutive`), differ by at most one element (`Balanced`), and overlap is
  symmetric (`OverlapSymmetric`). `CountsAre` says what `get_util_ids` and
  `prepare_comm_alltoall` compute, for every array, groups and offset: the range
  of peers is that of the ranks whose blocks meet, each count is the size of
  the overlap, and each displacement, a sum over the peers before, is where the
  overlap begins in the block. `BothSidesAgree` puts a source and a target
  together, which compute apart. `DividesByZeroWhen` says when the division of
  section 8 happens. The sum is a recursive function: `Displacements` is shown
  to be a sum by induction (`Induct`).
- **DataMovementProofs**, about `DataMovement`, for any groups, quantities,
  number of entries and method: `TransfersInBounds` (`InBounds`), `WindowsHeld`
  (`WindowHeld`), `WholeReceived` (`BlockReceived`), `NoCircles` (`NoCircle`),
  `EndsWhenEnough`. The base of all is `LayoutsHold`: every entry has the layout
  that its own quantity asks for (`Prepared`), also when it was taken from the
  previous entry, so that `BothSidesAgree` holds of any source and target, which
  is the first half of `InBounds` (`Matched`). `BlockReceived` is not inductive:
  a block is filled slice by slice, so `Delivered` says that the elements of
  every source heard so far are in their places, slices of different sources do
  not touch (`DeliveredNext`), and every element of a block has an owner among
  the peers (`AllOwnersHeard`). What the `memcpy` of section 8 leaves out of the
  slice a process keeps is missing, and only that (`Cut`): nothing with elements
  of one byte, or without blocking point-to-point under Merge. `Emptied` and
  `FreedTogether` give `WindowHeld`. `NoCircle` needs no invariant of its own:
  when everything has stopped, take the moving process that has started the
  fewest entries; what it waits for was sent and what it sent was taken
  (`SentToMe`, `AllTaken`), so it has a step. `EndsWhenEnough`: the transfer
  ends in every process exactly when no entry has fewer elements than both
  groups have processes. TLC has checked `Prepared`, `Delivered`, `Emptied` and
  `FreedTogether` on the bounds of **Move**.
- **DataMovementProofs**, about `Redistribution` (`RedistSpec`): `TypeCorrect`,
  `TargetsAwaited` (`WaitTargets`), `RequestsComplete` (`OwnRequestsComplete`),
  `TogetherCorrect` (`LeaveTogether`). The argument for the first three: a child
  enters the barrier with its data, so whatever carries the completion of a
  source's barrier (its answer, the reduction, the end of its wait) implies the
  data of all the children (`BarrierOK`); without WAIT_TARGETS a source answers
  and waits for its own requests only (`LeaveOK`). For `LeaveTogether`,
  `RoundOK` counts the reductions: all sources have had the results of as many
  of them, and if one has left its polling calls, either it has to wait, as all
  then have, or everyone has had the answer that lets it leave.
- **GroupsProofs**, for any number of sources and groups of any sizes:
  `PlanHolds`, `SpawnedOnce` (`EachGroupOnce`), `ExistFirst` (`AllExistFirst`),
  `ChildrenInOrder` (`OrderedChildren`). They are about every diffusive launch,
  every MULTIPLE, and the hypercubes that satisfy `HypercubeFits` (`Fitting`);
  the others have two spawners for a group (section 8). `PlanHolds` is about the
  arithmetic: the processes, which work out apart what to spawn, follow a plan
  (`Plan`) in which every group has one spawner, in an earlier group. For the
  hypercube, the processes of a step have seats (`Seat`) without gaps or
  repetitions, and a group has one step (`Wave`, from `FirstStepIs`, which says
  what the floor of the quotient of logarithms is) and one seat in it; for the
  cascade the slots of each wave are expected ids of earlier groups
  (`SlotBounds`, `ExpIdOf`). `Spawned` relates `made`, `parent` and `k` to that
  plan. `Messages` says that a token went up after those of all groups below;
  with the plan, whose least missing group would have a spawner that exists,
  everyone is there when the sources answer (`AllUp`). For the tree of
  connections, `Tree` counts: a team in round c has merged once for each of its
  meetings (`Meetings`) in the rounds before, and as all teams pass through the
  same rounds (`Rounds`), the one that connects and the one that accepts are in
  the same round (`MergeIs`). `Members` says that the teams share out the
  groups. `Turns` is the same for MULTIPLE, where the groups join by their
  number. The final rank is then a bijection between the processes of the
  children and 0 .. n-1 (`RankByExpId`, `RankByTurn`). TLC has checked the parts
  of the invariant on the bounds of **Groups**.
- **AppProofs**, for any number of groups, processes, phases and iterations, any
  data and methods: `SameProgressHolds`, `ReportedOnceHolds`,
  `BuffersOwnedHolds`, `RequestsFitHolds`, `MeasuredHolds`, and
  `MalleabilitySafe`, the safety part of `Malleability`. None of the five
  invariants is inductive: each speaks of some moments only, and what is true
  in between depends on the stage, on how far the children are and on what is
  on its way to them. `InvHolds` states that for every moment. `Control` says
  which stage goes with which step of the children and of the thread, and
  `Channel` which messages are on the wire then, so that every receive finds
  the one it expects. `Work` compares each process with the first one of its
  group, the children from when they have been told; `Printed` counts: what is
  printed and what still is to be printed is what was made. `Buffers` names the
  buffers of every process, by who it is, its stage and the entry: those before
  the redistribution, both, those after it. `Requests` relates the requests of
  an entry to the sizes of the two groups, `Records` the times and the records of
  the root, and of the children once told, to the reconfigurations. There is one
  lemma per action. That `check_requests` makes room for what a process posts
  (`RoomIsMade`) needs that every process has peers to count (`SomePeers`, from
  `PeersAre`). In the refinement an iteration of
  `NormalIter` or `ReconfIter` is one of `Malleable`, the commit is its `Resize`,
  and all else stutters; `Before`, a recursive function, is shown to be the sum
  it says (`BeforeIs`), by which the end of a phase changes no position. A
  job is lost (`Lose`) only where a row past the last phase was touched, and then
  all the iterations have been made. The
  assumption that counts is `AppAssumption`: no entry has fewer elements than a
  group has processes (section 8). TLC has checked the parts of the invariant
  on smaller bounds than those of **App**.
- The proofs that need induction over numbers have it from `Induct`, over a set of
  naturals, with `Least`, both from the well-foundedness of `<` in the library;
  `Recursive` says that a recursive function on an interval has the values its
  equation gives (`BlockDistributionProofs`, `GroupsProofs`).
- **ConfigurationProofs**, about `Configuration`: `StrategiesExclusive`
  (`Exclusive`, which no run repeats) and `AlwaysAdmissible` (`Admissible`) for any
  number of processes. About `ConfigFile`, for any number of groups, phases and
  stages and either reader: `FaithfulToTheFile` (`Faithful`) and `NothingIsLost`
  (`NothingLost`). Both come from `ReadInvariant`, which gives everything in closed
  form from the place of the reader: what it has stored so far (`Read`), the line
  or item that comes next, what the child has from what was broadcast (`KidIs`),
  and which blocks and datatypes are held at that place.
- **ProcessProofs**, about `Zombies`: `Recorded` (`ZombiesRecorded`), `Unkilled`
  (`OnlyZombiesSignalled`), `Woken` (`SuspendedWoken`), for any number of
  worlds that fit in the table (`n <= Slots`), in every world whose table has no
  gaps (`Whole`; section 8). None of the three is inductive. The
  invariant `ZInv` says of each world that its zombies are its last `q` ranks,
  where `q` is `zombies_qty`, that the table names these, and what the other
  ranks do: they work, or have all got the order to end and rank 0 is still
  there (`WorldOK`). The step that needs an argument is
  `MAM_I_zombies_collect`: the first zombies of a world fill the table from
  its start, and a single later one goes right behind the others
  (`CollectFirst`, `CollectOne`), which are the two cases in which the
  displacements do what they should. TLC has checked `WorldsOK` on the bounds
  of **ZombiesSafe**.
- **ProcessProofs**, about `Placement`, for any nodes, cores, processes and number
  of reconfigurations: `PlanInvariant`, `NodesBounded` (`NodeBounds`),
  `DistributedAsAsked` (`Distributed`), `EveryHost` (`HostsComplete`), and
  `CountsStayTrue` (`CommitTracks`, which states its own conditions). The bounds of
  `NodesBounded` are about the counts; where these are true, `CountsStayTrue` makes
  them bounds on the processes.
  The three about a plan speak of the end of loops. In between, `SpreadOK` says
  that the nodes with room rise together, those below the index by as much as the
  round gives, and that what is left is what the plan lacks; `CompactOK`
  that the nodes before the last one used are full and those after it
  empty; `RemoveOK` and `CutOK` that those behind the index are emptied, and how much
  the last of them gives back; `HostsOK` that the sets name a node no more often than
  it has new processes, and all of them if the plan is whole. The loop of a removal
  ends with nothing left to remove (`RemoveNodeKeeps`): its abort is never reached.
  `CommitTracks` adds `KnownOK`: the list has the machine of every rank.
- **StagesProofs**, for the lists of `StageLists`, any sizes of both groups,
  costs, factors and iterations: `MeetInStep` (`InStep`), `WorkAgreed`
  (`SameWork`) and `RequestsKept` (`RequestsSafe`), for any `Garbage`, `Opens` and
  `CappedWaits`. Their conditions are on the plan and leave out those the faults of
  section 8 can reach: `Sound`, no asynchronous exchange is calibrated if the
  uninitialised `t_capped` may be set, and there are no stages with files if one may
  fail to open; for `RequestsKept` also `Uncapped`, no wait is limited by time.
  The list only matters at the start: the steps keep the first two for any typed
  list (`PlanOK`), and the third for any that satisfies `ListOK`.
  The invariant `Inv` compares the processes two by two. `Behind` is its core:
  two processes are at the same place (a stage of the initialisation, of an
  iteration, the end), and then one has the calls of the other left to make except
  for some at the front that are not collective; or one is at a later place, and
  then the other has no collective left in its own, every place in between is
  without collectives (`QuietBetween`), and what the first has left belongs to its
  place. That is what makes two processes that both stand in a collective stand in
  the same one (`MeetInCall`); it lasts because whether a place has collectives, and
  how many, follows from the configuration and from the number of operations,
  so that the agreement on operations (`AgreeOps`) and on the time of one
  (`AgreeTop`) is part of the same induction: each is settled at a broadcast that
  all take together, the ones of the children with the configuration they receive.
  `DataOK` says what each process has by itself (its share of an
  `MPI_Allgatherv`, the operations of a stage that needs no measure), `TodoOK` which
  calls can be left at each place, `MeasuresShared` that the broadcasts follow the
  measure. There is a lemma per action: a rank that takes a step either drops a
  call that is not collective or moves to the following place (`Drops`, `Moves`),
  and both keep every pair.

  `RequestsKept` adds `Requested`, about each process by itself (`Held`). `ListOK`
  says that an asynchronous exchange is the first stage with its identifier and
  that a wait that is not limited by time follows it. `Arrays`: an array in use
  belongs to one exchange, which knows its length. `Links`: a stage passed has its
  requests, its operations are as many, and its waits have the same array; this is
  not so while a stage is calibrated, which uses an array of its own until
  `Reallocate`. `Exchanges`: what is pending has a slot of its own in such an array
  and its wait is still to come (`Pending`), which makes the end of a group empty.
  `Tidy`: what is left of a stage posts in increasing order, ends with its wait and
  only then changes the array. From `Links`, `free_config` frees through the first
  stage with each identifier, so each array once and none is left (`AllFreed`).
  TLC has checked the parts of both invariants on the bounds of **Stages**.

Only model-checked: liveness under fairness (`EventuallyConnected`,
`GenericFinishes`, `EventuallyUser`, `Ends`, `Connected` and the fairness of
`Malleability`), which is beyond the proof system, like `ENABLED`. The library's
induction theorems take an operator, which no prover here can instantiate; where a
proof needs induction over data it states it over a set, as `Induct` does.

## 8. Disagreements found

With a run, quoted with the text it disagrees with in `PROJECT.json`:
*SingleLostUpdate*: with SINGLE, `check_single_state` writes
`MAM_I_SPAWN_PENDING` from a value taken before; the thread of the root may
have written `MAM_I_SPAWN_COMPLETED`, which is lost: the spawn never ends.

The others have no run. Those marked (M) are behaviours of the models: the
definition named is violated, or the constant named lets the case happen.

Spawn and redistribution:
- (M) `GenericSpawn.c:545`: `spawn_data` is freed while threads still use it
  (`UseAfterFree` is enabled).
- (M) `GenericSpawn.c:238`: with SINGLE a call with `MAM_WAIT_COMPLETION`
  returns after the single step, pending (`WaitReturnsFinished` is about *generic*).
- (M) `GenericSpawn.c:481`: `generic_spawn` may replace the PENDING of a Merge
  shrink by POSTPONE, which costs another redistribution.
- (M) `Spawn_state.c:16`, `:24-29`, `:76-97`: only the thread that waits resets
  `waiting_redistribution`, and no reconfiguration starts by doing so. When that
  POSTPONE has replaced the PENDING, the master wakes its thread a second time,
  which no longer waits, and the flag is left set; in the next Merge shrink the
  thread of that source does not wait (`Leftovers`, `stale`). The split is
  collective, so that one source with a clear flag holds the others back until
  all have come to the redistribution; if every flag is set, the group may split
  first. A root under SINGLE whose final state was lost, as above, waits for
  this flag as well; finding it set it would spawn a second time (not modelled).
- (M) `Spawn_state.c:78`: a spurious return of `wait_redistribution` splits the
  group early (`Spurious` with shrink).
- (M) `MAM_Manager.c:1291`: `thread_check` reduces with `MPI_MAX`, so that a
  polling call joins threads that have not finished: `joining` is reached with
  requests of the thread incomplete.
- (M) `Distributed_CommDist.c:411`: elements given as bytes in the copy of the
  slice a Merge process keeps: with elements of more than one byte part of it is
  not copied (`Cut`, which `BlockReceived` leaves out).
- (M) `block_distribution.c:151`: division by zero for entries smaller than the
  other group (`PeersComputed`).
- `Distributed_CommDist.c:260`, `:224`: counts freed while a call may read them,
  or without having been prepared.
- `MAM_Manager.c:1171`: windows of the registry left for the next
  reconfiguration.

Manager and the rest:
- (M) `MAM_Zombies.c:108`: each displacement adds `zombies_qty` to the one
  before, so that a world with zombies that loses several ranks at once leaves gaps
  in its table: some zombies are not signalled, and `kill` is called with the 0
  of the places between, which stands for the whole process group. Such worlds are
  in `gapped`; writes past the table are left out. A world that loses one rank at a
  time is right.
- (M) `MAM_Zombies.c:148`: a signal between `sigaction` and `sigsuspend` is lost:
  a zombie that is `armed` when rank 0 signals stays suspended for ever.
  `MAM_Zombies.c:38`: a table of 1024.
- `MAM_Configuration.c:159` takes ordinals where `MAM_Configuration.h:48-49`
  documents bit masks.
- `MAM_Manager.c:327`: `MAM_Resume_redistribution` sets the state whatever it
  was; `:314`: `MAM_Checkpoint` replaces `MAM_USER_PENDING` before returning.
- `MAM_Types.c:262`, `:281`: growth of the registry past its initial size.

Placement and groups:
- (M) `MAM_RMS.c:236-246` lists a host twice when three or more are met in turn,
  against its comment at 191-200: the counts of the two entries are then not
  those of the machine (the case outside `OneEach`).
- `ProcessDist.c:332-335`: spread takes the number of nodes used for the index
  after the last; with gaps a process gets no host (`HostsComplete` is about
  nodes without gaps). `:119`: the search for the first used node has no bound.
  `:444`: `hostlist_str` may be freed without having been set.
- `ProcessDist.c:154`: `remove_dist` empties the last nodes, which are those of
  the last ranks only while ranks are in node order (`CommitTracks` says so).
- (M) `Strategy_Parallel.c:356`: hypercubes whose sources are not as many per
  node as the children spawn groups twice (`AnyShape` TRUE, outside `Fitting`).
  `:401`, whose FIXME says so, and `:488-491`: the room for communicators is an
  estimate. `:289`: the floor of a quotient of logarithms, which rounding may
  take below an integer; `FloorLog` is the exact one.

SAM:
- (M) `Main.c:603-605`: the user stage raises the phase by one to print. If the
  application has ended before the reconfiguration (`process_phase.c:120-122`) it is
  then past the last phase, and `Main.c:189-192` prints a row of `phases_times` that
  does not exist (`results.c:325`, `:339`); `Main.c:111` resets it
  (`results.c:127-131`). The model lets the job go on or be lost (`Access`).
- `results.c:139`, called by `Main.c:176`: the reductions start at the phase
  reached, while the phases printed are those before it; what is printed of them
  are the times of the root. `process_phase.c:52` may read the phase after the
  last.
- `results.c:217`: the mean is taken from the times of the iterations whatever
  array is asked for; `:238-240`: a difference of times returned as an integer.
- (M) `process_stage.c:286`: the wait that calibrates leaves `t_capped`
  uninitialised (`Garbage`); `:545`, `:594`: a failed open returns before the
  barriers of the others (`Opens`); `:189-200`: a capped wait goes past its
  requests (`CappedWaits`). `comunication_func.c:27`, `:34`: with an odd number
  of processes the partner of a process exchanges with another one.
- `configuration.c:595`: three types in an array of two.
- `read_ini.c:53-57`, `:80`, `:123`: the section names expected are made from
  the indices reached, so that a section out of the order of its index is
  ignored and what it should give stays as it was. `:228`: keys of a section in
  another order than the repository's files are ignored; `:89`: a stage after
  the last phase is written past the array; `Total_Stages` 0 never advances.
  `read_ini_file` returns NULL without freeing; the datatypes committed stay
  after `free_config_partial`.

## 9. Not modelled

Inside the modelled parts: INI sections out of the order of their indices (the
reader ignores them, section 8); asynchronous exchanges that share an identifier
and a single wait, which the generator of configurations allows (the lists of
`Stages` give each its own); a second spawn by a SINGLE root whose final state
was lost and that finds its flag set; replicated entries (one broadcast), the
growth of the registry and its windows across reconfigurations, `MAM_Init`'s
options, Slurm's interface and strings, the retries of a port lookup (the port
is published before it is looked up, which `AllExistFirst` shows), the
reductions and formats of the results, the bytes of the files and the
computation of the emulation. Left out for good: the vendored parsers
(`cJSON.c`, `ini.c`), third-party code whose lines and items `ConfigFile` takes
as given; the scripts, notebooks, generator and manual under `src/Analysis`,
`src/Exec`, `src/GenConfig`, `src/Manual_Latex` and `src/Results`, which are not
part of the running system.
