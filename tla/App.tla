-------------------------------- MODULE App --------------------------------
(***************************************************************************)
(* SAM running on MaM: the loop of Main.c, the phases that iterate before  *)
(* and during a reconfiguration (process_phase.c), the state machine of    *)
(* MAM_Manager.c, Children_init on the other side, the registry of data    *)
(* (MAM_Types.c), its buffers and requests, the recorded times             *)
(* (MAM_Times.c) and the results that are printed (results.c).             *)
(*                                                                         *)
(* The processes of a group execute the same calls and decide together, so *)
(* a group moves as one, each process with data of its own.  The sources   *)
(* and the children run side by side: what the sources send goes through   *)
(* wire, in the order of the collective calls, and the calls that hold     *)
(* both groups are joint actions.  AsyncSpawn, Redistribution and          *)
(* DataMovement have the interleavings inside each stage.                  *)
(***************************************************************************)
EXTENDS BlockDistribution, Sequences

CONSTANTS
  Groups,      \* n_groups
  Procs,       \* processes a group may have
  Phases,      \* n_phases
  PhaseIters,  \* iterations a phase may have
  GroupIters,  \* iterations a group may make before it reconfigures
  Data,        \* kinds of data a configuration may have
  Qty,         \* elements of each distributed array
  SpawnMethods, RedMethods

ASSUME AppAssumption ==
  /\ {Groups, Phases} \cup Procs \cup PhaseIters \subseteq Nat \ {0}
  /\ GroupIters \subseteq Nat /\ Data \subseteq SUBSET {"s", "a"}
  /\ Qty \in Nat /\ \A n \in Procs : Qty >= n
  /\ SpawnMethods \subseteq {"baseline", "merge"}
  /\ RedMethods \subseteq {"alltoall", "point", "rma"}

VARIABLES
  conf,     \* the configuration file
  pc,       \* where the sources are: the loop of main, a phase, MAM_Checkpoint
  state,    \* MAM_Manager.c: state
  out,      \* what the last MAM_Checkpoint told the application
  waiting,  \* it was called with MAM_WAIT_COMPLETION
  comm,     \* the processes of the group, by rank
  kids,     \* the processes spawned by the reconfiguration, by rank
  kpc,      \* where they are in Children_init
  wire,     \* what the sources have sent them, not yet received
  thread,   \* thread_async_work: "none", "running", "finished"
  proc,     \* the data of each process
  printed,  \* iterations of each phase written to the output files
  faults    \* buffers lost, phases_times accessed past its end, the job lost with it

vars == <<conf, pc, state, out, waiting, comm, kids, kpc, wire, thread, proc, printed, faults>>
manager == <<state, out, waiting>>
children == <<kids, kpc, wire>>

Members(s) == {s[x] : x \in DOMAIN s}
Kinds == {"s", "a"}       \* the registries of variable and of constant data
PhaseIds == 0 .. Phases - 1

Lead == proc[comm[1]]

\* modify_configuration: what MaM is told of the next resize.
Resize == conf.resizes[Lead.grp + 1]
numP == Len(comm)
numC == Resize.procs
LastGroup == Groups = Lead.grp + 1
IsKid(p) == p \in Members(kids)
Sources(Op(_, _)) == [p \in DOMAIN proc |-> IF IsKid(p) THEN proc[p] ELSE Op(p, proc[p])]
Children(Op(_, _)) == [p \in DOMAIN proc |-> IF IsKid(p) THEN Op(p, proc[p]) ELSE proc[p]]
RankIn(s, p) == (CHOOSE x \in DOMAIN s : s[x] = p) - 1

\* MAM_Check_configuration: as many targets as sources migrate with Baseline.
SpawnMethod == IF numC = numP THEN "baseline" ELSE Resize.method
Merge == SpawnMethod = "merge"
Shrinks == Merge /\ numP > numC
Zombie(p) == p \in Members(comm) /\ IF Merge THEN RankIn(comm, p) >= numC ELSE TRUE

-----------------------------------------------------------------------------
(* The registry. *)

Null == <<>>
NoEntry == [array |-> Null, slots |-> 0]

\* add_data.
Entry(block, n) == [array |-> block, slots |-> n]

\* MAM_Data_add: with the methods and targets of the start there is one request
\* for an entry of constant data.
AddData(block, k) == Entry(block, IF k = "a" THEN 1 ELSE 0)

\* MAM_Data_get_pointer.
GetPointer(q, k) == q.reg[k].array

\* Ranks of the other group that rank r of `mine` exchanges elements with.
Peers(r, mine, other) ==
  LET b == Block(Qty, r, mine) IN EndPeer(Qty, b, other) - FirstPeer(Qty, b, other)

TargetRank(p) ==
  IF IsKid(p) THEN RankIn(kids, p) + (IF Merge THEN numP ELSE 0) ELSE RankIn(comm, p)
IsTarget(p) == IsKid(p) \/ ~Zombie(p)
SendPeers(p) == IF IsKid(p) THEN 0 ELSE Peers(RankIn(comm, p), numP, numC)
RecvPeers(p) == IF IsTarget(p) THEN Peers(TargetRank(p), numC, numP) ELSE 0

\* Requests a process starts: MPI_Ialltoallv, async_point2point, async_rma_lock.
Posted(p) ==
  CASE Resize.red = "alltoall" -> 1
    [] Resize.red = "point" -> SendPeers(p) + RecvPeers(p)
    [] Resize.red = "rma" -> RecvPeers(p)

\* Mutant: the array is kept when there is one.
MutCheckRequests(p, slots) == IF slots # 0 THEN slots ELSE SendPeers(p) + RecvPeers(p)

\* check_requests.
CheckRequests(p, slots) ==
  LET sum == IF Resize.red = "alltoall" THEN 1 ELSE SendPeers(p) + RecvPeers(p)
  IN  IF slots # 0 /\ sum <= slots THEN slots ELSE sum

\* Mutant: the registry keeps the old buffer.
MutReceive(p, q, k) == [q EXCEPT !.heap = @ \cup {<<k, q.grp + 1>>}]

\* prepare_redistribution allocates what a target receives, and the registry
\* forgets the buffer it had.
Receive(p, q, k) ==
  IF IsTarget(p)
    THEN LET b == <<k, Lead.grp + 1>>
         IN  [q EXCEPT !.heap = @ \cup {b}, !.reg[k].array = b]
    ELSE q

\* send_async_data, recv_async_data, with or without the thread's blocking calls.
Blocking == conf.red_thread
Transfer(p, q, k) ==
  IF Blocking \/ k = "s" THEN Receive(p, q, k)
  ELSE LET r == Receive(p, q, k)
       IN  [r EXCEPT !.reg[k].slots = CheckRequests(p, @)]

\* free_malleability_data_struct of a process that ends inside MaM.
FreeArrays(q) == q.heap \ {q.reg[k].array : k \in Kinds}

-----------------------------------------------------------------------------
(* Times: the number of the reconfiguration that each field was set in. *)

Intervals == {"spawn", "sync", "async", "user", "mall"}
TimeFields == Intervals \X {"start", "end"}
Spawn == <<"spawn", "end">>
Broadcast == {Spawn} \cup ({"sync", "async", "user", "mall"} \X {"start"})
NoTimes == [f \in TimeFields |-> 0]
Now(q, fields) == [f \in TimeFields |-> IF f \in fields THEN Lead.grp + 1 ELSE q.times[f]]

\* MAM_Retrieve_times: the reconfigurations in which the ends of each interval
\* were taken.
RetrieveTimes(t) ==
  [f \in Intervals |->
     IF f = "spawn" THEN {t[Spawn]} ELSE {t[<<f, "start">>], t[<<f, "end">>]}]

-----------------------------------------------------------------------------
(* The results of a process. *)

\* init_results_data: the iterations captured of each phase, and the intervals of
\* each resize.
Results ==
  [idx |-> [x \in PhaseIds |-> 0], final |-> [x \in 1 .. Groups - 1 |-> [f \in Intervals |-> {}]]]

\* capture_iteration.
CaptureIteration(idx, x) == [idx EXCEPT ![x] = @ + 1]

\* capture_m_iterations: those the group has executed of this phase.
Captured(q) == [q.idx EXCEPT ![q.phase] = @ + q.iter - q.from]

\* results_comm: the intervals of the root replace those of every process.
ResultsComm(q, final) == [q EXCEPT !.final = final]

\* Mutant: the results of the current phase are not reset.
MutReset(q) == q.idx

\* reset_results_index.
Reset(q) == [x \in PhaseIds |-> IF x = q.phase THEN 0 ELSE q.idx[x]]

\* free_results_data.
FreeResults(q) == [q EXCEPT !.own = @ \ {"results"}]

-----------------------------------------------------------------------------
(* Start. *)

Structures == {"group", "config", "results"}

\* init_group_struct, and an empty registry.
Fresh ==
  [grp |-> 0, phase |-> 0, start_phase |-> 0, iter |-> 0, exec |-> 0, from |-> 0,
   idx |-> Results.idx, final |-> Results.final, own |-> {"group"},
   reg |-> [k \in Kinds |-> NoEntry], app |-> [k \in Kinds |-> Null], heap |-> {},
   times |-> NoTimes]

\* init_application: the configuration, the results and the arrays.
Original(data) ==
  [Fresh EXCEPT !.own = Structures,
                !.heap = {<<k, 0>> : k \in data},
                !.app = [k \in Kinds |-> IF k \in data THEN <<k, 0>> ELSE Null]]

\* init_originals registers the arrays, if there is a reconfiguration ahead.
InitOriginals(q) ==
  [q EXCEPT !.reg = [k \in Kinds |->
     IF Groups > 1 /\ q.app[k] # Null THEN AddData(q.app[k], k) ELSE NoEntry]]

\* free_zombie_process: the arrays of pointers and the structures.
FreeZombie(q) ==
  [FreeResults(q) EXCEPT !.app = [k \in Kinds |-> Null], !.own = @ \ {"config", "group"}]

\* The threads are chosen for the run, the rest for each resize.
Confs ==
  [procs : Procs, data : Data, qty_iters : [PhaseIds -> PhaseIters], iters : GroupIters,
   spawn_thread : BOOLEAN, red_thread : BOOLEAN,
   resizes : [1 .. Groups - 1 -> [procs : Procs, method : SpawnMethods, red : RedMethods]]]

\* Iterations of the phases before each phase.
Before ==
  LET sum[x \in 0 .. Phases] == IF x = 0 THEN 0 ELSE sum[x - 1] + conf.qty_iters[x - 1] IN sum

Init ==
  /\ conf \in Confs
  /\ pc = "top" /\ state = "NOT_STARTED" /\ out = "NOT_STARTED" /\ waiting = FALSE
  /\ comm = [r \in 1 .. conf.procs |-> <<0, r>>]
  /\ kids = <<>> /\ kpc = "none" /\ wire = <<>> /\ thread = "none"
  /\ proc = [p \in Members(comm) |-> InitOriginals(Original(conf.data))]
  /\ printed = [x \in PhaseIds |-> 0] /\ faults = {}

-----------------------------------------------------------------------------
(* main and phase_normal. *)

\* The top of the loop, and phase_normal counts from here.
Top ==
  /\ pc = "top" /\ pc' = "normal"
  /\ proc' = Sources(LAMBDA p, q :
       [q EXCEPT !.from = q.iter,
                 !.final = IF q.grp = 0 THEN @ ELSE [@ EXCEPT ![q.grp] = RetrieveTimes(q.times)]])
  /\ UNCHANGED <<conf, manager, comm, children, thread, printed, faults>>

MaxIter == IF LastGroup THEN -1 ELSE conf.iters
QtyIters == conf.qty_iters[Lead.phase]
Working == Lead.phase < Phases

\* iterate.
NormalIter ==
  /\ pc = "normal" /\ Working /\ Lead.iter < QtyIters /\ Lead.exec # MaxIter
  /\ proc' = Sources(LAMBDA p, q : [q EXCEPT !.iter = @ + 1, !.exec = @ + 1])
  /\ UNCHANGED <<conf, pc, manager, comm, children, thread, printed, faults>>

\* The group has made its iterations: back to main.
NormalStop ==
  /\ pc = "normal" /\ Working /\ Lead.iter < QtyIters /\ Lead.exec = MaxIter
  /\ proc' = Sources(LAMBDA p, q : [q EXCEPT !.idx = Captured(q)])
  /\ pc' = "decide"
  /\ UNCHANGED <<conf, manager, comm, children, thread, printed, faults>>

NormalPhase ==
  /\ pc = "normal" /\ Working /\ Lead.iter >= QtyIters
  /\ proc' = Sources(LAMBDA p, q :
       [q EXCEPT !.idx = Captured(q), !.iter = 0, !.from = 0, !.phase = @ + 1])
  /\ UNCHANGED <<conf, pc, manager, comm, children, thread, printed, faults>>

NormalEnd ==
  /\ pc = "normal" /\ ~Working /\ pc' = "decide"
  /\ UNCHANGED <<conf, manager, comm, children, thread, proc, printed, faults>>

\* A reconfiguration, or the end of the last group.
Decide ==
  /\ pc = "decide"
  /\ pc' = IF LastGroup THEN "finish" ELSE "checkpoint"
  /\ out' = "NOT_STARTED" /\ waiting' = FALSE
  /\ UNCHANGED <<conf, state, comm, children, thread, proc, printed, faults>>

\* Accesses to rows of phases_times: past the last phase there is none, and what
\* is there instead lets the job go on or ends it.
Access(rows) ==
  IF rows \subseteq PhaseIds
    THEN UNCHANGED faults
    ELSE \/ faults' = faults \cup {"beyond"}
         \/ faults' = faults \cup {"beyond", "lost"}

\* print_local_results: the root prints the phases start_phase .. actual - 1.
PrintLocal(actual) ==
  LET shown == Lead.start_phase .. actual - 1
  IN  /\ printed' = [x \in PhaseIds |-> printed[x] + IF x \in shown THEN Lead.idx[x] ELSE 0]
      /\ Access(shown)

\* print_local_results and print_final_results, then free_application_data: the
\* arrays, MAM_Finalize, and the rest as a zombie does.
Finish ==
  /\ pc = "finish" /\ pc' = "done"
  /\ PrintLocal(Lead.phase)
  /\ proc' = Sources(LAMBDA p, q :
       [FreeZombie(q) EXCEPT !.heap = @ \ {q.app[k] : k \in Kinds},
                             !.reg = [k \in Kinds |-> NoEntry]])
  /\ UNCHANGED <<conf, manager, comm, children, thread>>

-----------------------------------------------------------------------------
(* phase_reconf. *)

\* iterate_with_reconf: the iteration is captured at once.
ReconfIter ==
  /\ pc = "reconf" /\ Working /\ Lead.iter < QtyIters
  /\ proc' = Sources(LAMBDA p, q : [q EXCEPT !.idx = CaptureIteration(@, q.phase), !.iter = @ + 1])
  /\ pc' = "checkpoint" /\ waiting' = FALSE
  /\ UNCHANGED <<conf, state, out, comm, children, thread, printed, faults>>

ReconfPhase ==
  /\ pc = "reconf" /\ Working /\ Lead.iter >= QtyIters
  /\ proc' = Sources(LAMBDA p, q : [q EXCEPT !.iter = 0, !.phase = @ + 1])
  /\ UNCHANGED <<conf, pc, manager, comm, children, thread, printed, faults>>

\* Nothing left to emulate.
ReconfWait ==
  /\ pc = "reconf" /\ ~Working
  /\ pc' = "checkpoint" /\ waiting' = TRUE
  /\ UNCHANGED <<conf, state, out, comm, children, thread, proc, printed, faults>>

-----------------------------------------------------------------------------
(* MAM_Checkpoint: a stage either goes on to the next or returns. *)

At(s) == pc = "checkpoint" /\ state = s
GoOn(s) == state' = s /\ UNCHANGED <<pc, out, waiting>>
Return(s, o) ==
  /\ state' = s /\ out' = o
  /\ pc' = IF o = "COMPLETED" \/ waiting THEN "after" ELSE "reconf"
  /\ UNCHANGED waiting
Send(m) == wire' = IF kids = <<>> THEN wire ELSE Append(wire, m)

StRms ==
  /\ At("NOT_STARTED") /\ GoOn("RMS_COMPLETED")
  /\ proc' = Sources(LAMBDA p, q :
       [q EXCEPT !.times = [NoTimes EXCEPT ![<<"mall", "start">>] = Lead.grp + 1]])
  /\ UNCHANGED <<conf, comm, children, thread, printed, faults>>

\* The children exist: they call MAM_Init and enter Children_init.
NewKids ==
  LET n == IF Merge THEN numC - numP ELSE numC
  IN  [x \in 1 .. n |-> <<Lead.grp + 1, x>>]
Spawned ==
  /\ kids' = NewKids /\ kpc' = "info_a" /\ wire' = <<>>
  /\ proc' = [p \in DOMAIN proc \cup Members(NewKids) |->
                IF p \in DOMAIN proc THEN [proc[p] EXCEPT !.times = Now(proc[p], {Spawn})] ELSE Fresh]

\* spawn_step: at once, by a thread, or, to shrink, after the redistribution.
StSpawnStart ==
  /\ At("RMS_COMPLETED")
  /\ CASE Shrinks -> GoOn("SPAWN_ADAPT_POSTPONE") /\ UNCHANGED <<children, proc>>
       [] ~Shrinks /\ conf.spawn_thread ->
            Return("SPAWN_PENDING", "PENDING") /\ UNCHANGED <<children, proc>>
       [] OTHER -> GoOn("SPAWN_COMPLETED") /\ Spawned
  /\ UNCHANGED <<conf, comm, thread, printed, faults>>

StSpawnPending ==
  /\ At("SPAWN_PENDING")
  /\ \/ GoOn("SPAWN_COMPLETED") /\ Spawned
     \/ ~waiting /\ Return(state, "PENDING") /\ UNCHANGED <<children, proc>>
  /\ UNCHANGED <<conf, comm, thread, printed, faults>>

\* comm_data_info: the entries, and the requests of the root for each.
DataInfo(k) == [op |-> "info", kind |-> k, entry |-> k \in conf.data, slots |-> Lead.reg[k].slots]
DataSent(k) == [op |-> "data", kind |-> k]

\* start_redistribution.
StRedStart ==
  /\ state \in {"SPAWN_ADAPT_POSTPONE", "SPAWN_COMPLETED"} /\ pc = "checkpoint"
  /\ IF "a" \in conf.data
       THEN /\ GoOn("DIST_PENDING")
            /\ wire' = IF kids = <<>> THEN wire ELSE wire \o <<DataInfo("a"), DataSent("a")>>
            /\ thread' = IF Blocking THEN "running" ELSE "none"
            /\ proc' = Sources(LAMBDA p, q :
                 [(IF Blocking THEN q ELSE Transfer(p, q, "a"))
                        EXCEPT !.times = Now(q, {<<"async", "start">>})])
       ELSE /\ GoOn("USER_START") /\ Send(DataInfo("a"))
            /\ UNCHANGED <<thread, proc>>
  /\ UNCHANGED <<conf, comm, kids, kpc, printed, faults>>

\* thread_async_work, at any time while the application iterates.
ThreadWork ==
  /\ thread = "running" /\ thread' = "finished"
  /\ proc' = Sources(LAMBDA p, q : Transfer(p, q, "a"))
  /\ UNCHANGED <<conf, pc, manager, comm, children, printed, faults>>

\* Whether the transfers can be over; MPI_Win_free waits for the children.
RedCompletes ==
  IF Blocking THEN thread = "finished"
  ELSE Resize.red = "rma" /\ kids # <<>> => kpc = "tmp"

\* check_redistribution and thread_check.
StRedPending ==
  /\ At("DIST_PENDING")
  /\ \/ /\ RedCompletes /\ GoOn("USER_START")
        /\ proc' = Sources(LAMBDA p, q :
             [q EXCEPT !.times = IF Merge THEN Now(q, {<<"async", "end">>}) ELSE @])
     \/ ~waiting /\ Return(state, "PENDING") /\ UNCHANGED proc
  /\ UNCHANGED <<conf, comm, children, thread, printed, faults>>

\* MPI_Intercomm_merge or MPI_Comm_dup, with the children.
StUserStart ==
  /\ At("USER_START") /\ (kids # <<>> => kpc = "tmp")
  /\ GoOn("USER_PENDING")
  /\ kpc' = IF kids = <<>> THEN kpc ELSE "user"
  /\ proc' = Sources(LAMBDA p, q : [q EXCEPT !.times = Now(q, {<<"user", "start">>})])
  /\ UNCHANGED <<conf, comm, kids, wire, thread, printed, faults>>

\* user_redistribution prints with actual_phase one ahead: past the last phase when
\* the application has ended while the reconfiguration went on.
ShownPhase == Lead.phase + 1

\* user_redistribution on a source: the results of the root, and a zombie frees
\* what it has.
UserRedistribution(p, q) ==
  LET r == ResultsComm(q, Lead.final) IN IF Zombie(p) THEN FreeZombie(r) ELSE r

\* MAM_Resume_redistribution.
Resume == GoOn("USER_COMPLETED")

\* The callback: the position and the results go to the children, and the sources
\* print.
StUserPending ==
  /\ At("USER_PENDING") /\ Resume
  /\ Send([op |-> "user", grp |-> Lead.grp, iter |-> Lead.iter, phase |-> Lead.phase,
           final |-> Lead.final])
  /\ PrintLocal(ShownPhase)
  /\ proc' = Sources(LAMBDA p, q :
       [UserRedistribution(p, q) EXCEPT !.times = IF Merge THEN Now(q, {<<"user", "end">>}) ELSE @])
  /\ UNCHANGED <<conf, comm, kids, kpc, thread>>

\* end_redistribution.
StUserCompleted ==
  /\ At("USER_COMPLETED")
  /\ GoOn(IF Shrinks THEN "SPAWN_ADAPT_PENDING" ELSE "DIST_COMPLETED")
  /\ IF "s" \in conf.data
       THEN /\ wire' = IF kids = <<>> THEN wire ELSE wire \o <<DataInfo("s"), DataSent("s")>>
            /\ proc' = Sources(LAMBDA p, q :
                 [Transfer(p, q, "s")
                        EXCEPT !.times = Now(q, {<<"sync", "start">>} \cup (IF Merge THEN {<<"sync", "end">>} ELSE {}))])
       ELSE Send(DataInfo("s")) /\ UNCHANGED proc
  /\ UNCHANGED <<conf, comm, kids, kpc, thread, printed, faults>>

\* The split of the zombies.
StSpawnAdaptPending ==
  /\ At("SPAWN_ADAPT_PENDING") /\ GoOn("SPAWN_ADAPTED")
  /\ proc' = Sources(LAMBDA p, q : [q EXCEPT !.times = Now(q, {Spawn})])
  /\ UNCHANGED <<conf, comm, children, thread, printed, faults>>

\* Mutant: the children keep their own times.
MutCommitTimes(p, q) == Now(q, {<<"mall", "end">>})

\* MAM_Commit: with Baseline the children get the times only the sources know.
CommitTimes(p, q) ==
  LET t == Now(q, {<<"mall", "end">>})
  IN  IF ~Merge /\ IsKid(p)
        THEN [f \in TimeFields |-> IF f \in Broadcast THEN Lead.times[f] ELSE t[f]]
        ELSE t

\* The ranks that do not end are the first ones.
Survivors == [x \in {y \in DOMAIN comm : ~Zombie(comm[y])} |-> comm[x]]

\* MAM_Commit, in all processes: zombies end, the others are the new group.
StCompleted ==
  /\ state \in {"SPAWN_ADAPTED", "DIST_COMPLETED"} /\ pc = "checkpoint"
  /\ kids # <<>> => kpc = "commit" /\ wire = <<>>
  /\ LET stay == Survivors \o kids
     IN  /\ comm' = stay
         /\ proc' = [p \in Members(stay) |-> [proc[p] EXCEPT !.times = CommitTimes(p, proc[p])]]
         /\ faults' = IF \A p \in DOMAIN proc \ Members(stay) : FreeArrays(proc[p]) = {} /\ proc[p].own = {}
                        THEN faults ELSE faults \cup {"leak"}
  /\ Return("NOT_STARTED", "COMPLETED")
  /\ kpc' = "none" /\ thread' = "none"
  /\ UNCHANGED <<conf, kids, wire, printed>>

-----------------------------------------------------------------------------
(* Back in main. *)

\* update_surviving_targets and update_targets.
UpdateTargets(q) ==
  [q EXCEPT !.grp = @ + 1, !.start_phase = q.phase, !.exec = 0,
            !.heap = @ \ {q.app[k] : k \in conf.data},
            !.app = [k \in Kinds |-> IF k \in conf.data THEN GetPointer(q, k) ELSE Null]]

\* The survivors reset the row they are in; the children have not been in phase_reconf.
After ==
  /\ pc = "after" /\ pc' = "top"
  /\ Access(IF \A p \in Members(comm) : IsKid(p) THEN {} ELSE {Lead.phase})
  /\ proc' = [p \in DOMAIN proc |->
       UpdateTargets(IF IsKid(p) THEN proc[p] ELSE [proc[p] EXCEPT !.idx = Reset(proc[p])])]
  /\ kids' = <<>>
  /\ UNCHANGED <<conf, manager, comm, kpc, wire, thread, printed>>

-----------------------------------------------------------------------------
(* The children in Children_init. *)

Receives(at, op) == kpc = at /\ wire # <<>> /\ Head(wire).op = op /\ wire' = Tail(wire)

\* comm_data_info in the children.
KidInfo(k, at, data, next) ==
  /\ Receives(at, "info")
  /\ kpc' = IF Head(wire).entry THEN data ELSE next
  /\ proc' = Children(LAMBDA p, q : [q EXCEPT !.reg[k].slots = Head(wire).slots])
  /\ UNCHANGED <<conf, pc, manager, comm, kids, thread, printed, faults>>

\* recv_data, waits included, and the end of its requests.
KidData(k, at, next) ==
  /\ Receives(at, "data")
  /\ (k = "a" /\ Blocking => thread = "finished")
  /\ kpc' = next
  /\ proc' = Children(LAMBDA p, q :
       [Transfer(p, q, k) EXCEPT !.times = Now(q, {IF k = "a" THEN <<"async", "end">> ELSE <<"sync", "end">>})])
  /\ UNCHANGED <<conf, pc, manager, comm, kids, thread, printed, faults>>

\* Mutant: the iteration is not received.
MutInitTargets(q, m) ==
  [ResultsComm(q, m.final) EXCEPT !.grp = m.grp, !.phase = m.phase, !.own = Structures]

\* init_targets.
InitTargets(q, m) ==
  [ResultsComm(q, m.final) EXCEPT !.grp = m.grp, !.phase = m.phase, !.iter = m.iter,
                                  !.own = Structures]

KidUser ==
  /\ Receives("user", "user") /\ kpc' = "info_s"
  /\ proc' = Children(LAMBDA p, q :
       [InitTargets(q, Head(wire)) EXCEPT !.times = Now(q, {<<"user", "end">>})])
  /\ UNCHANGED <<conf, pc, manager, comm, kids, thread, printed, faults>>

ChildrenInit ==
  \/ KidInfo("a", "info_a", "data_a", "tmp") \/ KidData("a", "data_a", "tmp")
  \/ KidUser
  \/ KidInfo("s", "info_s", "data_s", "commit") \/ KidData("s", "data_s", "commit")

-----------------------------------------------------------------------------
Checkpoint ==
  \/ StRms \/ StSpawnStart \/ StSpawnPending \/ StRedStart \/ StRedPending
  \/ StUserStart \/ StUserPending \/ StUserCompleted \/ StSpawnAdaptPending \/ StCompleted

Main ==
  \/ Top \/ NormalIter \/ NormalStop \/ NormalPhase \/ NormalEnd \/ Decide \/ Finish
  \/ ReconfIter \/ ReconfPhase \/ ReconfWait \/ After

Lost == "lost" \in faults

Step == ~Lost /\ (Main \/ Checkpoint \/ ThreadWork \/ ChildrenInit)
Done == (pc = "done" \/ Lost) /\ UNCHANGED vars
Next == Step \/ Done

\* Every process keeps running and MPI completes what can be completed.
Spec == Init /\ [][Next]_vars /\ WF_vars(Step)

-----------------------------------------------------------------------------
(* Properties. *)

\* The processes of a group, survivors and children alike, are at the same point
\* of the work and record as many iterations of each phase still to be printed,
\* the count of their collective reductions (init_targets, update_targets,
\* reset_results_index).
SameProgress ==
  pc # "after" =>
    \A p \in Members(comm) :
      LET q == proc[p]
      IN  /\ \A f \in {"grp", "phase", "iter", "exec", "start_phase"} : q[f] = Lead[f]
          /\ \A x \in PhaseIds : x >= Lead.start_phase => q.idx[x] = Lead.idx[x]

\* When a group starts, the files of its predecessors hold each iteration they
\* executed, once; at the end the files hold all the work.  No access goes past
\* the last phase before the whole application is behind
\* (capture_iteration, reset_results_index, print_local_results).
ReportedOnce ==
  /\ pc \in {"top", "done"} =>
       \A x \in PhaseIds :
         printed[x] = CASE x < Lead.phase -> conf.qty_iters[x]
                        [] x = Lead.phase -> Lead.iter
                        [] x > Lead.phase -> 0
  /\ "beyond" \in faults => Lead.phase = Phases

\* The application frees the buffers the registry replaced, and MaM those of its
\* zombies: no process has a pointer to a freed buffer or a buffer without a
\* pointer, at any time; the processes at work have their structures, and those
\* that end have freed them (update_surviving_targets, free_zombie_process,
\* free_malleability_data_struct).
BuffersOwned ==
  /\ \A p \in DOMAIN proc :
       proc[p].heap = ({proc[p].app[k] : k \in Kinds}
                        \cup {proc[p].reg[k].array : k \in Kinds}) \ {Null}
  /\ pc \notin {"checkpoint", "done"} => \A p \in Members(comm) : proc[p].own = Structures
  /\ pc = "done" => \A p \in DOMAIN proc : proc[p].own = {}
  /\ "leak" \notin faults

\* A process never starts more requests than its entry has room for, whatever
\* methods and group sizes the earlier reconfigurations had (check_requests).
RequestsFit ==
  (state = "DIST_PENDING" /\ ~Blocking) =>
    \A p \in DOMAIN proc :
      (IsKid(p) => kpc = "tmp") => Posted(p) <= proc[p].reg["a"].slots

\* The root of the group, survivor or child of any of the resizes so far, holds
\* for each of them intervals whose two ends were taken in that resize, which the
\* last group prints (MAM_Retrieve_times, results_comm, print_final_results).
Measured ==
  pc \in {"normal", "finish"} =>
    \A x \in 1 .. Lead.grp :
      LET taken == Lead.final[x]
      IN  /\ \A f \in {"spawn", "user", "mall"} : taken[f] = {x}
          /\ \A f \in {"sync", "async"} : taken[f] \in {{0}, {x}}

\* SAM on MaM is a malleable application: no iteration is lost, repeated or put
\* out of order by a reconfiguration that runs while they go on, every group has
\* the size of the plan, and the work and the resizes all happen, unless the work
\* ends before a resize and an access past its results ends the job.
Position(q) == q.iter + Before[q.phase]
M == INSTANCE Malleable WITH
       plan <- [procs |-> <<conf.procs>> \o [x \in 1 .. Groups - 1 |-> conf.resizes[x].procs],
                work |-> Before[Phases]],
       group <- Lead.grp + (IF pc = "after" THEN 2 ELSE 1),
       size <- Len(comm),
       position <- Position(Lead),
       lost <- Lost
Malleability == M!Spec
=============================================================================
