------------------------------- MODULE Stages -------------------------------
(***************************************************************************)
(* The emulation of SAM, rank by rank: the stages of a phase are           *)
(* initialised, and timed by the first group (process_stage.c), executed   *)
(* iteration after iteration, and handed to the next group with the        *)
(* configuration (configuration.c, Main.c).  Ranks move on their own and   *)
(* meet in collective calls, in pairwise exchanges and in waits.           *)
(*                                                                         *)
(* What a rank has left to do in its stage is a sequence of calls <<what,  *)
(* stage, i>>; work that involves no other rank is left out.  Values of    *)
(* the clock are nondeterministic choices.  COMP_PI and COMP_MATRIX are    *)
(* "compute", COMP_BCAST, COMP_REDUCE and COMP_ALLREDUCE "collective".     *)
(***************************************************************************)
EXTENDS Integers, Sequences, FiniteSets, SequencesExt

CONSTANTS
  Procs,        \* processes a group may have
  Calibration,  \* operations timed by an initialisation (5000)
  StageTime,    \* t_stage
  Costs,        \* times of an operation a rank may measure
  Factors,      \* factor of a group
  Granularity, Bytes, \* default size of a message, and one that is given
  Iters,        \* iterations of a group
  Opens,        \* whether open() succeeds: TRUE, FALSE
  Garbage,      \* t_capped of the wait that calibrates, never initialised
  CappedWaits   \* t_capped of a WAIT stage

ASSUME StagesAssumption ==
  /\ {Calibration, StageTime, Granularity, Bytes, Iters} \cup Procs \cup Costs \cup Factors
       \subseteq Nat \ {0}
  /\ Opens \cup Garbage \cup CappedWaits \subseteq BOOLEAN

VARIABLES
  plan,   \* the configuration: stages, groups
  group,  \* the group at work, 1 or 2
  comm,   \* its processes, by rank
  kids,   \* the processes spawned for the next group
  proc    \* the memory of each process

vars == <<plan, group, comm, kids, proc>>

-----------------------------------------------------------------------------
(* The configuration. *)

Stage(k, id, bytes, capped, involved) ==
  [kind |-> k, id |-> id, bytes |-> bytes, capped |-> capped, involved |-> involved]

Single ==
  {Stage("compute", 0, 0, FALSE, 0)} \cup
  {Stage(k, 0, b, c, 0) : k \in {"point", "collective", "gather"}, b \in {0, Bytes}, c \in BOOLEAN} \cup
  {Stage(k, 0, b, c, n) : k \in {"write", "read"}, b \in {0, Bytes}, c \in BOOLEAN, n \in {0, 1}}
IPoints(id) == {Stage("ipoint", id, b, c, 0) : b \in {0, Bytes}, c \in BOOLEAN}
Waits(id) == {Stage("wait", id, 0, c, 0) : c \in CappedWaits}

\* A wait for each asynchronous exchange, after it: another stage in between,
\* or a second pair inside the first.
StageLists ==
  {<<x>> : x \in Single}
  \cup {<<a, x, w>> : a \in IPoints(1), x \in Single, w \in Waits(1)}
  \cup {<<a, b, v, w>> : a \in IPoints(1), b \in IPoints(2), v \in Waits(2), w \in Waits(1)}

StageIds == 1 .. Len(plan.stages)
Rank(p) == (CHOOSE r \in DOMAIN comm : comm[r] = p) - 1
Root == proc[comm[1]]
Ranks == {comm[r] : r \in DOMAIN comm}
Kids == {kids[r] : r \in DOMAIN kids}
Talking == Ranks \cup Kids      \* the processes of the communicator in use
numP == Len(comm)
compute == group = 1            \* i_compute: the first group times its stages
CeilDiv(a, b) == (a + b - 1) \div b

\* malloc_config_stages.
Blank == [ops |-> 0, top |-> 0, reqs |-> 0, count |-> 0, my |-> 0, counts |-> <<>>]

Fresh(n) ==
  [st |-> [s \in 1 .. n |-> Blank], mode |-> "init", s |-> 0, todo |-> <<>>, iter |-> 0,
   late |-> FALSE,    \* t_total has reached t_stage
   len |-> <<>>,      \* length of each array of requests, in pairs, as allocated
   live |-> {},       \* the arrays not freed
   active |-> {},     \* the exchanges pending, <<array, index, number>>
   posted |-> 0]      \* exchanges posted in this communicator

Init ==
  /\ \E l \in StageLists, n \in Procs, m \in Procs, b \in BOOLEAN, r \in BOOLEAN, f, g \in Factors :
       plan = [stages |-> l, procs |-> <<n, m>>, merge |-> b, rigid |-> r, factors |-> <<f, g>>]
  /\ group = 1 /\ kids = <<>>
  /\ comm = [r \in 1 .. plan.procs[1] |-> r]
  /\ proc = [p \in 1 .. plan.procs[1] |-> Fresh(Len(plan.stages))]

-----------------------------------------------------------------------------
(* The requests of a process. *)

Free(q, a) == [q EXCEPT !.live = @ \ {a}]

\* reqs of stage s becomes a new array of n pairs.
Allocate(q, s, n) ==
  LET a == Len(q.len) + 1
  IN  [q EXCEPT !.len = Append(@, n), !.live = @ \cup {a},
                !.st[s].reqs = a, !.st[s].count = n]

\* The other end of the pairwise exchanges.
Target(r) == (r + numP \div 2) % numP
Partner(p) == comm[Target(Rank(p)) + 1]

-----------------------------------------------------------------------------
(* init_stage, up to its first call. *)

Call(s) ==
  CASE plan.stages[s].kind = "point" -> "p2p"
    [] plan.stages[s].kind \in {"collective", "gather"} -> "collective"
Times(n, item) == [i \in 1 .. n |-> item]
Posts(s, n) == [i \in 1 .. n |-> <<"post", s, i>>]
WaitLap(s, i) == << <<"waitpair", s, i>>, <<"clock", s, i>>, <<"btotal", s, i>> >>
RealBytes(x) == IF x.bytes # 0 /\ ~x.capped THEN x.bytes ELSE Granularity
Involved(x, r) == x.involved = 0 \/ r < x.involved

SamBlock(qty, id, n) == qty \div n + (IF id < qty % n THEN 1 ELSE 0)

\* prepare_comm_allgatherv.
Gather(q, s, r) ==
  [q EXCEPT !.st[s].my = SamBlock(RealBytes(plan.stages[s]), r, numP),
            !.st[s].counts = [i \in 1 .. numP |-> SamBlock(RealBytes(plan.stages[s]), i - 1, numP)]]

\* The time of a stage; factor does not count in the stages of I/O.
Goal(x) == IF x.kind \in {"write", "read"} THEN StageTime ELSE StageTime * plan.factors[group]
Uncalibrated(q, s) == [q EXCEPT !.st[s].ops = CeilDiv(Goal(plan.stages[s]), q.st[s].top)]
Do(q, calls) == [q EXCEPT !.todo = calls]

InitCompute(q, s) ==
  IF compute
    THEN Do(q, << <<"measure", s, 0>>, <<"bops", s, 0>>, <<"btop", s, 0>> >>)
    ELSE Uncalibrated(q, s)

\* init_emulation_comm_time: every rank measures, the count of the root is used.
Calibrate(q, s) ==
  Do(q, << <<"barrier", s, 0>> >> \o Times(Calibration, <<Call(s), s, 0>>)
        \o << <<"barrier", s, 1>>, <<"measure", s, 0>>, <<"bops", s, 0>> >>)

\* init_comm_ptop_pt.
InitComm(q, s) ==
  LET x == plan.stages[s]
  IN  IF compute /\ x.bytes = 0 /\ ~x.capped
        THEN Calibrate(q, s)
        ELSE [q EXCEPT !.st[s].ops = 1]

\* init_comm_bcast_pt and init_comm_reduce_pt, which differ in their buffers.
InitCollective(q, s) == InitComm(q, s)

\* init_comm_allgatherv_pt.
InitGather(q, s, r) == InitComm(Gather(q, s, r), s)

\* init_emulation_icomm_time; garbage is the t_capped of its wait.
CalibrateAsync(q, s, garbage) ==
  Do(q, << <<"barrier", s, 0>> >> \o Posts(s, Calibration)
        \o (IF garbage THEN WaitLap(s, 1) ELSE << <<"waitall", s, 0>> >>)
        \o << <<"barrier", s, 1>>, <<"measure", s, 0>>, <<"bops", s, 0>>, <<"realloc", s, 0>> >>)

\* init_comm_iptop_pt: it is timed with requests of its own.
InitIPoint(old, s, garbage) ==
  LET q == Free(old, old.st[s].reqs)
  IN  IF compute /\ plan.stages[s].bytes = 0
        THEN CalibrateAsync(Allocate(q, s, Calibration), s, garbage)
        ELSE [Allocate(q, s, 1) EXCEPT !.st[s].ops = 1]

\* Mutant: a wait linked once is left as it is.
MutInitWait(q, s) ==
  IF q.st[s].reqs # 0 THEN q
  ELSE LET t == CHOOSE t \in StageIds : /\ plan.stages[t].id = plan.stages[s].id
                                        /\ \A u \in 1 .. t - 1 : plan.stages[u].id # plan.stages[s].id
       IN  [q EXCEPT !.st[s].reqs = q.st[t].reqs, !.st[s].count = q.st[t].count]

\* init_comm_wait_pt: the requests of the first stage with the same identifier.
InitWait(q, s) ==
  LET t == CHOOSE t \in StageIds : /\ plan.stages[t].id = plan.stages[s].id
                                   /\ \A u \in 1 .. t - 1 : plan.stages[u].id # plan.stages[s].id
  IN  [q EXCEPT !.st[s].reqs = q.st[t].reqs, !.st[s].count = q.st[t].count]

\* The time of an open file.
InitFile(q, s) ==
  LET x == plan.stages[s]
  IN  CASE x.bytes # 0 \/ x.capped -> [q EXCEPT !.st[s].ops = 1]
        [] compute /\ x.bytes = 0 /\ ~x.capped ->
             Do(q, << <<"barrier", s, 0>>, <<"barrier", s, 1>>, <<"measure", s, 0>>,
                      <<"bops", s, 0>>, <<"btop", s, 0>> >>)
        [] OTHER -> Uncalibrated(q, s)

\* init_io_write_pt: each rank involved has a file, and returns if it has not.
InitWrite(q, s, r, opened) ==
  IF Involved(plan.stages[s], r) /\ ~opened THEN q ELSE InitFile(q, s)

\* init_io_read_pt: every rank opens the file, the ranks not involved too.
InitRead(q, s, opened) == IF ~opened THEN q ELSE InitFile(q, s)

InitStage(old, s, r, opened, garbage) ==
  LET q == [old EXCEPT !.s = s, !.st[s].ops = Calibration]
      k == plan.stages[s].kind
  IN  CASE k = "compute" -> InitCompute(q, s)
        [] k = "point" -> InitComm(q, s)
        [] k = "collective" -> InitCollective(q, s)
        [] k = "gather" -> InitGather(q, s, r)
        [] k = "ipoint" -> InitIPoint(q, s, garbage)
        [] k = "wait" -> InitWait(q, s)
        [] k = "write" -> InitWrite(q, s, r, opened)
        [] k = "read" -> InitRead(q, s, opened)

-----------------------------------------------------------------------------
(* process_stage. *)

\* One turn of a stage limited by time.
Lap(s, i) ==
  IF plan.stages[s].kind \in {"wait", "ipoint"} THEN WaitLap(s, i)
  ELSE << <<Call(s), s, 0>>, <<"clock", s, 0>>, <<"btotal", s, 0>> >>

\* The stages that t_capped limits by time.
Limited == {"point", "collective", "gather", "wait"}

Process(q, s) ==
  LET x == plan.stages[s] IN
  CASE x.kind \in {"compute", "write", "read"} -> <<>>
    [] x.kind = "ipoint" -> Posts(s, q.st[s].ops)
    [] x.kind = "wait" /\ ~x.capped -> << <<"waitall", s, 0>> >>
    [] x.kind \in Limited /\ x.capped -> Lap(s, 1)
    [] x.kind \in Limited \ {"wait"} /\ ~x.capped -> Times(q.st[s].ops, <<Call(s), s, 0>>)

\* iterate_rigid: barriers around the iteration and after each stage.
Barrier(s) == IF plan.rigid THEN << <<"barrier", s, 0>> >> ELSE <<>>

-----------------------------------------------------------------------------
(* The steps of one rank. *)

Set(p, q) == proc' = [proc EXCEPT ![p] = q] /\ UNCHANGED <<plan, group, comm, kids>>
Head1(p) == IF proc[p].todo = <<>> THEN "next" ELSE Head(proc[p].todo)[1]
At(p, op) == p \in Talking /\ Head1(p) = op
Item(p) == Head(proc[p].todo)
Rest(q) == [q EXCEPT !.todo = Tail(@)]

\* init_phases goes on to the next stage.
NextInit(p) ==
  /\ At(p, "next") /\ proc[p].mode = "init"
  /\ IF proc[p].s < Len(plan.stages)
       THEN \E opened \in Opens, garbage \in Garbage :
              Set(p, InitStage(proc[p], proc[p].s + 1, Rank(p), opened, garbage))
       ELSE Set(p, [proc[p] EXCEPT !.mode = "run", !.s = 0, !.todo = Barrier(0)])

\* iterate_relaxed and iterate_rigid go on to the next stage, or iteration.
NextStage(p) ==
  LET q == proc[p] IN
  /\ At(p, "next") /\ q.mode = "run"
  /\ CASE q.s < Len(plan.stages) ->
            Set(p, [q EXCEPT !.s = @ + 1, !.todo = Process(q, q.s + 1) \o Barrier(q.s + 1)])
       [] q.s = Len(plan.stages) /\ q.iter + 1 < Iters ->
            Set(p, [q EXCEPT !.s = 0, !.iter = @ + 1, !.todo = Barrier(0) \o Barrier(0)])
       [] OTHER -> Set(p, [q EXCEPT !.mode = "ready", !.s = 0, !.todo = Barrier(0)])

\* t_op and the operations that fit in the time of the stage: the root has them
\* for a computation or a file, every rank for a communication.
Measures(p, s) == plan.stages[s].kind \in {"compute", "write", "read"} => Rank(p) = 0
Measure(p) ==
  /\ At(p, "measure")
  /\ LET s == Item(p)[2]
     IN  IF Measures(p, s)
           THEN \E c \in Costs :
                  Set(p, [Rest(proc[p]) EXCEPT !.st[s].top = c,
                                               !.st[s].ops = CeilDiv(Goal(plan.stages[s]), c)])
           ELSE Set(p, Rest(proc[p]))

Clock(p) ==
  /\ At(p, "clock")
  /\ \E late \in BOOLEAN : Set(p, [Rest(proc[p]) EXCEPT !.late = late])

\* point_to_point_asynch_inter.
Post(p) ==
  /\ At(p, "post")
  /\ LET q == proc[p]
         n == q.posted + 1
     IN  Set(p, [Rest(q) EXCEPT !.posted = n,
                                !.active = @ \cup {<<q.st[Item(p)[2]].reqs, Item(p)[3], n>>}])

\* The calibration of an asynchronous exchange ends with new requests.
Reallocate(p) ==
  /\ At(p, "realloc")
  /\ LET s == Item(p)[2]
         q == Free(Rest(proc[p]), proc[p].st[s].reqs)
     IN  Set(p, Allocate(q, s, q.st[s].ops))

\* The pending exchanges that a wait is for, or a cancellation.
Awaited(p) ==
  LET op == Item(p)[1]
      x == proc[p].st[Item(p)[2]]
  IN  {a \in proc[p].active : a[1] = x.reqs /\
         CASE op = "waitall" -> a[2] <= x.count
           [] op = "waitpair" -> a[2] = Item(p)[3]
           [] op = "cancel" -> a[2] > Item(p)[3]}

\* MPI_Waitall, and MPI_Cancel of what a wait limited by time leaves.
Wait(p) ==
  /\ Head1(p) \in {"waitall", "waitpair", "cancel"}
  /\ Head1(p) # "cancel" => \A a \in Awaited(p) : a[3] <= proc[Partner(p)].posted
  /\ Set(p, [Rest(proc[p]) EXCEPT !.active = @ \ Awaited(p)])

\* MPI_Sendrecv with the same rank as destination and source.
Exchange(p) ==
  /\ At(p, "p2p")
  /\ LET q == Partner(p)
     IN  /\ Partner(q) = p /\ Head1(q) = "p2p"
         /\ proc' = [r \in DOMAIN proc |-> IF r \in {p, q} THEN Rest(proc[r]) ELSE proc[r]]
  /\ UNCHANGED <<plan, group, comm, kids>>

-----------------------------------------------------------------------------
(* The collective calls. *)

\* user_redistribution with send_config_file, and init_targets with
\* recv_config_file: what each broadcast carries.
UserSends ==
  << "grp", "iter", "phase", "run_id",
     "config", "phases", "stages", "groups", "strategies", "results" >>
InitTargets ==
  << "grp", "iter", "phase", "run_id" >>
  \o << "config", "phases", "stages", "groups", "strategies" >> \o << "results" >>

Collectives == {"barrier", "collective", "bops", "btop", "btotal"} \cup Range(UserSends)

\* Mutant: every rank goes by its own clock.
MutOver(p) == proc[p].late
Over(p) == Root.late

\* Mutant: the number of operations stays with the root.
MutBcastOps(q, s) == q
BcastOps(q, s) == [q EXCEPT !.st[s].ops = Root.st[s].ops]
BcastTop(q, s) == [q EXCEPT !.st[s].top = Root.st[s].top]

\* What a process does with the result of the call.
After(p) ==
  LET item == Item(p)
      s == item[2]
      q == Rest(proc[p])
  IN CASE item[1] = "bops" -> BcastOps(q, s)
       [] item[1] = "btop" -> BcastTop(q, s)
       [] item[1] = "btotal" /\ ~Over(p) -> Do(q, Lap(s, item[3] + 1) \o q.todo)
       [] item[1] = "btotal" /\ Over(p) /\ plan.stages[s].kind \in {"wait", "ipoint"} ->
            Do(q, << <<"cancel", s, item[3]>> >> \o q.todo)
       [] item[1] = "stages" /\ p \in Kids ->
            [q EXCEPT !.st = [t \in StageIds |-> [Blank EXCEPT !.top = Root.st[t].top]]]
       [] OTHER -> q

Collective ==
  /\ \A p \in Talking : Head1(p) \in Collectives /\ Item(p) = Item(comm[1])
  /\ proc' = [p \in DOMAIN proc |-> IF p \in Talking THEN After(p) ELSE proc[p]]
  /\ UNCHANGED <<plan, group, comm, kids>>

-----------------------------------------------------------------------------
(* From one group to the next. *)

Merge == plan.merge /\ plan.procs[1] # plan.procs[2]

\* The ranks that stay: with Merge the first of them.
Staying == IF ~Merge THEN 0 ELSE IF plan.procs[2] < numP THEN plan.procs[2] ELSE numP
Stays(p) == p \in Kids \/ Rank(p) < Staying

Reconfigure ==
  /\ group = 1 /\ kids = <<>>
  /\ \A p \in Ranks : proc[p].mode = "ready" /\ proc[p].todo = <<>>
  /\ kids' = [r \in 1 .. (IF Merge THEN plan.procs[2] - numP ELSE plan.procs[2]) |-> numP + r]
  /\ proc' = [p \in DOMAIN proc \cup {kids'[r] : r \in DOMAIN kids'} |->
                IF p \in Ranks
                  THEN [proc[p] EXCEPT !.mode = "config", !.todo = [i \in DOMAIN UserSends |-> <<UserSends[i], 0, 0>>]]
                  ELSE [Fresh(0) EXCEPT !.mode = "config", !.todo = [i \in DOMAIN InitTargets |-> <<InitTargets[i], 0, 0>>]]]
  /\ UNCHANGED <<plan, group, comm>>

\* free_config: the stages that free their requests, once for each identifier.
Freeing(q) ==
  {s \in DOMAIN q.st : q.st[s].reqs # 0 /\
     (plan.stages[s].id > 0 => \A t \in 1 .. s - 1 : plan.stages[t].id # plan.stages[s].id)}
FreeConfig(q) ==
  [q EXCEPT !.mode = "gone", !.live = @ \ {q.st[s].reqs : s \in Freeing(q)},
            !.active = {a \in @ : ~\E s \in Freeing(q) : a[1] = q.st[s].reqs}]

\* The zombies are gone and the others start over in the new communicator.
StartGroup ==
  /\ \A p \in Talking : proc[p].mode = "config" /\ proc[p].todo = <<>>
  /\ group' = 2 /\ kids' = <<>>
  /\ comm' = SubSeq(comm, 1, Staying) \o kids
  /\ proc' = [p \in DOMAIN proc |->
                IF Stays(p) THEN [proc[p] EXCEPT !.mode = "init", !.s = 0, !.iter = 0, !.posted = 0]
                ELSE FreeConfig(proc[p])]
  /\ UNCHANGED plan

Finish(p) ==
  /\ group = 2 /\ At(p, "next") /\ proc[p].mode = "ready"
  /\ Set(p, FreeConfig(proc[p]))

Finished == (\A p \in DOMAIN proc : proc[p].mode = "gone") /\ UNCHANGED vars

Step(p) ==
  \/ NextInit(p) \/ NextStage(p) \/ Measure(p) \/ Clock(p) \/ Post(p) \/ Reallocate(p)
  \/ Wait(p) \/ Exchange(p) \/ Finish(p)

Next == (\E p \in DOMAIN proc : Step(p)) \/ Collective \/ Reconfigure \/ StartGroup \/ Finished

Spec == Init /\ [][Next]_vars

-----------------------------------------------------------------------------
(* Properties. *)

\* Two ranks never stand in different collective calls: each branch, loop and
\* early return of the initialisations and of the stages is taken by all.
InStep ==
  \A p, q \in Talking :
    Head1(p) \in Collectives /\ Head1(q) \in Collectives => Item(p) = Item(q)

\* The ranks at work, survivors and children of either method, agree on the
\* operations of each stage, and each contributes to an MPI_Allgatherv the
\* bytes that all the others expect of it.
SameWork ==
  \A p, q \in Ranks : proc[p].mode = "run" /\ proc[q].mode = "run" =>
    \A s \in StageIds :
      /\ proc[p].st[s].ops = proc[q].st[s].ops
      /\ plan.stages[s].kind = "gather" =>
           /\ Len(proc[p].st[s].counts) = numP
           /\ proc[p].st[s].counts[Rank(q) + 1] = proc[q].st[s].my

\* Requests are never lost: a pending exchange has a slot of its own, inside an
\* array that is not freed; a wait looks at the array in use and within it;
\* nothing is pending when the group ends, and every array is freed once.
RequestsSafe ==
  \A p \in DOMAIN proc :
    LET q == proc[p] IN
    /\ \A a \in q.active : /\ a[1] \in q.live /\ a[2] <= q.len[a[1]]
                           /\ \A b \in q.active : a[1] = b[1] /\ a[2] = b[2] => a = b
    /\ Head1(p) \in {"waitall", "waitpair", "cancel"} =>
         LET x == q.st[Item(p)[2]]
         IN  /\ x.reqs \in q.live
             /\ Head1(p) = "waitpair" => Item(p)[3] <= q.len[x.reqs]
             /\ Head1(p) = "cancel" => x.ops <= q.len[x.reqs]
    /\ q.mode = "ready" =>
         /\ q.active = {}
         /\ \A s, t \in Freeing(q) : s # t => q.st[s].reqs # q.st[t].reqs
    /\ q.mode = "gone" => q.live = {}
=============================================================================
