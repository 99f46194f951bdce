----------------------------- MODULE AppProofs -----------------------------
(* SAM on MaM, for every number of groups, processes, phases and            *)
(* iterations.  Inv is inductive; from it follow that survivors and         *)
(* children go on from the same point, that each iteration is printed once, *)
(* that no buffer is lost, that the requests of a process fit in its        *)
(* entry, that the times of each resize are whole, and that each step of    *)
(* the application is a step of Malleable or leaves it alone.               *)
EXTENDS App, BlockDistributionProofs, SequenceTheorems

-----------------------------------------------------------------------------
(* The inductive invariant.                                                 *)

(* What a process holds.                                                    *)
Buffer == (Kinds \X Nat) \cup {Null}
(* The registry of a process: the array and the room for requests of each   *)
(* kind.                                                                    *)
Registry == [Kinds -> [array : Buffer, slots : Nat]]
(* The intervals recorded of each resize.                                   *)
Finals == [1 .. Groups - 1 -> [Intervals -> SUBSET Nat]]
(* A process, as its fields are.                                            *)
Process ==
  [grp : Nat, phase : 0 .. Phases, start_phase : 0 .. Phases, iter : Nat, exec : Nat, from : Nat,
   idx : [PhaseIds -> Nat], final : Finals, own : SUBSET Structures,
   reg : Registry, app : [Kinds -> Buffer], heap : SUBSET (Kinds \X Nat),
   times : [TimeFields -> Nat]]

(* A reconfiguration is going on.                                           *)
Reconf == pc \in {"checkpoint", "reconf"}

(* The type of each variable.                                               *)
Types ==
  /\ conf \in Confs /\ thread \in {"none", "running", "finished"} /\ waiting \in BOOLEAN
  /\ comm \in Seq(Nat \X Nat) /\ kids \in Seq(Nat \X Nat) /\ printed \in [PhaseIds -> Nat]
  /\ proc \in [Members(comm) \cup Members(kids) -> Process]

(* The group at work, its size, and the children spawned for the next one.  *)
Groupings ==
  /\ Len(comm) >= 1 /\ \A x, y \in DOMAIN comm : comm[x] = comm[y] => x = y
  /\ \A x \in DOMAIN kids : kids[x] = <<Lead.grp + 1, x>>
  /\ Lead.grp < Groups
  /\ pc # "after" => /\ \A x \in DOMAIN comm : comm[x][1] <= Lead.grp
                     /\ Len(comm) = IF Lead.grp = 0 THEN conf.procs ELSE conf.resizes[Lead.grp].procs
  /\ pc = "after" => /\ \A x \in DOMAIN comm : comm[x][1] <= Lead.grp + 1
                     /\ Members(kids) \subseteq Members(comm) /\ Len(comm) = Resize.procs
  /\ Reconf \/ pc = "after" => Lead.grp < Groups - 1

-----------------------------------------------------------------------------
(* The stages of a reconfiguration.                                         *)

(* The stages before the redistribution starts.                             *)
NotSent == {"NOT_STARTED", "RMS_COMPLETED", "SPAWN_PENDING", "SPAWN_ADAPT_POSTPONE",
            "SPAWN_COMPLETED"}
(* From its start to the end of the callback.                               *)
Sent == {"DIST_PENDING", "USER_START", "USER_PENDING", "USER_COMPLETED"}
(* The zombies are split off, to shrink.                                    *)
Split == {"SPAWN_ADAPT_PENDING", "SPAWN_ADAPTED"}
(* The stages after the sources have printed.                               *)
Shown == {"USER_COMPLETED", "DIST_COMPLETED"} \cup Split
(* The stages after the variable data has been redistributed.               *)
Ended == {"DIST_COMPLETED"} \cup Split

(* Nobody has been spawned.                                                 *)
NoKids == kids = <<>> /\ kpc = "none" /\ wire = <<>>

(* Where the sources, the children and the thread are.                      *)
Control ==
  /\ pc \in {"top", "normal", "decide", "finish", "done", "checkpoint", "reconf", "after"}
  /\ state \in NotSent \cup Sent \cup Ended
  /\ ~Reconf => state = "NOT_STARTED" /\ kpc = "none" /\ wire = <<>> /\ thread = "none"
  /\ ~Reconf /\ pc # "after" => kids = <<>>
  /\ pc = "reconf" => state \in {"SPAWN_PENDING", "DIST_PENDING"} /\ ~waiting
  /\ Reconf =>
     /\ state \in {"NOT_STARTED", "RMS_COMPLETED"} => ~waiting
     /\ state = "SPAWN_PENDING" => ~Shrinks
     /\ state \in (NotSent \ {"SPAWN_COMPLETED"}) \cup Split => NoKids
     /\ state \in {"SPAWN_ADAPT_POSTPONE"} \cup Split => Shrinks
     /\ state \in {"SPAWN_COMPLETED", "DIST_COMPLETED"} => ~Shrinks /\ kids = NewKids
     /\ state \in Sent => IF Shrinks THEN NoKids ELSE kids = NewKids
     /\ state \in NotSent => thread = "none"
     /\ state = "DIST_PENDING" =>
          "a" \in conf.data /\ thread \in IF Blocking THEN {"running", "finished"} ELSE {"none"}
     /\ state \notin NotSent \cup {"DIST_PENDING"} =>
          thread = IF "a" \in conf.data /\ Blocking THEN "finished" ELSE "none"

(* What the children have still to receive.                                 *)
Info(k, n) == [op |-> "info", kind |-> k, entry |-> k \in conf.data, slots |-> n]
(* What the callback sends.                                                 *)
UserMsg ==
  [op |-> "user", grp |-> Lead.grp, iter |-> Lead.iter, phase |-> Lead.phase, final |-> Lead.final]
(* What is sent of a kind of data.                                          *)
Entries(k, n) == IF k \in conf.data THEN <<Info(k, n), DataSent(k)>> ELSE <<Info(k, n)>>

(* The children wait for the entry, for its data, or have both.             *)
Arriving(k, info, data, next) ==
  \/ kpc = info /\ \E n \in Nat : wire = Entries(k, n)
  \/ kpc = data /\ wire = <<DataSent(k)>> /\ k \in conf.data
  \/ kpc = next /\ wire = <<>>

(* What the wire holds at each stage.                                       *)
Channel ==
  Reconf /\ kids # <<>> =>
    /\ state = "SPAWN_COMPLETED" => kpc = "info_a" /\ wire = <<>>
    /\ state \in {"DIST_PENDING", "USER_START"} => Arriving("a", "info_a", "data_a", "tmp")
    /\ state = "USER_PENDING" => kpc = "user" /\ wire = <<>>
    /\ state = "USER_COMPLETED" =>
         (kpc = "user" /\ wire = <<UserMsg>>) \/ (kpc = "info_s" /\ wire = <<>>)
    /\ state = "DIST_COMPLETED" =>
         \/ kpc = "user" /\ \E n \in Nat : wire = <<UserMsg>> \o Entries("s", n)
         \/ Arriving("s", "info_s", "data_s", "commit")

(* Where the children are when they know the position of the group.         *)
Told == {"info_s", "data_s", "commit"}

-----------------------------------------------------------------------------
(* The work.                                                                *)

(* A process at the point of the work where the group is.                   *)
AsLead(q) == q.grp = Lead.grp /\ q.phase = Lead.phase /\ q.iter = Lead.iter

(* A member that has also the counts of the group.                          *)
Beside(q) ==
  /\ AsLead(q) /\ q.exec = Lead.exec /\ q.start_phase = Lead.start_phase
  /\ pc = "normal" => q.from = Lead.from
  /\ \A x \in PhaseIds : x >= Lead.start_phase => q.idx[x] = Lead.idx[x]

(* The members of the group are at the same point, and those that join it   *)
(* will be.                                                                 *)
Work ==
  /\ pc = "normal" => Lead.from <= Lead.iter
  /\ Lead.iter <= IF Working THEN QtyIters ELSE 0
  /\ pc \in {"finish", "done"} => ~Working /\ LastGroup
  /\ pc = "decide" /\ LastGroup => ~Working
  /\ Lead.start_phase <= Lead.phase
  /\ pc = "top" =>
       Lead.start_phase = Lead.phase /\ \A x \in PhaseIds : x >= Lead.phase => Lead.idx[x] = 0
  /\ pc # "after" =>
       /\ \A x \in PhaseIds : x > Lead.phase => Lead.idx[x] = 0
       /\ \A p \in Members(comm) : Beside(proc[p])
  /\ pc = "after" => \A p \in Members(comm) :
       /\ AsLead(proc[p]) /\ \A x \in PhaseIds : x > Lead.phase => proc[p].idx[x] = 0
       /\ IsKid(p) => \A x \in PhaseIds : proc[p].idx[x] = 0
  /\ Reconf => \A p \in Members(kids) :
       /\ proc[p].exec = 0 /\ proc[p].start_phase = 0 /\ \A x \in PhaseIds : proc[p].idx[x] = 0
       /\ kpc \in Told => AsLead(proc[p])

(* The iterations made of a phase, and those not yet written to a file.     *)
Made(x) == IF x < Lead.phase THEN conf.qty_iters[x] ELSE IF x = Lead.phase THEN Lead.iter ELSE 0
(* The iterations of a phase executed and not yet in a file.                *)
Unprinted(x) ==
  IF pc \in {"done", "after"} \/ state \in Shown THEN 0
  ELSE (IF x >= Lead.start_phase THEN Lead.idx[x] ELSE 0)
       + (IF pc = "normal" /\ x = Lead.phase THEN Lead.iter - Lead.from ELSE 0)

(* Each iteration made is in a file or still to be printed.                 *)
Printed == \A x \in PhaseIds : printed[x] + Unprinted(x) = Made(x)

-----------------------------------------------------------------------------
(* The buffers.                                                             *)

(* The buffer of the g-th group for a kind of data.                         *)
Buf(k, g) == IF k \in conf.data THEN <<k, g>> ELSE Null
(* The buffers a process has a pointer to.                                  *)
Held(q) == ({q.app[k] : k \in Kinds} \cup {q.reg[k].array : k \in Kinds}) \ {Null}

(* The targets have the constant data of the next group.                    *)
MovedA == Reconf /\ IF Blocking THEN thread = "finished" ELSE state \notin NotSent
(* The targets have the variable data of the next group.                    *)
MovedS == Reconf /\ state \in Ended
(* A zombie that has freed what it had.                                     *)
Gone(p) == Reconf /\ state \in Shown /\ Zombie(p)

(* A source: the zombies have freed what they had, the others have received *)
(* the arrays that have moved.                                              *)
SourceHolds(q, g, gone, a, s) ==
  /\ q.own = (IF gone THEN {} ELSE Structures)
  /\ \A k \in Kinds :
       /\ q.app[k] = IF gone THEN Null ELSE Buf(k, g)
       /\ q.reg[k].array = IF (k = "a" /\ a) \/ (k = "s" /\ s) THEN Buf(k, g + 1)
                           ELSE IF Groups > 1 THEN Buf(k, g) ELSE Null

(* A child: the arrays it has received, and the structures once it is told. *)
KidHolds(q, g, told, a, s) ==
  /\ q.own = (IF told THEN Structures ELSE {"group"})
  /\ \A k \in Kinds :
       /\ q.app[k] = Null
       /\ q.reg[k].array = IF (k = "a" /\ a) \/ (k = "s" /\ s) THEN Buf(k, g + 1) ELSE Null

(* The children have the constant data.                                     *)
KidHasA == kpc \notin {"info_a", "data_a"}
(* The children have the variable data.                                     *)
KidHasS == kpc = "commit"

(* No buffer is lost and no pointer is left to a freed one.                 *)
HeapsHold == \A p \in DOMAIN proc : proc[p].heap = Held(proc[p])
(* The buffers of the group at work.                                        *)
SourcesHold ==
  pc \notin {"done", "after"} => \A p \in Members(comm) :
    SourceHolds(proc[p], Lead.grp, Gone(p), MovedA /\ ~Zombie(p), MovedS /\ ~Zombie(p))
(* The buffers of the children.                                             *)
KidsHold ==
  Reconf => \A p \in Members(kids) :
    KidHolds(proc[p], Lead.grp, kpc \in Told, KidHasA, KidHasS)
(* The buffers of a group that has just been committed.                     *)
GroupHolds ==
  pc = "after" => \A p \in Members(comm) :
    /\ proc[p].own = Structures
    /\ \A k \in Kinds : /\ proc[p].app[k] = IF IsKid(p) THEN Null ELSE Buf(k, Lead.grp)
                        /\ proc[p].reg[k].array = Buf(k, Lead.grp + 1)
(* Nothing is left at the end.                                              *)
EndHolds ==
  pc = "done" => \A p \in Members(comm) :
    proc[p].own = {} /\ \A k \in Kinds : proc[p].app[k] = Null /\ proc[p].reg[k].array = Null

(* What an access past the results may do: no buffer is lost.               *)
Faults == {"beyond", "lost"}
(* The buffers of all processes.                                            *)
Buffers == HeapsHold /\ SourcesHold /\ KidsHold /\ GroupHolds /\ EndHolds /\ faults \subseteq Faults

(* A step that accesses no row past the last phase before the work is over. *)
Accessed ==
  \/ UNCHANGED faults
  \/ /\ Lead.phase = Phases
     /\ faults' = faults \cup {"beyond"} \/ faults' = faults \cup {"beyond", "lost"}

(* The requests of those who have started theirs.                           *)
Fits(p) == Posted(p) <= proc[p].reg["a"].slots
(* Those who have started their requests had room for them.                 *)
Requests ==
  Reconf /\ "a" \in conf.data /\ ~Blocking =>
    /\ state \notin NotSent => \A p \in Members(comm) : Fits(p)
    /\ KidHasA => \A p \in Members(kids) : Fits(p)

-----------------------------------------------------------------------------
(* The times.                                                               *)

(* Times and conditions under which a field has been set.                   *)
Set(t, f, n, cond) == t[f] = (IF cond THEN n ELSE 0)

(* The times of a source at each stage.                                     *)
SourceTimes(t, n) ==
  /\ Set(t, <<"mall", "start">>, n, TRUE)
  /\ Set(t, Spawn, n, state = "SPAWN_ADAPTED"
                      \/ (state \in {"SPAWN_COMPLETED", "DIST_COMPLETED"} \cup Sent /\ ~Shrinks))
  /\ Set(t, <<"async", "start">>, n, state \notin NotSent /\ "a" \in conf.data)
  /\ Set(t, <<"user", "start">>, n, state \in {"USER_PENDING"} \cup Shown)
  /\ Set(t, <<"sync", "start">>, n, state \in Ended /\ "s" \in conf.data)
  /\ Merge => /\ Set(t, <<"async", "end">>, n, state \notin NotSent \cup {"DIST_PENDING"}
                                               /\ "a" \in conf.data)
              /\ Set(t, <<"user", "end">>, n, state \in Shown)
              /\ Set(t, <<"sync", "end">>, n, state \in Ended /\ "s" \in conf.data)

(* The times of a child at each step of Children_init.                      *)
KidTimes(t, n) ==
  /\ Set(t, <<"async", "end">>, n, KidHasA /\ "a" \in conf.data)
  /\ Set(t, <<"user", "end">>, n, kpc \in Told)
  /\ Set(t, <<"sync", "end">>, n, KidHasS /\ "s" \in conf.data)

(* All ends were taken in resize n.                                         *)
Taken(t, n) ==
  LET ends == RetrieveTimes(t)
  IN  /\ \A f \in {"spawn", "user", "mall"} : ends[f] = {n}
      /\ \A f \in {"sync", "async"} : ends[f] \in {{0}, {n}}

(* The resizes recorded.                                                    *)
Recorded(final, n) ==
  \A x \in 1 .. n : /\ \A f \in {"spawn", "user", "mall"} : final[x][f] = {x}
                    /\ \A f \in {"sync", "async"} : final[x][f] \in {{0}, {x}}

(* The resizes that the root of the group has recorded.                     *)
GroupRecords ==
  /\ Recorded(Lead.final, IF pc = "top" THEN Lead.grp - 1 ELSE Lead.grp)
  /\ pc = "top" /\ Lead.grp > 0 => Taken(Lead.times, Lead.grp)
  /\ pc = "after" => Taken(Lead.times, Lead.grp + 1)
(* The times of the resize going on.                                        *)
RootTimes == Reconf /\ state # "NOT_STARTED" => SourceTimes(Lead.times, Lead.grp + 1)
(* The times and the records of the children.                               *)
KidsRecord ==
  Reconf => \A p \in Members(kids) :
    KidTimes(proc[p].times, Lead.grp + 1) /\ (kpc \in Told => proc[p].final = Lead.final)
(* The records of all processes.                                            *)
Records == GroupRecords /\ RootTimes /\ KidsRecord

(* The inductive invariant.                                                 *)
Inv ==
  /\ Types /\ Groupings /\ Control /\ Channel /\ Work /\ Printed /\ Buffers /\ Requests /\ Records

-----------------------------------------------------------------------------
(* The configuration and the group.                                         *)

(* What a configuration holds.                                              *)
LEMMA ConfIs ==
  ASSUME conf \in Confs
  PROVE  /\ Groups \in Nat \ {0} /\ Phases \in Nat \ {0} /\ conf.procs \in Nat \ {0}
         /\ conf.qty_iters \in [PhaseIds -> Nat \ {0}] /\ conf.iters \in Nat
         /\ conf.data \in SUBSET Kinds /\ conf.red_thread \in BOOLEAN /\ conf.spawn_thread \in BOOLEAN
         /\ \A x \in 1 .. Groups - 1 : /\ conf.resizes[x].procs \in Nat \ {0}
                                       /\ conf.resizes[x].method \in {"baseline", "merge"}
                                       /\ conf.resizes[x].red \in {"alltoall", "point", "rma"}
                                       /\ conf.resizes[x].procs \in Procs
         /\ conf.procs \in Procs
<1>1. Groups \in Nat \ {0} /\ Phases \in Nat \ {0} /\ Procs \subseteq Nat \ {0}
  BY AppAssumption
<1>2. conf.qty_iters \in [PhaseIds -> Nat \ {0}]
  BY AppAssumption DEF Confs
<1>3. /\ conf.iters \in Nat /\ conf.data \in SUBSET Kinds /\ conf.red_thread \in BOOLEAN
      /\ conf.spawn_thread \in BOOLEAN /\ conf.procs \in Procs
  BY AppAssumption DEF Confs, Kinds
<1>4. conf.resizes \in [1 .. Groups - 1 -> [procs : Procs, method : SpawnMethods, red : RedMethods]]
  BY DEF Confs
<1>5. ASSUME NEW x \in 1 .. Groups - 1
      PROVE  /\ conf.resizes[x].procs \in Procs
             /\ conf.resizes[x].method \in {"baseline", "merge"}
             /\ conf.resizes[x].red \in {"alltoall", "point", "rma"}
  BY <1>4, AppAssumption
<1> QED BY <1>1, <1>2, <1>3, <1>5

(* The processes of the group.                                              *)
LEMMA GroupIs ==
  ASSUME Types, Groupings
  PROVE  /\ numP \in Nat \ {0} /\ DOMAIN comm = 1 .. numP /\ comm[1] \in Members(comm)
         /\ Members(comm) \subseteq DOMAIN proc /\ Members(kids) \subseteq DOMAIN proc
         /\ DOMAIN proc = Members(comm) \cup Members(kids)
         /\ \A p \in DOMAIN proc : proc[p] \in Process
         /\ Lead \in Process /\ Lead.grp \in Nat
         /\ \A x \in 1 .. numP : comm[x] \in Members(comm) /\ RankIn(comm, comm[x]) = x - 1
         /\ \A p \in Members(comm) : \E x \in 1 .. numP : p = comm[x]
         /\ Len(kids) \in Nat /\ DOMAIN kids = 1 .. Len(kids)
         /\ \A p : IsKid(p) <=> p \in Members(kids)
<1>1. numP \in Nat \ {0} /\ DOMAIN comm = 1 .. numP
  BY DEF Types, Groupings, numP
<1>2. \A x \in 1 .. numP : comm[x] \in Members(comm)
  BY <1>1 DEF Members
<1>3. comm[1] \in Members(comm)
  BY <1>1, <1>2
<1>4. DOMAIN proc = Members(comm) \cup Members(kids) /\ \A p \in DOMAIN proc : proc[p] \in Process
  BY DEF Types
<1>5. Lead \in Process
  BY <1>3, <1>4 DEF Lead
<1>6. Lead.grp \in Nat
  BY <1>5 DEF Process
<1>7. \A x \in 1 .. numP : RankIn(comm, comm[x]) = x - 1
  <2>1. ASSUME NEW x \in 1 .. numP PROVE RankIn(comm, comm[x]) = x - 1
    <3> DEFINE z == CHOOSE y \in DOMAIN comm : comm[y] = comm[x]
    <3>1. z \in DOMAIN comm /\ comm[z] = comm[x]
      BY <1>1
    <3>2. z = x
      BY <1>1, <3>1 DEF Groupings
    <3> QED BY <3>2 DEF RankIn
  <2> QED BY <2>1
<1>8. \A p \in Members(comm) : \E x \in 1 .. numP : p = comm[x]
  BY <1>1 DEF Members
<1>9. Len(kids) \in Nat /\ DOMAIN kids = 1 .. Len(kids)
  BY DEF Types
<1>10. \A p : IsKid(p) <=> p \in Members(kids)
  BY DEF IsKid
<1> QED BY <1>1, <1>2, <1>3, <1>4, <1>5, <1>6, <1>7, <1>8, <1>9, <1>10

(* Before the children join the group, they are not of it.                  *)
LEMMA Apart ==
  ASSUME Types, Groupings, pc # "after"
  PROVE  \A p \in Members(comm) : ~IsKid(p)
<1>1. Lead.grp \in Nat /\ DOMAIN comm = 1 .. numP /\ \A x \in DOMAIN comm : comm[x] \in Nat \X Nat
  BY GroupIs DEF Types
<1>2. ASSUME NEW x \in DOMAIN comm, NEW y \in DOMAIN kids PROVE comm[x] # kids[y]
  <2>1. comm[x][1] <= Lead.grp /\ kids[y] = <<Lead.grp + 1, y>> /\ comm[x][1] \in Nat
    BY <1>1 DEF Groupings
  <2>2. kids[y][1] = Lead.grp + 1
    BY <2>1
  <2> QED BY <1>1, <2>1, <2>2
<1> QED BY <1>2 DEF Members, IsKid

(* A resize ahead is one of the configuration.                              *)
LEMMA Ahead ==
  ASSUME Types, Groupings, Lead.grp < Groups - 1
  PROVE  Groups > 1 /\ Groups \in Nat /\ Lead.grp < Groups /\ Lead.grp + 1 \in 1 .. Groups - 1
<1>1. Lead.grp \in Nat
  BY GroupIs
<1>2. Groups \in Nat
  BY ConfIs DEF Types
<1> QED BY <1>1, <1>2

(* The next resize.                                                         *)
LEMMA ResizeIs ==
  ASSUME Types, Groupings, Lead.grp < Groups - 1
  PROVE  /\ numC \in Nat \ {0} /\ numC \in Procs /\ Resize.red \in {"alltoall", "point", "rma"}
         /\ Merge \in BOOLEAN /\ Shrinks \in BOOLEAN /\ (Merge => numC # numP)
         /\ pc # "after" => numP \in Procs
<1>1. Lead.grp + 1 \in 1 .. Groups - 1 /\ Groups \in Nat
  BY Ahead
<1>2. numC \in Nat \ {0} /\ numC \in Procs /\ Resize.red \in {"alltoall", "point", "rma"}
  BY <1>1, ConfIs DEF Types, Resize, numC
<1>3. Merge => numC # numP
  BY DEF Merge, SpawnMethod
<1>4. Merge \in BOOLEAN /\ Shrinks \in BOOLEAN
  BY DEF Merge, Shrinks
<1>5. ASSUME pc # "after" PROVE numP \in Procs
  <2>1. Lead.grp # 0 => Lead.grp \in 1 .. Groups - 1
    BY <1>1, GroupIs
  <2> QED BY <1>5, <2>1, ConfIs DEF Types, Groupings, numP
<1> QED BY <1>2, <1>3, <1>4, <1>5

(* A resize is the same while the group is.                                 *)
LEMMA ResizeStays ==
  ASSUME UNCHANGED <<conf, comm>>, Lead'.grp = Lead.grp
  PROVE  /\ Resize' = Resize /\ numC' = numC /\ numP' = numP /\ LastGroup' = LastGroup
         /\ Merge' = Merge /\ Shrinks' = Shrinks /\ Blocking' = Blocking
         /\ \A p : Zombie(p)' = Zombie(p)
         /\ NewKids' = NewKids
<1>1. Resize' = Resize /\ numP' = numP /\ LastGroup' = LastGroup /\ Blocking' = Blocking
  BY DEF Resize, numP, LastGroup, Blocking
<1>2. numC' = numC
  BY <1>1 DEF numC
<1>3. Merge' = Merge
  BY <1>1, <1>2 DEF Merge, SpawnMethod
<1>4. Shrinks' = Shrinks
  BY <1>1, <1>2, <1>3 DEF Shrinks
<1>5. \A p : Zombie(p)' = Zombie(p)
  BY <1>2, <1>3 DEF Zombie, RankIn, Members
<1>6. NewKids' = NewKids
  BY <1>1, <1>2, <1>3 DEF NewKids
<1> QED BY <1>1, <1>2, <1>3, <1>4, <1>5, <1>6

-----------------------------------------------------------------------------
(* What a step leaves alone.                                                *)

(* Nobody joins or leaves the group.                                        *)
Stays == UNCHANGED <<conf, comm, kids>> /\ DOMAIN proc' = DOMAIN proc /\ Lead'.grp = Lead.grp

(* A process is where it was in the work.                                   *)
WorkIs(q, r) ==
  /\ r.grp = q.grp /\ r.phase = q.phase /\ r.start_phase = q.start_phase /\ r.iter = q.iter
  /\ r.exec = q.exec /\ r.from = q.from /\ r.idx = q.idx
(* A process has the buffers it had.                                        *)
BuffersAre(q, r) == r.own = q.own /\ r.reg = q.reg /\ r.app = q.app /\ r.heap = q.heap
(* A process has the times and records it had.                              *)
RecordsAre(q, r) == r.final = q.final /\ r.times = q.times

(* All processes are where they were.                                       *)
SameWork == \A p \in DOMAIN proc : WorkIs(proc[p], proc'[p])
(* All processes have the buffers they had.                                 *)
SameBuffers == \A p \in DOMAIN proc : BuffersAre(proc[p], proc'[p])
(* All processes have the records they had.                                 *)
SameRecords == \A p \in DOMAIN proc : RecordsAre(proc[p], proc'[p])

(* The fields of a process.                                                 *)
LEMMA ProcessIs ==
  ASSUME NEW q \in Process
  PROVE  /\ q.grp \in Nat /\ q.phase \in 0 .. Phases /\ q.start_phase \in 0 .. Phases /\ q.iter \in Nat
         /\ q.exec \in Nat /\ q.from \in Nat /\ q.idx \in [PhaseIds -> Nat] /\ q.final \in Finals
         /\ q.own \in SUBSET Structures /\ q.reg \in Registry /\ q.app \in [Kinds -> Buffer]
         /\ q.heap \in SUBSET (Kinds \X Nat) /\ q.times \in [TimeFields -> Nat]
BY DEF Process

(* Where the group is.                                                      *)
LEMMA LeadIs ==
  ASSUME Types, Groupings
  PROVE  /\ Lead \in Process /\ Lead.grp \in Nat /\ Lead.phase \in 0 .. Phases /\ Lead.start_phase \in 0 .. Phases
         /\ Lead.iter \in Nat /\ Lead.exec \in Nat /\ Lead.from \in Nat /\ Phases \in Nat \ {0}
         /\ \A x \in PhaseIds : Lead.idx[x] \in Nat /\ printed[x] \in Nat /\ x \in Nat /\ conf.qty_iters[x] \in Nat \ {0}
         /\ Working => Lead.phase \in PhaseIds /\ QtyIters \in Nat \ {0}
         /\ ~Working => Lead.phase = Phases
<1>1. Lead \in Process
  BY GroupIs
<1>2. /\ Lead.grp \in Nat /\ Lead.phase \in 0 .. Phases /\ Lead.start_phase \in 0 .. Phases
      /\ Lead.iter \in Nat /\ Lead.exec \in Nat /\ Lead.from \in Nat /\ Lead.idx \in [PhaseIds -> Nat]
  BY <1>1, ProcessIs
<1>3. Phases \in Nat \ {0} /\ conf.qty_iters \in [PhaseIds -> Nat \ {0}] /\ printed \in [PhaseIds -> Nat]
  BY ConfIs DEF Types
<1>4. \A x \in PhaseIds : Lead.idx[x] \in Nat /\ printed[x] \in Nat /\ x \in Nat /\ conf.qty_iters[x] \in Nat \ {0}
  <2>1. \A x \in PhaseIds : x \in Nat
    BY <1>3 DEF PhaseIds
  <2> QED BY <1>2, <1>3, <2>1
<1>5. Working => Lead.phase \in PhaseIds
  BY <1>2, <1>3 DEF Working, PhaseIds
<1>6. Working => QtyIters \in Nat \ {0}
  BY <1>4, <1>5 DEF QtyIters
<1>7. ~Working => Lead.phase = Phases
  BY <1>2, <1>3 DEF Working
<1> QED BY <1>1, <1>2, <1>3, <1>4, <1>5, <1>6, <1>7

(* The children of a reconfiguration.                                       *)
LEMMA KidsAre ==
  ASSUME Types, Groupings, Lead.grp < Groups - 1, ~Shrinks
  PROVE  /\ NewKids \in Seq(Nat \X Nat) /\ NewKids # <<>>
         /\ Len(NewKids) = (IF Merge THEN numC - numP ELSE numC)
         /\ DOMAIN NewKids = 1 .. Len(NewKids)
         /\ \A x \in DOMAIN NewKids : NewKids[x] = <<Lead.grp + 1, x>>
<1> DEFINE n == IF Merge THEN numC - numP ELSE numC
<1>1. n \in Nat \ {0}
  BY GroupIs, ResizeIs DEF Shrinks
<1>2. NewKids = [x \in 1 .. n |-> <<Lead.grp + 1, x>>]
  BY DEF NewKids
<1>3. Lead.grp + 1 \in Nat
  BY GroupIs
<1> HIDE DEF n
<1>4. NewKids \in Seq(Nat \X Nat) /\ Len(NewKids) = n
  BY <1>1, <1>2, <1>3
<1>5. NewKids # <<>>
  BY <1>1, <1>4
<1> QED BY <1>1, <1>2, <1>4, <1>5 DEF n

(* The values that are common to the parts of the invariant.                *)
LEMMA Common ==
  ASSUME Types, Groupings, Stays
  PROVE  /\ UNCHANGED <<conf, comm, kids>> /\ Lead'.grp = Lead.grp
         /\ DOMAIN proc = Members(comm) \cup Members(kids) /\ DOMAIN proc' = DOMAIN proc
         /\ Members(comm)' = Members(comm) /\ Members(kids)' = Members(kids)
         /\ comm[1] \in DOMAIN proc /\ Lead = proc[comm[1]] /\ Lead' = proc'[comm[1]]
         /\ \A p : IsKid(p)' = IsKid(p)
         /\ Resize' = Resize /\ numC' = numC /\ numP' = numP /\ LastGroup' = LastGroup
         /\ Merge' = Merge /\ Shrinks' = Shrinks /\ Blocking' = Blocking
         /\ \A p : Zombie(p)' = Zombie(p)
         /\ NewKids' = NewKids
<1>1. UNCHANGED <<conf, comm, kids>> /\ Lead'.grp = Lead.grp /\ DOMAIN proc' = DOMAIN proc
  BY DEF Stays
<1>2. Members(comm)' = Members(comm) /\ Members(kids)' = Members(kids)
  BY <1>1 DEF Members
<1>3. Lead = proc[comm[1]] /\ Lead' = proc'[comm[1]]
  BY <1>1 DEF Lead
<1>4. \A p : IsKid(p)' = IsKid(p)
  BY <1>2 DEF IsKid
<1>5. comm[1] \in DOMAIN proc /\ DOMAIN proc = Members(comm) \cup Members(kids)
  BY GroupIs
<1>6. /\ Resize' = Resize /\ numC' = numC /\ numP' = numP /\ LastGroup' = LastGroup
      /\ Merge' = Merge /\ Shrinks' = Shrinks /\ Blocking' = Blocking
      /\ \A p : Zombie(p)' = Zombie(p)
      /\ NewKids' = NewKids
  BY <1>1, ResizeStays
<1> QED BY <1>1, <1>2, <1>3, <1>4, <1>5, <1>6

(* The types after such a step.                                             *)
LEMMA SameTypes ==
  ASSUME Types, Groupings, Stays, \A p \in DOMAIN proc : proc'[p] \in Process,
         thread' \in {"none", "running", "finished"}, waiting' \in BOOLEAN,
         printed' \in [PhaseIds -> Nat], proc' = [p \in DOMAIN proc' |-> proc'[p]]
  PROVE  Types'
BY Common DEF Types

(* The groups after such a step.                                            *)
LEMMA SameGroupings ==
  ASSUME Types, Groupings, Stays, pc # "after", pc' # "after",
         Reconf' => Lead.grp < Groups - 1
  PROVE  Groupings'
<1>1. Resize' = Resize /\ UNCHANGED <<conf, comm, kids>> /\ Lead'.grp = Lead.grp
  BY Common
<1> QED BY <1>1 DEF Groupings

(* The work after a step in which nobody works.                             *)
LEMMA WorkStays ==
  ASSUME Types, Groupings, Work, Stays, SameWork, Reconf, Reconf', kpc' \in Told => kpc \in Told
  PROVE  Work'
<1>1. \A p \in Members(comm) \cup Members(kids) : WorkIs(proc[p], proc'[p])
  BY Common DEF SameWork
<1>2. WorkIs(Lead, Lead')
  BY Common, Zenon DEF SameWork
<1>3. QtyIters' = QtyIters /\ Working' = Working
  BY <1>2, Common DEF QtyIters, Working, WorkIs
<1>4. pc' \notin {"normal", "finish", "done", "decide", "top", "after"} /\ pc # "after"
  BY DEF Reconf
<1>5. Lead'.iter <= IF Working' THEN QtyIters' ELSE 0
  BY <1>2, <1>3 DEF Work, WorkIs
<1>6. Lead'.start_phase <= Lead'.phase /\ \A x \in PhaseIds : x > Lead'.phase => Lead'.idx[x] = 0
  BY <1>2, <1>4 DEF Work, WorkIs
<1>7. \A p \in Members(comm)' : Beside(proc[p])'
  <2>1. ASSUME NEW p \in Members(comm) PROVE Beside(proc[p])'
    BY <1>1, <1>2, <1>4, <2>1, ZenonT(40) DEF Work, Beside, AsLead, WorkIs
  <2> QED BY <2>1, Common
<1>8. ASSUME NEW p \in Members(kids)
      PROVE  /\ proc'[p].exec = 0 /\ proc'[p].start_phase = 0
             /\ \A x \in PhaseIds : proc'[p].idx[x] = 0
             /\ kpc' \in Told => AsLead(proc[p])'
  <2>1. /\ proc[p].exec = 0 /\ proc[p].start_phase = 0 /\ \A x \in PhaseIds : proc[p].idx[x] = 0
        /\ kpc \in Told => AsLead(proc[p])
    BY <1>8 DEF Work
  <2>2. WorkIs(proc[p], proc'[p])
    BY <1>1, <1>8
  <2> QED BY <1>2, <2>1, <2>2 DEF AsLead, WorkIs
<1>9. pc' # "after" /\ Members(kids)' = Members(kids)
  BY <1>4, Common
<1> QED BY <1>4, <1>5, <1>6, <1>7, <1>8, <1>9, Zenon DEF Work

(* Without iterations or prints.                                            *)
LEMMA PrintedStays ==
  ASSUME Types, Groupings, Printed, Stays, SameWork, Reconf, Reconf', UNCHANGED printed,
         state \in Shown <=> state' \in Shown
  PROVE  Printed'
<1>1. WorkIs(Lead, Lead')
  BY Common, Zenon DEF SameWork
<1>2. conf' = conf
  BY Common
<1>3. \A x \in PhaseIds : Made(x)' = Made(x)
  BY <1>1, <1>2 DEF Made, WorkIs
<1>4. pc \in {"checkpoint", "reconf"} /\ pc' \in {"checkpoint", "reconf"}
  BY DEF Reconf
<1>5. \A x \in PhaseIds : Unprinted(x)' = Unprinted(x)
  BY <1>1, <1>4 DEF Unprinted, WorkIs
<1> QED BY <1>3, <1>5 DEF Printed

(* Without buffers that come or go.                                         *)
LEMMA HeapsStay ==
  ASSUME Types, Groupings, HeapsHold, Stays, SameBuffers
  PROVE  HeapsHold'
<1>1. ASSUME NEW p \in DOMAIN proc PROVE proc'[p].heap = Held(proc'[p])
  <2>1. BuffersAre(proc[p], proc'[p]) /\ proc[p].heap = Held(proc[p])
    BY <1>1 DEF SameBuffers, HeapsHold
  <2> QED BY <2>1 DEF BuffersAre, Held
<1> QED BY <1>1, Common DEF HeapsHold

(* The buffers of the sources when nothing moves.                           *)
LEMMA SourcesStay ==
  ASSUME Types, Groupings, SourcesHold, Stays, \A p \in Members(comm) : BuffersAre(proc[p], proc'[p]),
         pc \notin {"done", "after"}, MovedA' = MovedA, MovedS' = MovedS,
         Reconf /\ state \in Shown <=> Reconf' /\ state' \in Shown
  PROVE  SourcesHold'
<1>1. ASSUME NEW p \in Members(comm)
      PROVE  SourceHolds(proc[p], Lead.grp, Gone(p), MovedA /\ ~Zombie(p), MovedS /\ ~Zombie(p))'
  <2>1. SourceHolds(proc[p], Lead.grp, Gone(p), MovedA /\ ~Zombie(p), MovedS /\ ~Zombie(p))
    BY <1>1 DEF SourcesHold
  <2>2. BuffersAre(proc[p], proc'[p]) /\ conf' = conf /\ Lead'.grp = Lead.grp /\ Zombie(p)' = Zombie(p)
    BY <1>1, Common
  <2>3. Gone(p)' = Gone(p)
    BY <2>2 DEF Gone
  <2>4. \A k, g : Buf(k, g)' = Buf(k, g)
    BY <2>2 DEF Buf
  <2> QED BY <2>1, <2>2, <2>3, <2>4 DEF SourceHolds, BuffersAre, Buf
<1>2. Members(comm)' = Members(comm)
  BY Common
<1> QED BY <1>1, <1>2, Zenon DEF SourcesHold

(* The buffers of the children when nothing moves.                          *)
LEMMA KidsStay ==
  ASSUME Types, Groupings, KidsHold, Stays, \A p \in Members(kids) : BuffersAre(proc[p], proc'[p]),
         Reconf, kpc' \in Told <=> kpc \in Told, KidHasA' <=> KidHasA, KidHasS' <=> KidHasS
  PROVE  KidsHold'
<1>1. ASSUME NEW p \in Members(kids)
      PROVE  KidHolds(proc[p], Lead.grp, kpc \in Told, KidHasA, KidHasS)'
  <2>1. KidHolds(proc[p], Lead.grp, kpc \in Told, KidHasA, KidHasS)
    BY <1>1 DEF KidsHold
  <2>2. BuffersAre(proc[p], proc'[p]) /\ conf' = conf /\ Lead'.grp = Lead.grp
    BY <1>1, Common
  <2> QED BY <2>1, <2>2 DEF KidHolds, BuffersAre, Buf
<1>2. Members(kids)' = Members(kids)
  BY Common
<1> QED BY <1>1, <1>2, Zenon DEF KidsHold

(* Without new requests.                                                    *)
LEMMA PostedStays ==
  ASSUME Types, Groupings, Stays, NEW p
  PROVE  Posted(p)' = Posted(p)
<1>1. /\ UNCHANGED <<comm, kids>> /\ Resize' = Resize /\ numC' = numC /\ numP' = numP
      /\ Merge' = Merge /\ Zombie(p)' = Zombie(p) /\ IsKid(p)' = IsKid(p)
  BY Common
<1>2. TargetRank(p)' = TargetRank(p) /\ IsTarget(p)' = IsTarget(p)
  BY <1>1 DEF TargetRank, IsTarget, RankIn
<1>3. SendPeers(p)' = SendPeers(p)
  BY <1>1 DEF SendPeers, Peers, RankIn
<1>4. RecvPeers(p)' = RecvPeers(p)
  BY <1>1, <1>2 DEF RecvPeers, Peers
<1> QED BY <1>1, <1>3, <1>4 DEF Posted

(* The requests after a step that starts none.                              *)
LEMMA RequestsStay ==
  ASSUME Types, Groupings, Requests, Stays, Reconf, SameBuffers,
         state' \in NotSent <=> state \in NotSent, KidHasA' => KidHasA
  PROVE  Requests'
<1>1. ASSUME NEW p \in DOMAIN proc PROVE Fits(p)' <=> Fits(p)
  BY <1>1, PostedStays DEF Fits, SameBuffers, BuffersAre
<1>2. UNCHANGED <<conf, comm, kids>> /\ Members(comm)' = Members(comm) /\ Members(kids)' = Members(kids)
  BY Common
<1>3. Blocking' = Blocking /\ Members(comm) \subseteq DOMAIN proc /\ Members(kids) \subseteq DOMAIN proc
  BY Common
<1> QED BY <1>1, <1>2, <1>3 DEF Requests

(* Without times or results.                                                *)
LEMMA GroupRecordsStay ==
  ASSUME Types, Groupings, GroupRecords, Stays, Lead'.final = Lead.final,
         pc \notin {"top", "after"}, pc' \notin {"top", "after"}
  PROVE  GroupRecords'
<1>1. Lead'.grp = Lead.grp
  BY Common
<1> QED BY <1>1 DEF GroupRecords, Recorded

(* The records of the children when they take no times.                     *)
LEMMA KidsRecordStay ==
  ASSUME Types, Groupings, KidsRecord, Stays, Reconf, \A p \in Members(kids) : RecordsAre(proc[p], proc'[p]),
         Lead'.final = Lead.final,
         kpc' \in Told <=> kpc \in Told, KidHasA' <=> KidHasA, KidHasS' <=> KidHasS
  PROVE  KidsRecord'
<1>1. ASSUME NEW p \in Members(kids)
      PROVE  KidTimes(proc[p].times, Lead.grp + 1)' /\ (kpc' \in Told => proc'[p].final = Lead'.final)
  <2>1. KidTimes(proc[p].times, Lead.grp + 1) /\ (kpc \in Told => proc[p].final = Lead.final)
    BY <1>1 DEF KidsRecord
  <2>2. RecordsAre(proc[p], proc'[p]) /\ conf' = conf /\ Lead'.grp = Lead.grp
    BY <1>1, Common
  <2> QED BY <2>1, <2>2 DEF KidTimes, RecordsAre, Set
<1>2. Members(kids)' = Members(kids)
  BY Common
<1> QED BY <1>1, <1>2, Zenon DEF KidsRecord

-----------------------------------------------------------------------------
(* The group at work.                                                       *)

(* Without a reconfiguration there are no children, and what the sources    *)
(* do is of no concern to them.                                             *)
LEMMA Alone ==
  ASSUME Inv, pc \in {"top", "normal", "decide", "finish"},
         pc' \in {"normal", "decide", "finish", "checkpoint", "done"},
         UNCHANGED <<conf, state, comm, children, thread>>, waiting' \in BOOLEAN,
         pc' = "checkpoint" => ~LastGroup /\ ~waiting', printed' \in [PhaseIds -> Nat],
         DOMAIN proc' = DOMAIN proc, proc' = [p \in DOMAIN proc' |-> proc'[p]],
         \A p \in DOMAIN proc : proc'[p] \in Process /\ proc'[p].grp = proc[p].grp
  PROVE  /\ Stays /\ Types' /\ Groupings' /\ Control' /\ Channel' /\ KidsHold' /\ GroupHolds'
         /\ Requests' /\ RootTimes' /\ KidsRecord'
<1>1. Types /\ Groupings /\ Control
  BY DEF Inv
<1>2. pc # "after" /\ ~Reconf /\ pc' # "after"
  BY DEF Reconf
<1>3. UNCHANGED <<conf, comm, kids, kpc, wire, thread, state>>
  BY DEF children
<1>4. comm[1] \in DOMAIN proc /\ Lead = proc[comm[1]] /\ Lead' = proc'[comm[1]]
  BY <1>1, <1>3, GroupIs DEF Lead
<1>5. Stays
  BY <1>3, <1>4 DEF Stays
<1>6. Types'
  BY <1>1, <1>3, <1>5, SameTypes DEF Types
<1>7. Lead.grp \in Nat /\ Lead.grp < Groups /\ Groups \in Nat
  BY <1>1, GroupIs, ConfIs DEF Groupings, Types
<1>8. pc' = "checkpoint" => Lead.grp < Groups - 1
  BY <1>7 DEF LastGroup
<1>9. Reconf' => pc' = "checkpoint"
  BY DEF Reconf
<1>10. Groupings'
  BY <1>1, <1>2, <1>5, <1>8, <1>9, SameGroupings
<1>11. state' = "NOT_STARTED" /\ kids' = <<>> /\ kpc' = "none" /\ wire' = <<>> /\ thread' = "none"
  BY <1>1, <1>2, <1>3 DEF Control
<1>12. Control'
  BY <1>9, <1>11, <1>2 DEF Control, NotSent, Sent, Ended, Split, NoKids
<1>13. Members(kids)' = {}
  BY <1>11 DEF Members
<1>14. Channel' /\ KidsHold' /\ KidsRecord'
  BY <1>11, <1>13 DEF Channel, KidsHold, KidsRecord
<1>15. GroupHolds' /\ RootTimes'
  BY <1>2, <1>11 DEF GroupHolds, RootTimes
<1>16. Requests'
  BY <1>11, <1>13 DEF Requests, NotSent
<1> QED BY <1>5, <1>6, <1>10, <1>12, <1>14, <1>15, <1>16

(* And the buffers stay.                                                    *)
LEMMA AloneBuffers ==
  ASSUME Inv, pc \in {"top", "normal", "decide", "finish"},
         pc' \in {"normal", "decide", "finish", "checkpoint"},
         UNCHANGED <<state, thread, faults>>, Stays, SameBuffers, KidsHold', GroupHolds'
  PROVE  Buffers'
<1>1. Types /\ Groupings /\ Control /\ Buffers
  BY DEF Inv
<1>2. ~Reconf /\ pc \notin {"done", "after"} /\ pc' \notin {"done", "after"}
  BY DEF Reconf
<1>3. state = "NOT_STARTED" /\ thread = "none"
  BY <1>1, <1>2 DEF Control
<1>4. ~MovedA /\ ~MovedA' /\ ~MovedS /\ ~MovedS' /\ state' \notin Shown
  BY <1>2, <1>3 DEF MovedA, MovedS, NotSent, Ended, Shown, Split
<1>5. MovedA' = MovedA /\ MovedS' = MovedS
  BY <1>4 DEF MovedA, MovedS
<1>6. \A p \in Members(comm) : BuffersAre(proc[p], proc'[p])
  BY <1>1, GroupIs DEF SameBuffers
<1>7. SourcesHold'
  BY <1>1, <1>2, <1>4, <1>5, <1>6, SourcesStay DEF Buffers
<1>8. HeapsHold' /\ EndHolds' /\ faults' \subseteq Faults
  BY <1>1, <1>2, HeapsStay DEF Buffers, EndHolds
<1> QED BY <1>7, <1>8 DEF Buffers

(* An iteration before a reconfiguration.                                   *)
LEMMA NormalIterStep ==
  ASSUME Inv, NormalIter
  PROVE  Inv'
<1>1. /\ pc = "normal" /\ Working /\ Lead.iter < QtyIters
      /\ UNCHANGED <<conf, pc, manager, comm, children, thread, printed, faults>>
      /\ Types /\ Groupings /\ Control /\ Work /\ Printed /\ Records
  BY DEF Inv, NormalIter
<1>2. \A p \in DOMAIN proc : ~IsKid(p)
  BY <1>1, GroupIs, Apart DEF Control, Reconf, Members
<1>3. /\ proc' = [p \in DOMAIN proc |-> [proc[p] EXCEPT !.iter = @ + 1, !.exec = @ + 1]]
      /\ DOMAIN proc' = DOMAIN proc /\ proc' = [p \in DOMAIN proc' |-> proc'[p]]
  BY <1>2 DEF NormalIter, Sources
<1>4. ASSUME NEW p \in DOMAIN proc
      PROVE  /\ proc'[p] \in Process
             /\ BuffersAre(proc[p], proc'[p]) /\ RecordsAre(proc[p], proc'[p])
             /\ proc'[p].iter = proc[p].iter + 1 /\ proc'[p].exec = proc[p].exec + 1
             /\ proc'[p].grp = proc[p].grp /\ proc'[p].phase = proc[p].phase
             /\ proc'[p].start_phase = proc[p].start_phase /\ proc'[p].from = proc[p].from
             /\ proc'[p].idx = proc[p].idx
  <2>1. proc[p] \in Process /\ proc'[p] = [proc[p] EXCEPT !.iter = @ + 1, !.exec = @ + 1]
    BY <1>1, <1>3, <1>4, GroupIs
  <2>2. proc[p].iter + 1 \in Nat /\ proc[p].exec + 1 \in Nat
    BY <2>1, ProcessIs
  <2> QED BY <2>1, <2>2, ZenonT(40) DEF Process, BuffersAre, RecordsAre
<1>5. /\ Stays /\ Types' /\ Groupings' /\ Control' /\ Channel' /\ KidsHold' /\ GroupHolds'
      /\ Requests' /\ RootTimes' /\ KidsRecord'
  BY <1>1, <1>3, <1>4, Alone DEF manager, Types
<1>6. Buffers'
  BY <1>1, <1>4, <1>5, AloneBuffers DEF SameBuffers, manager
<1>7. Records'
  BY <1>1, <1>4, <1>5, GroupRecordsStay, Common DEF Records, RecordsAre
<1>8. /\ Lead \in Process /\ Lead'.iter = Lead.iter + 1 /\ Lead'.exec = Lead.exec + 1 /\ Lead'.grp = Lead.grp
      /\ Lead'.phase = Lead.phase /\ Lead'.start_phase = Lead.start_phase /\ Lead'.from = Lead.from
      /\ Lead'.idx = Lead.idx /\ conf' = conf
  BY <1>1, <1>4, <1>5, Common, GroupIs
<1>9. QtyIters' = QtyIters /\ Working' /\ Lead'.iter \in Nat /\ Lead.iter \in Nat /\ Lead.from \in Nat
      /\ Lead.iter + 1 <= QtyIters
  BY <1>1, <1>8, LeadIs DEF QtyIters, Working
<1>10. Work'
  <2>1. ASSUME NEW p \in Members(comm) PROVE Beside(proc[p])'
    <3>1. Beside(proc[p]) /\ p \in DOMAIN proc
      BY <1>1, <2>1, GroupIs DEF Work
    <3> QED BY <1>1, <1>4, <1>8, <3>1 DEF Beside, AsLead
  <2>2. pc' = "normal" /\ ~Reconf' /\ Members(comm)' = Members(comm)
    BY <1>1, <1>5, Common DEF Reconf
  <2>3. Lead'.from <= Lead'.iter /\ Lead'.iter <= QtyIters' /\ Lead'.start_phase <= Lead'.phase
    BY <1>1, <1>8, <1>9 DEF Work
  <2>4. \A x \in PhaseIds : x > Lead'.phase => Lead'.idx[x] = 0
    BY <1>1, <1>8 DEF Work
  <2> QED BY <1>9, <2>1, <2>2, <2>3, <2>4 DEF Work
<1>11. Printed'
  <2>1. ASSUME NEW x \in PhaseIds PROVE printed'[x] + Unprinted(x)' = Made(x)'
    <3>1. printed[x] + Unprinted(x) = Made(x) /\ printed'[x] = printed[x]
      BY <1>1, <2>1 DEF Printed
    <3>2. state \notin Shown
      BY <1>1 DEF Control, Reconf, Shown, Split
    <3>3. /\ Lead.idx[x] \in Nat /\ printed[x] \in Nat /\ x \in Nat /\ conf.qty_iters[x] \in Nat
          /\ Lead.phase \in Nat /\ Lead.start_phase \in Nat
      BY <1>1, <2>1, LeadIs
    <3> QED BY <1>1, <1>8, <1>9, <3>1, <3>2, <3>3 DEF Unprinted, Made, manager
  <2> QED BY <2>1 DEF Printed
<1> QED BY <1>5, <1>6, <1>7, <1>10, <1>11 DEF Inv

(* No phase is left.                                                        *)
LEMMA NormalEndStep ==
  ASSUME Inv, NormalEnd
  PROVE  Inv'
<1>1. /\ pc = "normal" /\ ~Working /\ pc' = "decide"
      /\ UNCHANGED <<conf, manager, comm, children, thread, proc, printed, faults>>
      /\ Types /\ Groupings /\ Control /\ Work /\ Printed /\ Records
  BY DEF Inv, NormalEnd
<1>2. /\ proc' = [p \in DOMAIN proc' |-> proc'[p]] /\ Lead' = Lead /\ SameBuffers
      /\ \A p \in DOMAIN proc : proc'[p] \in Process
  BY <1>1, GroupIs DEF Types, Lead, SameBuffers, BuffersAre
<1>3. /\ Stays /\ Types' /\ Groupings' /\ Control' /\ Channel' /\ KidsHold' /\ GroupHolds'
      /\ Requests' /\ RootTimes' /\ KidsRecord'
  BY <1>1, <1>2, Alone DEF manager, Types
<1>4. Buffers'
  BY <1>1, <1>2, <1>3, AloneBuffers DEF manager
<1>5. Records'
  BY <1>1, <1>2, <1>3, GroupRecordsStay DEF Records, RecordsAre
<1>6. Work'
  <2>1. ~Working' /\ LastGroup' = LastGroup /\ QtyIters' = QtyIters
    BY <1>1, <1>2 DEF Working, LastGroup, QtyIters
  <2>2. \A p \in Members(comm) : Beside(proc[p])'
    BY <1>1, <1>2 DEF Work, Beside, AsLead
  <2> QED BY <1>1, <1>2, <2>1, <2>2 DEF Work, Reconf, Members
<1>7. Printed'
  <2>1. ASSUME NEW x \in PhaseIds PROVE printed'[x] + Unprinted(x)' = Made(x)'
    <3>1. printed[x] + Unprinted(x) = Made(x) /\ printed'[x] = printed[x]
      BY <1>1, <2>1 DEF Printed
    <3>2. Lead.phase = Phases /\ x # Phases
      BY <1>1, <2>1, LeadIs DEF PhaseIds
    <3> QED BY <1>1, <1>2, <3>1, <3>2, LeadIs DEF Unprinted, Made, manager
  <2> QED BY <2>1 DEF Printed
<1> QED BY <1>3, <1>4, <1>5, <1>6, <1>7 DEF Inv

(* Main goes on to a reconfiguration or to the end.                         *)
LEMMA DecideStep ==
  ASSUME Inv, Decide
  PROVE  Inv'
<1>1. /\ pc = "decide" /\ pc' = (IF LastGroup THEN "finish" ELSE "checkpoint") /\ waiting' = FALSE
      /\ UNCHANGED <<conf, state, comm, children, thread, proc, printed, faults>>
      /\ Types /\ Groupings /\ Control /\ Work /\ Printed /\ Records
  BY DEF Inv, Decide
<1>2. /\ proc' = [p \in DOMAIN proc' |-> proc'[p]] /\ Lead' = Lead /\ SameBuffers
      /\ \A p \in DOMAIN proc : proc'[p] \in Process
  BY <1>1, GroupIs DEF Types, Lead, SameBuffers, BuffersAre
<1>3. /\ Stays /\ Types' /\ Groupings' /\ Control' /\ Channel' /\ KidsHold' /\ GroupHolds'
      /\ Requests' /\ RootTimes' /\ KidsRecord'
  BY <1>1, <1>2, Alone DEF Types
<1>4. Buffers'
  BY <1>1, <1>2, <1>3, AloneBuffers
<1>5. Records'
  BY <1>1, <1>2, <1>3, GroupRecordsStay DEF Records, RecordsAre
<1>6. Work'
  <2>1. Working' = Working /\ LastGroup' = LastGroup /\ QtyIters' = QtyIters
    BY <1>1, <1>2 DEF Working, LastGroup, QtyIters
  <2>2. \A p \in Members(comm) : Beside(proc[p])'
    BY <1>1, <1>2 DEF Work, Beside, AsLead
  <2>3. Members(kids)' = {}
    BY <1>1 DEF Control, Members, children, Reconf
  <2> QED BY <1>1, <1>2, <2>1, <2>2, <2>3 DEF Work, Members
<1>7. Printed'
  BY <1>1, <1>2 DEF Printed, Unprinted, Made
<1> QED BY <1>3, <1>4, <1>5, <1>6, <1>7 DEF Inv

(* The iterations of a phase that a process counts when it leaves it.       *)
LEMMA CapturedIs ==
  ASSUME Inv, pc = "normal", Working, NEW p \in Members(comm)
  PROVE  /\ Captured(proc[p]) \in [PhaseIds -> Nat]
         /\ Captured(proc[p])[Lead.phase] = proc[p].idx[Lead.phase] + Lead.iter - Lead.from
         /\ \A x \in PhaseIds : x # Lead.phase => Captured(proc[p])[x] = proc[p].idx[x]
<1>1. /\ Beside(proc[p]) /\ Lead.from <= Lead.iter /\ Types /\ Groupings
      /\ proc[p] \in Process
  BY GroupIs DEF Inv, Work
<1>2. /\ proc[p].iter = Lead.iter /\ proc[p].from = Lead.from /\ proc[p].phase = Lead.phase
      /\ proc[p].idx \in [PhaseIds -> Nat] /\ Lead.phase \in PhaseIds
      /\ Lead.iter \in Nat /\ Lead.from \in Nat
  BY <1>1, LeadIs, ProcessIs DEF Beside, AsLead
<1>3. proc[p].idx[Lead.phase] + Lead.iter - Lead.from \in Nat
  BY <1>1, <1>2
<1> QED BY <1>2, <1>3 DEF Captured

(* The group has made its iterations.                                       *)
LEMMA NormalStopStep ==
  ASSUME Inv, NormalStop
  PROVE  Inv'
<1>1. /\ pc = "normal" /\ Working /\ Lead.iter < QtyIters /\ Lead.exec = MaxIter /\ pc' = "decide"
      /\ UNCHANGED <<conf, manager, comm, children, thread, printed, faults>>
      /\ Types /\ Groupings /\ Control /\ Work /\ Printed /\ Records
  BY DEF Inv, NormalStop
<1>2. \A p \in DOMAIN proc : p \in Members(comm) /\ ~IsKid(p)
  BY <1>1, GroupIs, Apart DEF Control, Reconf, Members
<1>3. /\ proc' = [p \in DOMAIN proc |-> [proc[p] EXCEPT !.idx = Captured(proc[p])]]
      /\ DOMAIN proc' = DOMAIN proc /\ proc' = [p \in DOMAIN proc' |-> proc'[p]]
  BY <1>2 DEF NormalStop, Sources
<1>4. ASSUME NEW p \in DOMAIN proc
      PROVE  /\ proc'[p] \in Process
             /\ BuffersAre(proc[p], proc'[p]) /\ RecordsAre(proc[p], proc'[p])
             /\ proc'[p].idx = Captured(proc[p]) /\ proc'[p].iter = proc[p].iter /\ proc'[p].exec = proc[p].exec
             /\ proc'[p].grp = proc[p].grp /\ proc'[p].phase = proc[p].phase
             /\ proc'[p].start_phase = proc[p].start_phase /\ proc'[p].from = proc[p].from
  <2>1. proc[p] \in Process /\ proc'[p] = [proc[p] EXCEPT !.idx = Captured(proc[p])]
    BY <1>1, <1>3, <1>4, GroupIs
  <2>2. Captured(proc[p]) \in [PhaseIds -> Nat]
    BY <1>1, <1>2, <1>4, CapturedIs
  <2> QED BY <2>1, <2>2, ZenonT(40) DEF Process, BuffersAre, RecordsAre
<1>5. /\ Stays /\ Types' /\ Groupings' /\ Control' /\ Channel' /\ KidsHold' /\ GroupHolds'
      /\ Requests' /\ RootTimes' /\ KidsRecord'
  BY <1>1, <1>3, <1>4, Alone DEF manager, Types
<1>6. Buffers'
  BY <1>1, <1>4, <1>5, AloneBuffers DEF SameBuffers, manager
<1>7. Records'
  BY <1>1, <1>4, <1>5, GroupRecordsStay, Common DEF Records, RecordsAre
<1>8. /\ Lead'.iter = Lead.iter /\ Lead'.exec = Lead.exec /\ Lead'.grp = Lead.grp
      /\ Lead'.phase = Lead.phase /\ Lead'.start_phase = Lead.start_phase
      /\ Lead'.idx = Captured(Lead) /\ conf' = conf /\ Lead = proc[comm[1]] /\ comm[1] \in Members(comm)
  BY <1>1, <1>2, <1>4, <1>5, Common, GroupIs
<1>9. /\ Lead'.idx[Lead.phase] = Lead.idx[Lead.phase] + Lead.iter - Lead.from
      /\ \A x \in PhaseIds : x # Lead.phase => Lead'.idx[x] = Lead.idx[x]
  BY <1>1, <1>8, CapturedIs
<1>10. QtyIters' = QtyIters /\ Working' = Working /\ ~LastGroup /\ LastGroup' = LastGroup
  <2>1. Lead.exec # -1
    BY <1>1, LeadIs
  <2> QED BY <1>1, <1>8, <2>1 DEF QtyIters, Working, LastGroup, MaxIter
<1>11. Work'
  <2>1. ASSUME NEW p \in Members(comm) PROVE Beside(proc[p])'
    <3>1. Beside(proc[p]) /\ p \in DOMAIN proc
      BY <1>1, <2>1, GroupIs DEF Work
    <3>2. /\ proc'[p].idx[Lead.phase] = proc[p].idx[Lead.phase] + Lead.iter - Lead.from
          /\ \A x \in PhaseIds : x # Lead.phase => proc'[p].idx[x] = proc[p].idx[x]
      BY <1>1, <1>4, <2>1, <3>1, CapturedIs
    <3> QED BY <1>1, <1>4, <1>8, <1>9, <3>1, <3>2, SMTT(30) DEF Beside, AsLead
  <2>2. pc' = "decide" /\ ~Reconf' /\ Members(comm)' = Members(comm)
    BY <1>1, <1>5, Common DEF Reconf
  <2>3. Lead'.iter <= QtyIters' /\ Lead'.start_phase <= Lead'.phase
    BY <1>1, <1>8, <1>10 DEF Work
  <2>4. \A x \in PhaseIds : x > Lead'.phase => Lead'.idx[x] = 0
    BY <1>1, <1>8, <1>9, LeadIs DEF Work
  <2> QED BY <1>1, <1>10, <2>1, <2>2, <2>3, <2>4 DEF Work
<1>12. Printed'
  <2>1. ASSUME NEW x \in PhaseIds PROVE printed'[x] + Unprinted(x)' = Made(x)'
    <3>1. printed[x] + Unprinted(x) = Made(x) /\ printed'[x] = printed[x] /\ Lead.start_phase <= Lead.phase
      BY <1>1, <2>1 DEF Printed, Work
    <3>2. state \notin Shown
      BY <1>1 DEF Control, Reconf, Shown, Split
    <3>3. /\ Lead.idx[x] \in Nat /\ printed[x] \in Nat /\ x \in Nat /\ conf.qty_iters[x] \in Nat
          /\ Lead.phase \in Nat /\ Lead.start_phase \in Nat /\ Lead.iter \in Nat /\ Lead.from \in Nat
      BY <1>1, <2>1, LeadIs
    <3> QED BY <1>1, <1>8, <1>9, <3>1, <3>2, <3>3 DEF Unprinted, Made, manager
  <2> QED BY <2>1 DEF Printed
<1> QED BY <1>5, <1>6, <1>7, <1>11, <1>12 DEF Inv

(* The next phase, before a reconfiguration.                                *)
LEMMA NormalPhaseStep ==
  ASSUME Inv, NormalPhase
  PROVE  Inv'
<1>1. /\ pc = "normal" /\ Working /\ Lead.iter >= QtyIters
      /\ UNCHANGED <<conf, pc, manager, comm, children, thread, printed, faults>>
      /\ Types /\ Groupings /\ Control /\ Work /\ Printed /\ Records
  BY DEF Inv, NormalPhase
<1>2. \A p \in DOMAIN proc : p \in Members(comm) /\ ~IsKid(p)
  BY <1>1, GroupIs, Apart DEF Control, Reconf, Members
<1>3. /\ proc' = [p \in DOMAIN proc |->
           [proc[p] EXCEPT !.idx = Captured(proc[p]), !.iter = 0, !.from = 0, !.phase = @ + 1]]
      /\ DOMAIN proc' = DOMAIN proc /\ proc' = [p \in DOMAIN proc' |-> proc'[p]]
  BY <1>2 DEF NormalPhase, Sources
<1>4. ASSUME NEW p \in DOMAIN proc
      PROVE  /\ proc'[p] \in Process
             /\ BuffersAre(proc[p], proc'[p]) /\ RecordsAre(proc[p], proc'[p])
             /\ proc'[p].idx = Captured(proc[p]) /\ proc'[p].iter = 0 /\ proc'[p].exec = proc[p].exec
             /\ proc'[p].grp = proc[p].grp /\ proc'[p].phase = proc[p].phase + 1
             /\ proc'[p].start_phase = proc[p].start_phase /\ proc'[p].from = 0
  <2>1. /\ proc[p] \in Process
        /\ proc'[p] =
             [proc[p] EXCEPT !.idx = Captured(proc[p]), !.iter = 0, !.from = 0, !.phase = @ + 1]
    BY <1>1, <1>3, <1>4, GroupIs
  <2>2. Captured(proc[p]) \in [PhaseIds -> Nat] /\ 0 \in Nat
    BY <1>1, <1>2, <1>4, CapturedIs
  <2>3. proc[p].phase = Lead.phase /\ Lead.phase + 1 \in 0 .. Phases
    BY <1>1, <1>2, <1>4, LeadIs DEF Work, Beside, AsLead, PhaseIds
  <2>4. proc[p].phase + 1 \in 0 .. Phases
    BY <2>3
  <2> QED BY <2>1, <2>2, <2>4, ZenonT(40) DEF Process, BuffersAre, RecordsAre
<1>5. /\ Stays /\ Types' /\ Groupings' /\ Control' /\ Channel' /\ KidsHold' /\ GroupHolds'
      /\ Requests' /\ RootTimes' /\ KidsRecord'
  BY <1>1, <1>3, <1>4, Alone DEF manager, Types
<1>6. Buffers'
  BY <1>1, <1>4, <1>5, AloneBuffers DEF SameBuffers, manager
<1>7. Records'
  BY <1>1, <1>4, <1>5, GroupRecordsStay, Common DEF Records, RecordsAre
<1>8. /\ Lead'.iter = 0 /\ Lead'.exec = Lead.exec /\ Lead'.grp = Lead.grp /\ Lead'.from = 0
      /\ Lead'.phase = Lead.phase + 1 /\ Lead'.start_phase = Lead.start_phase
      /\ Lead'.idx = Captured(Lead) /\ conf' = conf /\ Lead = proc[comm[1]] /\ comm[1] \in Members(comm)
  BY <1>1, <1>2, <1>4, <1>5, Common, GroupIs
<1>9. /\ Lead'.idx[Lead.phase] = Lead.idx[Lead.phase] + Lead.iter - Lead.from
      /\ \A x \in PhaseIds : x # Lead.phase => Lead'.idx[x] = Lead.idx[x]
  BY <1>1, <1>8, CapturedIs
<1>10. /\ Lead.phase \in PhaseIds /\ Lead.iter = conf.qty_iters[Lead.phase]
       /\ Lead.phase \in Nat /\ Lead.start_phase \in Nat /\ Lead.start_phase <= Lead.phase
       /\ Lead.iter \in Nat /\ Lead.from \in Nat
  BY <1>1, LeadIs DEF Work, QtyIters
<1>11. 0 <= IF Working' THEN QtyIters' ELSE 0
  <2>1. Working' => Lead.phase + 1 \in PhaseIds
    BY <1>8, <1>10, LeadIs, <1>1 DEF Working, PhaseIds
  <2>2. Working' => QtyIters' \in Nat
    BY <1>1, <1>8, <2>1, LeadIs DEF QtyIters
  <2> QED BY <2>2
<1>12. Work'
  <2>1. ASSUME NEW p \in Members(comm) PROVE Beside(proc[p])'
    <3>1. Beside(proc[p]) /\ p \in DOMAIN proc
      BY <1>1, <2>1, GroupIs DEF Work
    <3>2. /\ proc'[p].idx[Lead.phase] = proc[p].idx[Lead.phase] + Lead.iter - Lead.from
          /\ \A x \in PhaseIds : x # Lead.phase => proc'[p].idx[x] = proc[p].idx[x]
      BY <1>1, <1>4, <2>1, <3>1, CapturedIs
    <3> QED BY <1>1, <1>4, <1>8, <1>9, <3>1, <3>2, SMTT(30) DEF Beside, AsLead
  <2>2. pc' = "normal" /\ ~Reconf' /\ Members(comm)' = Members(comm)
    BY <1>1, <1>5, Common DEF Reconf
  <2>3. Lead'.from <= Lead'.iter /\ Lead'.start_phase <= Lead'.phase
    BY <1>8, <1>10
  <2>4. \A x \in PhaseIds : x > Lead'.phase => Lead'.idx[x] = 0
    BY <1>1, <1>8, <1>9, <1>10, LeadIs, SMTT(30) DEF Work
  <2> QED BY <1>8, <1>11, <2>1, <2>2, <2>3, <2>4 DEF Work
<1>13. Printed'
  <2>1. ASSUME NEW x \in PhaseIds PROVE printed'[x] + Unprinted(x)' = Made(x)'
    <3>1. printed[x] + Unprinted(x) = Made(x) /\ printed'[x] = printed[x]
      BY <1>1, <2>1 DEF Printed, Work
    <3>2. state \notin Shown /\ x > Lead.phase => Lead.idx[x] = 0
      BY <1>1, <2>1 DEF Control, Reconf, Shown, Split, Work
    <3>3. state \notin Shown
      BY <1>1 DEF Control, Reconf, Shown, Split
    <3>4. /\ Lead.idx[x] \in Nat /\ printed[x] \in Nat /\ x \in Nat /\ conf.qty_iters[x] \in Nat
      BY <1>1, <2>1, LeadIs
    <3>5. CASE x = Lead.phase
      BY <1>1, <1>8, <1>9, <1>10, <3>1, <3>3, <3>4, <3>5 DEF Unprinted, Made, manager
    <3>6. CASE x # Lead.phase
      <4>1. Unprinted(x) = (IF x >= Lead.start_phase THEN Lead.idx[x] ELSE 0)
        BY <1>1, <3>3, <3>4, <3>6 DEF Unprinted
      <4>2. pc' = "normal" /\ state' \notin Shown /\ Lead'.idx[x] = Lead.idx[x]
        BY <1>1, <1>9, <2>1, <3>3, <3>6 DEF manager
      <4>3. Unprinted(x)' = Unprinted(x)
        BY <1>8, <3>4, <4>1, <4>2 DEF Unprinted
      <4>4. Made(x)' = Made(x)
        BY <1>8, <1>10, <3>4, <3>6 DEF Made
      <4> QED BY <3>1, <4>3, <4>4
    <3> QED BY <3>5, <3>6
  <2> QED BY <2>1 DEF Printed
<1> QED BY <1>5, <1>6, <1>7, <1>12, <1>13 DEF Inv

(* The ends of the intervals of a resize.                                   *)
LEMMA RetrievedIs ==
  ASSUME NEW q \in Process
  PROVE  RetrieveTimes(q.times) \in [Intervals -> SUBSET Nat]
<1>1. q.times \in [TimeFields -> Nat]
  BY ProcessIs
<1>2. ASSUME NEW f \in Intervals
      PROVE  /\ f # "spawn" => q.times[<<f, "start">>] \in Nat /\ q.times[<<f, "end">>] \in Nat
             /\ q.times[Spawn] \in Nat
  BY <1>1 DEF TimeFields, Spawn, Intervals
<1> QED BY <1>2 DEF RetrieveTimes

(* The top of the loop of main.                                             *)
LEMMA TopStep ==
  ASSUME Inv, Top
  PROVE  Inv'
<1> DEFINE Final(q) == IF q.grp = 0 THEN q.final ELSE [q.final EXCEPT ![q.grp] = RetrieveTimes(q.times)]
<1>1. /\ pc = "top" /\ pc' = "normal"
      /\ UNCHANGED <<conf, manager, comm, children, thread, printed, faults>>
      /\ Types /\ Groupings /\ Control /\ Work /\ Printed /\ Records
  BY DEF Inv, Top
<1>2. \A p \in DOMAIN proc : p \in Members(comm) /\ ~IsKid(p)
  BY <1>1, GroupIs, Apart DEF Control, Reconf, Members
<1>3. /\ proc' = [p \in DOMAIN proc |->
           [proc[p] EXCEPT !.from = proc[p].iter, !.final = Final(proc[p])]]
      /\ DOMAIN proc' = DOMAIN proc /\ proc' = [p \in DOMAIN proc' |-> proc'[p]]
  BY <1>2 DEF Top, Sources
<1>4. ASSUME NEW p \in DOMAIN proc
      PROVE  /\ proc'[p] \in Process
             /\ BuffersAre(proc[p], proc'[p]) /\ proc'[p].times = proc[p].times
             /\ proc'[p].final = Final(proc[p])
             /\ proc'[p].idx = proc[p].idx /\ proc'[p].iter = proc[p].iter /\ proc'[p].exec = proc[p].exec
             /\ proc'[p].grp = proc[p].grp /\ proc'[p].phase = proc[p].phase
             /\ proc'[p].start_phase = proc[p].start_phase /\ proc'[p].from = proc[p].iter
  <2>1. /\ proc[p] \in Process
        /\ proc'[p] = [proc[p] EXCEPT !.from = proc[p].iter, !.final = Final(proc[p])]
    BY <1>1, <1>3, <1>4, GroupIs
  <2>2. proc[p].iter \in Nat /\ proc[p].final \in Finals
    BY <2>1, ProcessIs
  <2>3. Final(proc[p]) \in Finals
    <3>1. RetrieveTimes(proc[p].times) \in [Intervals -> SUBSET Nat]
      BY <2>1, RetrievedIs
    <3> QED BY <2>2, <3>1 DEF Finals
  <2> HIDE DEF Final
  <2> QED BY <2>1, <2>2, <2>3, ZenonT(40) DEF Process, BuffersAre
<1>5. /\ Stays /\ Types' /\ Groupings' /\ Control' /\ Channel' /\ KidsHold' /\ GroupHolds'
      /\ Requests' /\ RootTimes' /\ KidsRecord'
  BY <1>1, <1>3, <1>4, Alone DEF manager, Types
<1>6. Buffers'
  BY <1>1, <1>4, <1>5, AloneBuffers DEF SameBuffers, manager
<1>7. /\ Lead'.iter = Lead.iter /\ Lead'.exec = Lead.exec /\ Lead'.grp = Lead.grp /\ Lead'.from = Lead.iter
      /\ Lead'.phase = Lead.phase /\ Lead'.start_phase = Lead.start_phase
      /\ Lead'.idx = Lead.idx /\ Lead'.final = Final(Lead) /\ conf' = conf
  BY <1>1, <1>2, <1>4, <1>5, Common, GroupIs
<1>8. GroupRecords'
  <2>1. /\ Recorded(Lead.final, Lead.grp - 1) /\ (Lead.grp > 0 => Taken(Lead.times, Lead.grp))
    BY <1>1 DEF Records, GroupRecords
  <2>2. Lead.grp \in Nat /\ Lead.grp <= Groups - 1 /\ Lead.final \in Finals
    <3>1. Lead \in Process /\ Lead.grp \in Nat /\ Groups \in Nat
      BY <1>1, LeadIs, ConfIs DEF Types
    <3>2. Lead.grp < Groups
      BY <1>1 DEF Groupings
    <3> QED BY <3>1, <3>2, ProcessIs
  <2>3. ASSUME NEW x \in 1 .. Lead.grp
        PROVE  /\ \A f \in {"spawn", "user", "mall"} : Lead'.final[x][f] = {x}
               /\ \A f \in {"sync", "async"} : Lead'.final[x][f] \in {{0}, {x}}
    <3>1. CASE x = Lead.grp
      <4>1. Lead'.final[x] = RetrieveTimes(Lead.times)
        BY <1>7, <2>2, <2>3, <3>1, ConfIs, <1>1 DEF Finals, Types
      <4> QED BY <2>1, <2>3, <3>1, <4>1 DEF Taken
    <3>2. CASE x # Lead.grp
      <4>1. Lead'.final[x] = Lead.final[x] /\ x \in 1 .. Lead.grp - 1
        BY <1>7, <2>2, <2>3, <3>2 DEF Finals
      <4> QED BY <2>1, <4>1 DEF Recorded
    <3> QED BY <3>1, <3>2
  <2>4. Recorded(Lead'.final, Lead'.grp)
    BY <1>7, <2>3, Zenon DEF Recorded
  <2> QED BY <1>1, <2>4 DEF GroupRecords
<1>9. Records'
  BY <1>5, <1>8 DEF Records
<1>10. QtyIters' = QtyIters /\ Working' = Working /\ LastGroup' = LastGroup
  BY <1>7 DEF QtyIters, Working, LastGroup
<1>11. Work'
  <2>1. ASSUME NEW p \in Members(comm) PROVE Beside(proc[p])'
    <3>1. Beside(proc[p]) /\ p \in DOMAIN proc
      BY <1>1, <2>1, GroupIs DEF Work
    <3> QED BY <1>1, <1>4, <1>7, <3>1 DEF Beside, AsLead
  <2>2. pc' = "normal" /\ ~Reconf' /\ Members(comm)' = Members(comm)
    BY <1>1, <1>5, Common DEF Reconf
  <2>3. Lead'.from <= Lead'.iter
    BY <1>1, <1>7, LeadIs
  <2> QED BY <1>1, <1>7, <1>10, <2>1, <2>2, <2>3 DEF Work
<1>12. Printed'
  <2>1. ASSUME NEW x \in PhaseIds PROVE printed'[x] + Unprinted(x)' = Made(x)'
    <3>1. printed[x] + Unprinted(x) = Made(x) /\ printed'[x] = printed[x]
      BY <1>1, <2>1 DEF Printed
    <3>2. Lead.iter - Lead.iter = 0 /\ Lead.idx[x] \in Nat
      BY <1>1, <2>1, LeadIs
    <3> QED BY <1>1, <1>7, <3>1, <3>2 DEF Unprinted, Made, manager
  <2> QED BY <2>1 DEF Printed
<1> QED BY <1>5, <1>6, <1>9, <1>11, <1>12 DEF Inv

(* The rows up to the current phase exist while there is work.              *)
LEMMA AccessIs ==
  ASSUME Types, Groupings, NEW rows, Access(rows), \A x \in rows : x \in Nat /\ x <= Lead.phase
  PROVE  Accessed
<1>1. Lead.phase \in 0 .. Phases /\ Phases \in Nat \ {0}
  BY LeadIs
<1>2. CASE Lead.phase = Phases
  BY <1>2 DEF Access, Accessed
<1>3. CASE Lead.phase # Phases
  <2>1. rows \subseteq PhaseIds
    BY <1>1, <1>3 DEF PhaseIds
  <2> QED BY <2>1 DEF Access, Accessed
<1> QED BY <1>2, <1>3

(* No access loses a buffer.                                                *)
LEMMA AccessedFaults ==
  ASSUME Buffers, Accessed
  PROVE  faults' \subseteq Faults
BY DEF Buffers, Accessed, Faults

(* What the root prints.                                                    *)
LEMMA PrintIs ==
  ASSUME Types, Groupings, NEW n, PrintLocal(n), n = Lead.phase \/ n = Lead.phase + 1
  PROVE  /\ printed' \in [PhaseIds -> Nat] /\ Accessed
         /\ \A x \in PhaseIds :
              printed'[x] = printed[x] + (IF Lead.start_phase <= x /\ x < n THEN Lead.idx[x] ELSE 0)
<1>1. /\ printed' = [x \in PhaseIds |->
           printed[x] + IF x \in Lead.start_phase .. n - 1 THEN Lead.idx[x] ELSE 0]
  BY DEF PrintLocal
<1>2. ASSUME NEW x \in PhaseIds
      PROVE  /\ printed'[x] = printed[x] + (IF Lead.start_phase <= x /\ x < n THEN Lead.idx[x] ELSE 0)
             /\ printed[x] + (IF Lead.start_phase <= x /\ x < n THEN Lead.idx[x] ELSE 0) \in Nat
  <2>1. /\ x \in Nat /\ Lead.idx[x] \in Nat /\ printed[x] \in Nat /\ Lead.start_phase \in Nat /\ n \in Nat
    BY <1>2, LeadIs
  <2>2. x \in Lead.start_phase .. n - 1 <=> (Lead.start_phase <= x /\ x < n)
    BY <2>1
  <2> QED BY <1>1, <1>2, <2>1, <2>2
<1>3. Accessed
  <2>1. Lead.start_phase \in Nat /\ Lead.phase \in Nat
    BY LeadIs
  <2>2. \A x \in Lead.start_phase .. n - 1 : x \in Nat /\ x <= Lead.phase
    BY <2>1
  <2>3. Access(Lead.start_phase .. n - 1)
    BY DEF PrintLocal
  <2> QED BY <2>2, <2>3, AccessIs
<1> QED BY <1>1, <1>2, <1>3

(* The last group prints and frees what it has.                             *)
LEMMA FinishStep ==
  ASSUME Inv, Finish
  PROVE  Inv'
<1>1. /\ pc = "finish" /\ pc' = "done" /\ PrintLocal(Lead.phase)
      /\ UNCHANGED <<conf, manager, comm, children, thread>>
      /\ Types /\ Groupings /\ Control /\ Work /\ Printed /\ Records /\ Buffers
  BY DEF Inv, Finish
<1>2. \A p \in DOMAIN proc : p \in Members(comm) /\ ~IsKid(p)
  BY <1>1, GroupIs, Apart DEF Control, Reconf, Members
<1> DEFINE Freed(q) == [FreeZombie(q) EXCEPT !.heap = @ \ {q.app[k] : k \in Kinds},
                                             !.reg = [k \in Kinds |-> NoEntry]]
<1>3. /\ proc' = [p \in DOMAIN proc |-> Freed(proc[p])]
      /\ DOMAIN proc' = DOMAIN proc /\ proc' = [p \in DOMAIN proc' |-> proc'[p]]
  BY <1>2 DEF Finish, Sources
<1>4. ASSUME NEW p \in DOMAIN proc
      PROVE  /\ proc'[p] \in Process
             /\ WorkIs(proc[p], proc'[p]) /\ RecordsAre(proc[p], proc'[p])
             /\ proc'[p].own = (proc[p].own \ {"results"}) \ {"config", "group"}
             /\ proc'[p].app = [k \in Kinds |-> Null] /\ proc'[p].reg = [k \in Kinds |-> NoEntry]
             /\ proc'[p].heap = proc[p].heap \ {proc[p].app[k] : k \in Kinds}
  <2>1. proc[p] \in Process /\ proc'[p] = Freed(proc[p])
    BY <1>1, <1>3, <1>4, GroupIs
  <2>2. /\ proc[p].own \in SUBSET Structures /\ proc[p].heap \in SUBSET (Kinds \X Nat)
    BY <2>1, ProcessIs
  <2>3. /\ [k \in Kinds |-> Null] \in [Kinds -> Buffer] /\ [k \in Kinds |-> NoEntry] \in Registry
    BY DEF Buffer, Registry, NoEntry
  <2> DEFINE own == (proc[p].own \ {"results"}) \ {"config", "group"}
             heap == proc[p].heap \ {proc[p].app[k] : k \in Kinds}
             app == [k \in Kinds |-> Null]
             reg == [k \in Kinds |-> NoEntry]
  <2>4. proc'[p] = [proc[p] EXCEPT !.own = own, !.app = app, !.heap = heap, !.reg = reg]
    BY <2>1, Zenon DEF FreeZombie, FreeResults, Process
  <2>5. own \in SUBSET Structures /\ heap \in SUBSET (Kinds \X Nat) /\ app \in [Kinds -> Buffer] /\ reg \in Registry
    BY <2>2, <2>3
  <2> HIDE DEF own, heap, app, reg
  <2>6. /\ proc'[p] \in Process
        /\ WorkIs(proc[p], proc'[p]) /\ RecordsAre(proc[p], proc'[p])
        /\ proc'[p].own = own /\ proc'[p].app = app /\ proc'[p].reg = reg /\ proc'[p].heap = heap
    BY <2>1, <2>4, <2>5, ZenonT(40) DEF Process, WorkIs, RecordsAre
  <2> QED BY <2>6 DEF own, heap, app, reg
<1> HIDE DEF Freed
<1>5. /\ Stays /\ Types' /\ Groupings' /\ Control' /\ Channel' /\ KidsHold' /\ GroupHolds'
      /\ Requests' /\ RootTimes' /\ KidsRecord'
  <2>1. printed' \in [PhaseIds -> Nat]
    BY <1>1, PrintIs
  <2>2. \A p \in DOMAIN proc : proc'[p] \in Process /\ proc'[p].grp = proc[p].grp
    BY <1>4 DEF WorkIs
  <2> QED BY <1>1, <1>3, <2>1, <2>2, Alone DEF manager, Types
<1>6. Buffers'
  <2>1. ASSUME NEW p \in DOMAIN proc
        PROVE  /\ proc'[p].own = {} /\ proc'[p].heap = {}
               /\ \A k \in Kinds : proc'[p].app[k] = Null /\ proc'[p].reg[k].array = Null
    <3>1. /\ SourceHolds(proc[p], Lead.grp, Gone(p), MovedA /\ ~Zombie(p), MovedS /\ ~Zombie(p))
          /\ proc[p].heap = Held(proc[p])
      BY <1>1, <1>2, <2>1 DEF Buffers, SourcesHold, HeapsHold
    <3>2. ~Gone(p) /\ ~MovedA /\ ~MovedS
      BY <1>1 DEF Gone, MovedA, MovedS, Reconf
    <3>3. /\ proc[p].own = Structures
          /\ \A k \in Kinds : proc[p].app[k] = Buf(k, Lead.grp) /\ proc[p].reg[k].array \in {Buf(k, Lead.grp), Null}
      BY <3>1, <3>2 DEF SourceHolds
    <3>4. proc'[p].heap = {}
      BY <1>4, <2>1, <3>1, <3>3 DEF Held
    <3>5. proc'[p].own = {}
      BY <1>4, <2>1, <3>3 DEF Structures
    <3>6. \A k \in Kinds : proc'[p].app[k] = Null /\ proc'[p].reg[k].array = Null
      BY <1>4, <2>1 DEF NoEntry
    <3> QED BY <3>4, <3>5, <3>6
  <2>2. HeapsHold'
    <3>1. \A p \in DOMAIN proc : Held(proc'[p]) = {}
      BY <2>1 DEF Held
    <3> QED BY <1>3, <2>1, <3>1 DEF HeapsHold
  <2>3. EndHolds'
    BY <1>2, <1>5, <2>1, Common, GroupIs, <1>1 DEF EndHolds
  <2>4. SourcesHold'
    BY <1>1 DEF SourcesHold
  <2>5. faults' \subseteq Faults
    BY <1>1, PrintIs, AccessedFaults
  <2> QED BY <1>5, <2>2, <2>3, <2>4, <2>5 DEF Buffers
<1>7. WorkIs(Lead, Lead') /\ RecordsAre(Lead, Lead') /\ conf' = conf
  BY <1>1, <1>4, <1>5, Common
<1>8. Records'
  BY <1>1, <1>5, <1>7, GroupRecordsStay DEF Records, RecordsAre
<1>9. Work'
  <2>1. QtyIters' = QtyIters /\ Working' = Working /\ LastGroup' = LastGroup
    BY <1>7 DEF QtyIters, Working, LastGroup, WorkIs
  <2>2. ASSUME NEW p \in Members(comm) PROVE Beside(proc[p])'
    <3>1. Beside(proc[p]) /\ p \in DOMAIN proc
      BY <1>1, <2>2, GroupIs DEF Work
    <3> QED BY <1>1, <1>4, <1>7, <3>1 DEF Beside, AsLead, WorkIs
  <2>3. pc' = "done" /\ ~Reconf' /\ Members(comm)' = Members(comm)
    BY <1>1, <1>5, Common DEF Reconf
  <2> QED BY <1>1, <1>7, <2>1, <2>2, <2>3 DEF Work, WorkIs
<1>10. Printed'
  <2>1. ASSUME NEW x \in PhaseIds PROVE printed'[x] + Unprinted(x)' = Made(x)'
    <3>1. printed[x] + Unprinted(x) = Made(x)
      BY <1>1, <2>1 DEF Printed
    <3>2. printed'[x] = printed[x] + (IF Lead.start_phase <= x /\ x < Lead.phase THEN Lead.idx[x] ELSE 0)
      BY <1>1, <2>1, PrintIs
    <3>3. Lead.phase = Phases /\ x < Phases /\ Lead.start_phase \in Nat /\ x \in Nat
      BY <1>1, <2>1, LeadIs DEF Work, PhaseIds
    <3>4. state \notin Shown
      BY <1>1 DEF Control, Reconf, Shown, Split
    <3>5. Unprinted(x)' = 0 /\ Made(x)' = Made(x)
      BY <1>1, <1>7 DEF Unprinted, Made, WorkIs
    <3>6. printed[x] \in Nat /\ Lead.idx[x] \in Nat
      BY <1>1, <2>1, LeadIs
    <3> QED BY <1>1, <3>1, <3>2, <3>3, <3>4, <3>5, <3>6 DEF Unprinted
  <2> QED BY <2>1 DEF Printed
<1> QED BY <1>5, <1>6, <1>8, <1>9, <1>10 DEF Inv

-----------------------------------------------------------------------------
(* The iterations during a reconfiguration.                                 *)

(* They change neither the reconfiguration nor what the children are to be  *)
(* told.                                                                    *)
LEMMA Emulating ==
  ASSUME Inv, pc = "reconf", pc' \in {"checkpoint", "reconf"},
         UNCHANGED <<conf, state, comm, children, thread, printed, faults>>, waiting' \in BOOLEAN,
         pc' = "reconf" => ~waiting',
         DOMAIN proc' = DOMAIN proc, proc' = [p \in DOMAIN proc' |-> proc'[p]],
         \A p \in DOMAIN proc : proc'[p] \in Process /\ proc'[p].grp = proc[p].grp,
         SameBuffers, SameRecords
  PROVE  /\ Stays /\ Types' /\ Groupings' /\ Control' /\ Channel' /\ Buffers' /\ Requests' /\ Records'
         /\ state \notin Shown /\ kpc \notin Told
<1>1. Types /\ Groupings /\ Control /\ Channel /\ Buffers /\ Requests /\ Records
  BY DEF Inv
<1>2. Reconf /\ Reconf' /\ pc # "after" /\ pc' # "after"
  BY DEF Reconf
<1>3. UNCHANGED <<conf, comm, kids, kpc, wire, thread, state>>
  BY DEF children
<1>4. comm[1] \in DOMAIN proc /\ Lead = proc[comm[1]] /\ Lead' = proc'[comm[1]]
  BY <1>1, <1>3, GroupIs DEF Lead
<1>5. Stays
  BY <1>3, <1>4 DEF Stays
<1>6. Types'
  BY <1>1, <1>3, <1>5, SameTypes DEF Types
<1>7. Groupings'
  BY <1>1, <1>2, <1>5, SameGroupings DEF Groupings
<1>8. state \in {"SPAWN_PENDING", "DIST_PENDING"} /\ ~waiting
  BY <1>1 DEF Control
<1>9. Blocking' = Blocking /\ Shrinks' = Shrinks /\ NewKids' = NewKids
  BY <1>1, <1>5, Common
<1>10. Control'
  BY <1>1, <1>2, <1>3, <1>8, <1>9 DEF Control, NoKids
<1>11. Channel'
  BY <1>1, <1>2, <1>3, <1>8 DEF Channel, Arriving, Entries, Info, DataSent
<1>12. state \notin Shown /\ kpc \notin Told
  <2>1. CASE kids = <<>>
    <3>1. Shrinks \/ state = "SPAWN_PENDING"
      BY <1>1, <1>2, <1>8, <2>1, KidsAre DEF Control, Sent, Groupings
    <3> QED BY <1>1, <1>2, <1>8, <3>1 DEF Control, NotSent, Sent, Told, Shown, Split, NoKids
  <2>2. CASE kids # <<>>
    BY <1>1, <1>2, <1>8, <2>2 DEF Control, Channel, Arriving, NotSent, Told, Shown, Split, NoKids
  <2> QED BY <2>1, <2>2
<1>13. Buffers'
  <2>1. MovedA' = MovedA /\ MovedS' = MovedS /\ KidHasA' = KidHasA /\ KidHasS' = KidHasS
    BY <1>2, <1>3, <1>9 DEF MovedA, MovedS, KidHasA, KidHasS
  <2>2. HeapsHold' /\ GroupHolds' /\ EndHolds'
    BY <1>1, <1>2, <1>5, HeapsStay DEF Buffers, GroupHolds, EndHolds, Reconf
  <2>3. SourcesHold'
    BY <1>1, <1>2, <1>3, <1>5, <2>1, SourcesStay, Common DEF Buffers, SameBuffers, Reconf
  <2>4. KidsHold'
    BY <1>1, <1>2, <1>3, <1>5, <2>1, KidsStay, Common DEF Buffers, SameBuffers
  <2> QED BY <1>1, <2>2, <2>3, <2>4 DEF Buffers
<1>14. Requests'
  BY <1>1, <1>2, <1>3, <1>5, RequestsStay DEF KidHasA
<1>15. Records'
  <2>1. RecordsAre(Lead, Lead')
    BY <1>4 DEF SameRecords
  <2>2. GroupRecords'
    BY <1>1, <1>2, <1>5, <2>1, GroupRecordsStay DEF Records, RecordsAre, Reconf
  <2>3. KidsRecord'
    BY <1>1, <1>2, <1>3, <1>5, <2>1, KidsRecordStay, Common DEF Records, SameRecords, RecordsAre, KidHasA, KidHasS
  <2>4. RootTimes'
    <3>1. Merge' = Merge /\ Lead'.grp = Lead.grp /\ Lead'.times = Lead.times
      BY <1>1, <1>5, <2>1, Common DEF RecordsAre
    <3> QED BY <1>1, <1>2, <1>3, <1>9, <3>1 DEF Records, RootTimes, SourceTimes, Set
  <2> QED BY <2>2, <2>3, <2>4 DEF Records
<1> QED BY <1>5, <1>6, <1>7, <1>10, <1>11, <1>12, <1>13, <1>14, <1>15

(* The application waits for the reconfiguration.                           *)
LEMMA ReconfWaitStep ==
  ASSUME Inv, ReconfWait
  PROVE  Inv'
<1>1. /\ pc = "reconf" /\ pc' = "checkpoint" /\ waiting' = TRUE
      /\ UNCHANGED <<conf, state, out, comm, children, thread, proc, printed, faults>>
      /\ Types /\ Groupings /\ Work /\ Printed
  BY DEF Inv, ReconfWait
<1>2. /\ proc' = [p \in DOMAIN proc' |-> proc'[p]] /\ SameBuffers /\ SameRecords /\ SameWork
      /\ \A p \in DOMAIN proc : proc'[p] \in Process
  BY <1>1, GroupIs DEF Types, SameBuffers, BuffersAre, SameRecords, RecordsAre, SameWork, WorkIs
<1>3. /\ Stays /\ Types' /\ Groupings' /\ Control' /\ Channel' /\ Buffers' /\ Requests' /\ Records'
      /\ state \notin Shown /\ kpc \notin Told
  BY <1>1, <1>2, Emulating
<1>4. Reconf /\ Reconf' /\ kpc' = kpc /\ state' = state
  BY <1>1 DEF Reconf, children
<1>5. Work'
  BY <1>1, <1>2, <1>3, <1>4, WorkStays
<1>6. Printed'
  BY <1>1, <1>2, <1>3, <1>4, PrintedStays
<1> QED BY <1>3, <1>5, <1>6 DEF Inv

(* An iteration during a reconfiguration.                                   *)
LEMMA ReconfIterStep ==
  ASSUME Inv, ReconfIter
  PROVE  Inv'
<1>1. /\ pc = "reconf" /\ Working /\ Lead.iter < QtyIters /\ pc' = "checkpoint" /\ waiting' = FALSE
      /\ UNCHANGED <<conf, state, out, comm, children, thread, printed, faults>>
      /\ Types /\ Groupings /\ Work /\ Printed
  BY DEF Inv, ReconfIter
<1>2. /\ \A p \in Members(comm) : ~IsKid(p)
      /\ DOMAIN proc = Members(comm) \cup Members(kids) /\ \A p : IsKid(p) <=> p \in Members(kids)
  BY <1>1, GroupIs, Apart
<1>3. /\ DOMAIN proc' = DOMAIN proc /\ proc' = [p \in DOMAIN proc' |-> proc'[p]]
      /\ \A p \in Members(comm) : proc'[p] =
           [proc[p] EXCEPT !.idx = CaptureIteration(@, proc[p].phase), !.iter = @ + 1]
      /\ \A p \in Members(kids) : proc'[p] = proc[p]
  BY <1>2 DEF ReconfIter, Sources
<1>4. ASSUME NEW p \in Members(comm)
      PROVE  /\ proc'[p] \in Process /\ Beside(proc[p])
             /\ BuffersAre(proc[p], proc'[p]) /\ RecordsAre(proc[p], proc'[p])
             /\ proc'[p].iter = proc[p].iter + 1 /\ proc'[p].exec = proc[p].exec
             /\ proc'[p].grp = proc[p].grp /\ proc'[p].phase = proc[p].phase
             /\ proc'[p].start_phase = proc[p].start_phase
             /\ proc'[p].idx[Lead.phase] = proc[p].idx[Lead.phase] + 1
             /\ \A x \in PhaseIds : x # Lead.phase => proc'[p].idx[x] = proc[p].idx[x]
  <2>1. /\ proc[p] \in Process /\ Beside(proc[p])
        /\ proc'[p] = [proc[p] EXCEPT !.idx = CaptureIteration(@, proc[p].phase), !.iter = @ + 1]
    BY <1>1, <1>3, <1>4, GroupIs DEF Work
  <2>2. proc[p].iter + 1 \in Nat /\ proc[p].idx \in [PhaseIds -> Nat] /\ proc[p].phase = Lead.phase
    BY <2>1, ProcessIs DEF Beside, AsLead
  <2>3. Lead.phase \in PhaseIds
    BY <1>1, LeadIs
  <2> DEFINE idx == CaptureIteration(proc[p].idx, proc[p].phase)
  <2>4. idx = [proc[p].idx EXCEPT ![Lead.phase] = @ + 1]
    BY <2>2 DEF CaptureIteration
  <2>5. idx \in [PhaseIds -> Nat] /\ idx[Lead.phase] = proc[p].idx[Lead.phase] + 1
    BY <2>2, <2>3, <2>4
  <2>6. \A x \in PhaseIds : x # Lead.phase => idx[x] = proc[p].idx[x]
    BY <2>2, <2>3, <2>4
  <2>7. proc'[p] = [proc[p] EXCEPT !.idx = idx, !.iter = @ + 1]
    BY <2>1
  <2> HIDE DEF idx
  <2>8. /\ proc'[p] \in Process
        /\ BuffersAre(proc[p], proc'[p]) /\ RecordsAre(proc[p], proc'[p])
        /\ proc'[p].iter = proc[p].iter + 1 /\ proc'[p].exec = proc[p].exec
        /\ proc'[p].grp = proc[p].grp /\ proc'[p].phase = proc[p].phase
        /\ proc'[p].start_phase = proc[p].start_phase /\ proc'[p].idx = idx
    BY <2>1, <2>2, <2>5, <2>7, ZenonT(40) DEF Process, BuffersAre, RecordsAre
  <2> QED BY <2>1, <2>5, <2>6, <2>8
<1>5. /\ \A p \in DOMAIN proc : proc'[p] \in Process /\ proc'[p].grp = proc[p].grp
      /\ SameBuffers /\ SameRecords
  BY <1>1, <1>2, <1>3, <1>4, GroupIs DEF SameBuffers, BuffersAre, SameRecords, RecordsAre
<1>6. /\ Stays /\ Types' /\ Groupings' /\ Control' /\ Channel' /\ Buffers' /\ Requests' /\ Records'
      /\ state \notin Shown /\ kpc \notin Told
  BY <1>1, <1>3, <1>5, Emulating
<1>7. /\ Lead'.iter = Lead.iter + 1 /\ Lead'.exec = Lead.exec /\ Lead'.grp = Lead.grp
      /\ Lead'.phase = Lead.phase /\ Lead'.start_phase = Lead.start_phase
      /\ Lead'.idx[Lead.phase] = Lead.idx[Lead.phase] + 1
      /\ \A x \in PhaseIds : x # Lead.phase => Lead'.idx[x] = Lead.idx[x]
      /\ conf' = conf
  BY <1>1, <1>4, <1>6, Common, GroupIs
<1>8. /\ Lead.iter + 1 <= QtyIters /\ QtyIters' = QtyIters /\ Working' /\ Lead.phase \in PhaseIds
      /\ Lead.phase \in Nat
  BY <1>1, <1>7, LeadIs DEF QtyIters, Working
<1>9. Work'
  <2>1. ASSUME NEW p \in Members(comm) PROVE Beside(proc[p])'
    BY <1>1, <1>4, <1>7, <2>1 DEF Beside, AsLead
  <2>2. Reconf' /\ Members(comm)' = Members(comm) /\ Members(kids)' = Members(kids) /\ kpc' = kpc
    BY <1>1, <1>6, Common DEF Reconf, children
  <2>3. Lead'.start_phase <= Lead'.phase /\ Lead'.iter <= QtyIters'
    BY <1>1, <1>7, <1>8 DEF Work
  <2>4. \A x \in PhaseIds : x > Lead'.phase => Lead'.idx[x] = 0
    BY <1>1, <1>7, <1>8 DEF Work
  <2>5. ASSUME NEW p \in Members(kids)
        PROVE  /\ proc'[p].exec = 0 /\ proc'[p].start_phase = 0 /\ \A x \in PhaseIds : proc'[p].idx[x] = 0
    <3>1. Reconf /\ proc'[p] = proc[p]
      BY <1>1, <1>3, <2>5 DEF Reconf
    <3> QED BY <1>1, <2>5, <3>1, Zenon DEF Work
  <2> QED BY <1>1, <1>6, <1>8, <2>1, <2>2, <2>3, <2>4, <2>5 DEF Work
<1>10. Printed'
  <2>1. ASSUME NEW x \in PhaseIds PROVE printed'[x] + Unprinted(x)' = Made(x)'
    <3>1. printed[x] + Unprinted(x) = Made(x) /\ printed'[x] = printed[x] /\ Lead.start_phase <= Lead.phase
      BY <1>1, <2>1 DEF Printed, Work
    <3>2. Lead.idx[x] \in Nat /\ printed[x] \in Nat /\ Lead.iter \in Nat /\ x \in Nat
      BY <1>1, <2>1, LeadIs
    <3>3. state' \notin Shown
      BY <1>1, <1>6
    <3>4. /\ Unprinted(x) = (IF x >= Lead.start_phase THEN Lead.idx[x] ELSE 0)
          /\ Unprinted(x)' = (IF x >= Lead.start_phase THEN Lead'.idx[x] ELSE 0)
      <4>1. Lead'.idx[x] \in Nat
        BY <1>7, <2>1, <3>2
      <4> QED BY <1>1, <1>6, <1>7, <3>2, <3>3, <4>1 DEF Unprinted
    <3>5. CASE x = Lead.phase
      BY <1>7, <1>8, <2>1, <3>1, <3>2, <3>4, <3>5 DEF Made
    <3>6. CASE x # Lead.phase
      <4>1. Made(x)' = Made(x)
        BY <1>7, <3>6 DEF Made
      <4> QED BY <1>7, <2>1, <3>1, <3>4, <3>6, <4>1
    <3> QED BY <3>5, <3>6
  <2> QED BY <2>1 DEF Printed
<1> QED BY <1>6, <1>9, <1>10 DEF Inv

(* The next phase, during a reconfiguration.                                *)
LEMMA ReconfPhaseStep ==
  ASSUME Inv, ReconfPhase
  PROVE  Inv'
<1>1. /\ pc = "reconf" /\ Working /\ Lead.iter >= QtyIters /\ pc' = "reconf"
      /\ UNCHANGED <<conf, state, out, waiting, comm, children, thread, printed, faults>>
      /\ Types /\ Groupings /\ Control /\ Work /\ Printed
  BY DEF Inv, ReconfPhase, manager
<1>2. /\ \A p \in Members(comm) : ~IsKid(p)
      /\ DOMAIN proc = Members(comm) \cup Members(kids) /\ \A p : IsKid(p) <=> p \in Members(kids)
  BY <1>1, GroupIs, Apart
<1>3. /\ DOMAIN proc' = DOMAIN proc /\ proc' = [p \in DOMAIN proc' |-> proc'[p]]
      /\ \A p \in Members(comm) : proc'[p] = [proc[p] EXCEPT !.iter = 0, !.phase = @ + 1]
      /\ \A p \in Members(kids) : proc'[p] = proc[p]
  BY <1>2 DEF ReconfPhase, Sources
<1>4. ASSUME NEW p \in Members(comm)
      PROVE  /\ proc'[p] \in Process /\ Beside(proc[p])
             /\ BuffersAre(proc[p], proc'[p]) /\ RecordsAre(proc[p], proc'[p])
             /\ proc'[p].iter = 0 /\ proc'[p].exec = proc[p].exec
             /\ proc'[p].grp = proc[p].grp /\ proc'[p].phase = proc[p].phase + 1
             /\ proc'[p].start_phase = proc[p].start_phase
             /\ proc'[p].idx = proc[p].idx
  <2>1. /\ proc[p] \in Process /\ Beside(proc[p])
        /\ proc'[p] = [proc[p] EXCEPT !.iter = 0, !.phase = @ + 1]
    BY <1>1, <1>3, <1>4, GroupIs DEF Work
  <2>2. proc[p].phase + 1 \in 0 .. Phases /\ 0 \in Nat
    BY <1>1, <2>1, LeadIs DEF Beside, AsLead, PhaseIds
  <2> QED BY <2>1, <2>2, ZenonT(40) DEF Process, BuffersAre, RecordsAre
<1>5. /\ \A p \in DOMAIN proc : proc'[p] \in Process /\ proc'[p].grp = proc[p].grp
      /\ SameBuffers /\ SameRecords
  BY <1>1, <1>2, <1>3, <1>4, GroupIs DEF SameBuffers, BuffersAre, SameRecords, RecordsAre
<1>6. /\ Stays /\ Types' /\ Groupings' /\ Control' /\ Channel' /\ Buffers' /\ Requests' /\ Records'
      /\ state \notin Shown /\ kpc \notin Told
  BY <1>1, <1>3, <1>5, Emulating DEF Control, Types
<1>7. /\ Lead'.iter = 0 /\ Lead'.exec = Lead.exec /\ Lead'.grp = Lead.grp
      /\ Lead'.phase = Lead.phase + 1 /\ Lead'.start_phase = Lead.start_phase
      /\ Lead'.idx = Lead.idx /\ conf' = conf
  BY <1>1, <1>4, <1>6, Common, GroupIs
<1>8. /\ Lead.phase \in PhaseIds /\ Lead.iter = conf.qty_iters[Lead.phase]
      /\ Lead.phase \in Nat /\ Lead.start_phase \in Nat /\ Lead.start_phase <= Lead.phase
  BY <1>1, LeadIs DEF Work, QtyIters
<1>9. 0 <= IF Working' THEN QtyIters' ELSE 0
  <2>1. Working' => Lead.phase + 1 \in PhaseIds
    BY <1>7, <1>8, LeadIs, <1>1 DEF Working, PhaseIds
  <2>2. Working' => QtyIters' \in Nat
    BY <1>1, <1>7, <2>1, LeadIs DEF QtyIters
  <2> QED BY <2>2
<1>10. Work'
  <2>1. ASSUME NEW p \in Members(comm) PROVE Beside(proc[p])'
    BY <1>1, <1>4, <1>7, <2>1 DEF Beside, AsLead
  <2>2. Reconf' /\ Members(comm)' = Members(comm) /\ Members(kids)' = Members(kids) /\ kpc' = kpc
    BY <1>1, <1>6, Common DEF Reconf, children
  <2>3. Lead'.start_phase <= Lead'.phase
    BY <1>7, <1>8
  <2>4. \A x \in PhaseIds : x > Lead'.phase => Lead'.idx[x] = 0
    BY <1>1, <1>7, <1>8, LeadIs DEF Work
  <2>5. ASSUME NEW p \in Members(kids)
        PROVE  /\ proc'[p].exec = 0 /\ proc'[p].start_phase = 0 /\ \A x \in PhaseIds : proc'[p].idx[x] = 0
    <3>1. Reconf /\ proc'[p] = proc[p]
      BY <1>1, <1>3, <2>5 DEF Reconf
    <3> QED BY <1>1, <2>5, <3>1, Zenon DEF Work
  <2> QED BY <1>1, <1>6, <1>7, <1>9, <2>1, <2>2, <2>3, <2>4, <2>5 DEF Work
<1>11. Printed'
  <2>1. ASSUME NEW x \in PhaseIds PROVE printed'[x] + Unprinted(x)' = Made(x)'
    <3>1. printed[x] + Unprinted(x) = Made(x) /\ printed'[x] = printed[x]
      BY <1>1, <2>1 DEF Printed
    <3>2. Unprinted(x)' = Unprinted(x)
      BY <1>1, <1>6, <1>7 DEF Unprinted
    <3>3. Made(x)' = Made(x)
      BY <1>1, <1>7, <1>8, <2>1, LeadIs DEF Made
    <3> QED BY <3>1, <3>2, <3>3
  <2> QED BY <2>1 DEF Printed
<1> QED BY <1>6, <1>10, <1>11 DEF Inv

-----------------------------------------------------------------------------
(* The stages of a reconfiguration.                                         *)

(* A stage does not touch the work.                                         *)
LEMMA Staging ==
  ASSUME Inv, Reconf, Reconf', UNCHANGED <<conf, comm, kids>>, SameWork,
         DOMAIN proc' = DOMAIN proc, proc' = [p \in DOMAIN proc' |-> proc'[p]],
         \A p \in DOMAIN proc : proc'[p] \in Process,
         thread' \in {"none", "running", "finished"}, waiting' \in BOOLEAN,
         printed' \in [PhaseIds -> Nat], kpc' \in Told => kpc \in Told
  PROVE  /\ Stays /\ Types' /\ Groupings' /\ Work'
         /\ UNCHANGED printed /\ (state' \in Shown <=> state \in Shown) => Printed'
<1>1. Types /\ Groupings /\ Work /\ Printed /\ pc # "after" /\ pc' # "after"
  BY DEF Inv, Reconf
<1>2. comm[1] \in DOMAIN proc /\ Lead = proc[comm[1]] /\ Lead' = proc'[comm[1]]
  BY <1>1, GroupIs DEF Lead
<1>3. Stays
  BY <1>2 DEF Stays, SameWork, WorkIs
<1>4. Types'
  BY <1>1, <1>3, SameTypes
<1>5. Groupings'
  BY <1>1, <1>3, SameGroupings DEF Groupings
<1>6. Work'
  BY <1>1, <1>3, WorkStays
<1>7. UNCHANGED printed /\ (state' \in Shown <=> state \in Shown) => Printed'
  BY <1>1, <1>3, PrintedStays
<1> QED BY <1>3, <1>4, <1>5, <1>6, <1>7

(* A stage that moves no data: the buffers and the requests stay.           *)
LEMMA NoMove ==
  ASSUME Inv, Reconf, Reconf', Stays, SameBuffers, UNCHANGED <<thread, faults>>,
         kpc' \in Told <=> kpc \in Told, KidHasA' <=> KidHasA, KidHasS' <=> KidHasS,
         state' \in NotSent <=> state \in NotSent, state' \in Ended <=> state \in Ended,
         state' \in Shown <=> state \in Shown
  PROVE  Buffers' /\ Requests'
<1>1. Types /\ Groupings /\ Buffers /\ Requests /\ Blocking' = Blocking
  BY Common DEF Inv
<1>2. pc \notin {"done", "after"} /\ pc' \notin {"done", "after"}
  BY DEF Reconf
<1>3. MovedA' = MovedA /\ MovedS' = MovedS
  BY <1>1 DEF MovedA, MovedS
<1>4. /\ \A p \in Members(comm) : BuffersAre(proc[p], proc'[p])
      /\ \A p \in Members(kids) : BuffersAre(proc[p], proc'[p])
  BY <1>1, GroupIs DEF SameBuffers
<1>5. HeapsHold' /\ GroupHolds' /\ EndHolds'
  BY <1>1, <1>2, HeapsStay DEF Buffers, GroupHolds, EndHolds
<1>6. SourcesHold'
  BY <1>1, <1>2, <1>3, <1>4, SourcesStay DEF Buffers
<1>7. KidsHold'
  BY <1>1, <1>4, KidsStay DEF Buffers
<1>8. Requests'
  BY <1>1, RequestsStay
<1> QED BY <1>1, <1>5, <1>6, <1>7, <1>8 DEF Buffers

(* The times after a field is set.                                          *)
LEMMA NowIs ==
  ASSUME Types, Groupings, NEW q \in Process, NEW fields
  PROVE  /\ Now(q, fields) \in [TimeFields -> Nat]
         /\ \A f \in TimeFields : Now(q, fields)[f] = IF f \in fields THEN Lead.grp + 1 ELSE q.times[f]
<1>1. q.times \in [TimeFields -> Nat] /\ Lead.grp + 1 \in Nat
  BY ProcessIs, LeadIs
<1> QED BY <1>1 DEF Now

(* The fields of the times.                                                 *)
LEMMA FieldsAre ==
  /\ Spawn \in TimeFields
  /\ \A f \in {"sync", "async", "user", "mall"} : <<f, "start">> \in TimeFields /\ <<f, "end">> \in TimeFields
BY DEF TimeFields, Intervals, Spawn

(* The resource manager has answered.                                       *)
LEMMA StRmsStep ==
  ASSUME Inv, StRms
  PROVE  Inv'
<1>1. /\ pc = "checkpoint" /\ pc' = "checkpoint" /\ state = "NOT_STARTED" /\ state' = "RMS_COMPLETED"
      /\ UNCHANGED <<conf, out, waiting, comm, children, thread, printed, faults>>
      /\ Types /\ Groupings /\ Control /\ Channel /\ Records
  BY DEF Inv, StRms, At, GoOn
<1>2. /\ \A p \in DOMAIN proc : p \in Members(comm) /\ ~IsKid(p)
      /\ kids = <<>> /\ kpc = "none" /\ wire = <<>> /\ thread = "none" /\ ~waiting
  BY <1>1, GroupIs, Apart DEF Control, Reconf, Members, NotSent, NoKids
<1> DEFINE Times == [NoTimes EXCEPT ![<<"mall", "start">>] = Lead.grp + 1]
<1>3. /\ proc' = [p \in DOMAIN proc |-> [proc[p] EXCEPT !.times = Times]]
      /\ DOMAIN proc' = DOMAIN proc /\ proc' = [p \in DOMAIN proc' |-> proc'[p]]
  BY <1>2 DEF StRms, Sources
<1>4. Times \in [TimeFields -> Nat] /\ \A f \in TimeFields : Times[f] = IF f = <<"mall", "start">> THEN Lead.grp + 1 ELSE 0
  <2>1. Lead.grp + 1 \in Nat /\ NoTimes \in [TimeFields -> Nat] /\ \A f \in TimeFields : NoTimes[f] = 0
    BY <1>1, LeadIs DEF NoTimes
  <2> QED BY <2>1, Zenon
<1> HIDE DEF Times
<1>5. ASSUME NEW p \in DOMAIN proc
      PROVE  /\ proc'[p] \in Process
             /\ WorkIs(proc[p], proc'[p]) /\ BuffersAre(proc[p], proc'[p])
             /\ proc'[p].final = proc[p].final /\ proc'[p].times = Times
  <2>1. proc[p] \in Process /\ proc'[p] = [proc[p] EXCEPT !.times = Times]
    BY <1>1, <1>3, <1>5, GroupIs
  <2> QED BY <1>4, <2>1, ZenonT(40) DEF Process, BuffersAre, WorkIs
<1>6. SameWork /\ SameBuffers /\ Reconf /\ Reconf' /\ UNCHANGED <<kids, kpc, wire>>
  BY <1>1, <1>5 DEF SameWork, SameBuffers, Reconf, children
<1>7. Stays /\ Types' /\ Groupings' /\ Work' /\ Printed'
  BY <1>1, <1>3, <1>5, <1>6, Staging DEF Types, Shown, Split
<1>8. Buffers' /\ Requests'
  BY <1>1, <1>6, <1>7, NoMove DEF KidHasA, KidHasS, NotSent, Ended, Shown, Split
<1>9. Control' /\ Channel'
  BY <1>1, <1>2, <1>6 DEF Control, Channel, NotSent, Sent, Split, Ended, NoKids, Reconf
<1>10. Records'
  <2>1. Lead'.final = Lead.final /\ Lead'.times = Times /\ Lead'.grp = Lead.grp
    BY <1>1, <1>5, <1>7, Common
  <2>2. GroupRecords'
    BY <1>1, <1>7, <2>1, GroupRecordsStay DEF Records
  <2>3. KidsRecord'
    BY <1>2, <1>6 DEF KidsRecord, Members
  <2>4. RootTimes'
    BY <1>1, <1>4, <2>1, FieldsAre
       DEF RootTimes, SourceTimes, Set, Spawn, NotSent, Sent, Shown, Ended, Split
  <2> QED BY <2>2, <2>3, <2>4 DEF Records
<1> QED BY <1>7, <1>8, <1>9, <1>10 DEF Inv

(* A process when MAM_Init starts it.                                       *)
LEMMA FreshIs ==
  ASSUME Types
  PROVE  /\ Fresh \in Process /\ Fresh.exec = 0 /\ Fresh.start_phase = 0 /\ \A x \in PhaseIds : Fresh.idx[x] = 0
         /\ Fresh.own = {"group"} /\ Fresh.heap = {} /\ \A f \in TimeFields : Fresh.times[f] = 0
         /\ \A k \in Kinds : Fresh.app[k] = Null /\ Fresh.reg[k] = NoEntry
<1>1. Phases \in Nat \ {0} /\ 0 \in Nat
  BY ConfIs DEF Types
<1>2. 0 \in 0 .. Phases
  BY <1>1
<1>3. Results.idx \in [PhaseIds -> Nat] /\ \A x \in PhaseIds : Results.idx[x] = 0
  BY DEF Results
<1>4. Results.final \in Finals
  BY DEF Results, Finals
<1>5. {"group"} \in SUBSET Structures /\ {} \in SUBSET (Kinds \X Nat)
  BY DEF Structures
<1> DEFINE reg == [k \in Kinds |-> NoEntry]
           app == [k \in Kinds |-> Null]
<1>6. reg \in Registry /\ app \in [Kinds -> Buffer] /\ \A k \in Kinds : app[k] = Null /\ reg[k] = NoEntry
  BY DEF Buffer, Registry, NoEntry
<1>7. NoTimes \in [TimeFields -> Nat] /\ \A f \in TimeFields : NoTimes[f] = 0
  BY DEF NoTimes
<1> DEFINE idx == Results.idx
           final == Results.final
<1>8. Fresh = [grp |-> 0, phase |-> 0, start_phase |-> 0, iter |-> 0, exec |-> 0, from |-> 0,
               idx |-> idx, final |-> final, own |-> {"group"},
               reg |-> reg, app |-> app, heap |-> {}, times |-> NoTimes]
  BY Zenon DEF Fresh
<1> HIDE DEF reg, app, idx, final
<1>9. Fresh \in Process
  BY <1>1, <1>2, <1>3, <1>4, <1>5, <1>6, <1>7, <1>8, ZenonT(40) DEF Process, idx, final
<1>10. /\ Fresh.exec = 0 /\ Fresh.start_phase = 0 /\ Fresh.idx = idx
       /\ Fresh.own = {"group"} /\ Fresh.heap = {} /\ Fresh.times = NoTimes /\ Fresh.app = app /\ Fresh.reg = reg
  BY <1>8, Zenon
<1> QED BY <1>3, <1>6, <1>7, <1>9, <1>10 DEF idx

(* The children call MAM_Init.                                              *)
LEMMA SpawnedStep ==
  ASSUME Inv, pc = "checkpoint", state \in {"RMS_COMPLETED", "SPAWN_PENDING"}, ~Shrinks,
         GoOn("SPAWN_COMPLETED"), Spawned, UNCHANGED <<conf, comm, thread, printed, faults>>
  PROVE  Inv'
<1>1. /\ pc' = "checkpoint" /\ state' = "SPAWN_COMPLETED" /\ UNCHANGED <<out, waiting>>
      /\ UNCHANGED <<conf, comm, thread, printed, faults>>
      /\ Types /\ Groupings /\ Control /\ Channel /\ Records /\ Buffers /\ Work /\ Printed
      /\ kids' = NewKids /\ kpc' = "info_a" /\ wire' = <<>>
  BY DEF Inv, GoOn, Spawned
<1>2. kids = <<>> /\ kpc = "none" /\ wire = <<>> /\ thread = "none" /\ Reconf /\ Reconf'
  BY <1>1 DEF Control, Reconf, NotSent, NoKids
<1>3. Lead.grp < Groups - 1 /\ Lead.grp \in Nat
  BY <1>1, <1>2, LeadIs DEF Groupings
<1>4. /\ NewKids \in Seq(Nat \X Nat) /\ DOMAIN NewKids = 1 .. Len(NewKids)
      /\ \A x \in DOMAIN NewKids : NewKids[x] = <<Lead.grp + 1, x>>
  BY <1>1, <1>3, KidsAre
<1>5. DOMAIN proc = Members(comm) /\ Members(kids)' = Members(NewKids) /\ Members(comm)' = Members(comm)
  BY <1>1, <1>2, GroupIs DEF Members
<1>6. \A p \in Members(NewKids) : p \notin Members(comm)
  <2>1. ASSUME NEW x \in DOMAIN comm, NEW y \in DOMAIN NewKids PROVE comm[x] # NewKids[y]
    <3>1. comm[x][1] <= Lead.grp
      BY <1>1, <1>2, <2>1 DEF Groupings
    <3>2. NewKids[y][1] = Lead.grp + 1
      BY <1>4, <2>1
    <3> QED BY <1>3, <3>1, <3>2
  <2> QED BY <2>1 DEF Members
<1>7. /\ proc' = [p \in Members(comm) \cup Members(NewKids) |->
           IF p \in Members(comm) THEN [proc[p] EXCEPT !.times = Now(proc[p], {Spawn})] ELSE Fresh]
  BY <1>5 DEF Spawned
<1>8. ASSUME NEW p \in Members(comm)
      PROVE  /\ proc'[p] \in Process
             /\ WorkIs(proc[p], proc'[p]) /\ BuffersAre(proc[p], proc'[p])
             /\ proc'[p].final = proc[p].final /\ proc'[p].times = Now(proc[p], {Spawn})
  <2>1. proc[p] \in Process /\ proc'[p] = [proc[p] EXCEPT !.times = Now(proc[p], {Spawn})]
    BY <1>1, <1>7, <1>8, GroupIs
  <2>2. Now(proc[p], {Spawn}) \in [TimeFields -> Nat]
    BY <1>1, <2>1, NowIs
  <2> QED BY <2>1, <2>2, ZenonT(40) DEF Process, BuffersAre, WorkIs
<1>9. \A p \in Members(NewKids) : proc'[p] = Fresh
  BY <1>6, <1>7
<1>10. Lead = proc[comm[1]] /\ Lead' = proc'[comm[1]] /\ comm[1] \in Members(comm)
  BY <1>1, GroupIs DEF Lead
<1>11. WorkIs(Lead, Lead') /\ BuffersAre(Lead, Lead') /\ Lead'.final = Lead.final /\ Lead'.times = Now(Lead, {Spawn})
  BY <1>8, <1>10
<1>12. Lead'.grp = Lead.grp
  BY <1>11 DEF WorkIs
<1>13. /\ Resize' = Resize /\ Merge' = Merge /\ Shrinks' = Shrinks /\ Blocking' = Blocking
       /\ \A p : Zombie(p)' = Zombie(p)
       /\ NewKids' = NewKids
  BY <1>1, <1>12, ResizeStays
<1>14. Types'
  <2>1. \A p \in Members(comm) \cup Members(NewKids) : proc'[p] \in Process
    BY <1>1, <1>8, <1>9, FreshIs
  <2> QED BY <1>1, <1>4, <1>5, <1>7, <2>1 DEF Types
<1>15. Groupings'
  BY <1>1, <1>2, <1>4, <1>12, <1>13 DEF Groupings, Reconf
<1>16. Control' /\ Channel'
  BY <1>1, <1>2, <1>13 DEF Control, Channel, Reconf, NotSent, Sent, Ended, Split
<1>17. Work'
  <2>1. QtyIters' = QtyIters /\ Working' = Working
    BY <1>1, <1>11 DEF QtyIters, Working, WorkIs
  <2>2. ASSUME NEW p \in Members(comm) PROVE Beside(proc[p])'
    <3>1. Beside(proc[p]) /\ WorkIs(proc[p], proc'[p])
      BY <1>1, <1>8, <2>2 DEF Work
    <3> QED BY <1>1, <1>11, <3>1 DEF Beside, AsLead, WorkIs
  <2>3. /\ Lead'.iter <= (IF Working' THEN QtyIters' ELSE 0) /\ Lead'.start_phase <= Lead'.phase
        /\ \A x \in PhaseIds : x > Lead'.phase => Lead'.idx[x] = 0
    BY <1>1, <1>11, <2>1 DEF Work, WorkIs
  <2>4. \A p \in Members(NewKids) :
          proc'[p].exec = 0 /\ proc'[p].start_phase = 0 /\ \A x \in PhaseIds : proc'[p].idx[x] = 0
    BY <1>1, <1>9, FreshIs
  <2>5. kpc' \notin Told
    BY <1>1 DEF Told
  <2> QED BY <1>1, <1>5, <2>2, <2>3, <2>4, <2>5, Zenon DEF Work
<1>18. Printed'
  <2>1. \A x \in PhaseIds : Made(x)' = Made(x) /\ Unprinted(x)' = Unprinted(x)
    BY <1>1, <1>11 DEF Made, Unprinted, WorkIs, Shown, Split
  <2> QED BY <1>1, <2>1 DEF Printed
<1>19. Buffers'
  <2>1. HeapsHold'
    <3>1. ASSUME NEW p \in Members(comm) \cup Members(NewKids) PROVE proc'[p].heap = Held(proc'[p])
      <4>1. CASE p \in Members(comm)
        <5>1. BuffersAre(proc[p], proc'[p]) /\ proc[p].heap = Held(proc[p])
          BY <1>1, <1>5, <1>8, <4>1 DEF Buffers, HeapsHold
        <5> QED BY <5>1 DEF BuffersAre, Held
      <4>2. CASE p \in Members(NewKids)
        <5>1. Held(Fresh) = {}
          BY <1>1, FreshIs DEF Held, NoEntry
        <5> QED BY <1>1, <1>9, <4>2, <5>1, FreshIs
      <4> QED BY <3>1, <4>1, <4>2
    <3> QED BY <1>7, <3>1 DEF HeapsHold
  <2>2. SourcesHold'
    <3>1. ASSUME NEW p \in Members(comm)
          PROVE  SourceHolds(proc[p], Lead.grp, Gone(p), MovedA /\ ~Zombie(p), MovedS /\ ~Zombie(p))'
      <4>1. SourceHolds(proc[p], Lead.grp, Gone(p), MovedA /\ ~Zombie(p), MovedS /\ ~Zombie(p))
        BY <1>1, <3>1 DEF Buffers, SourcesHold
      <4>2. ~MovedA /\ ~MovedA' /\ ~MovedS /\ ~MovedS' /\ ~Gone(p) /\ ~Gone(p)'
        BY <1>1, <1>2, <1>13 DEF MovedA, MovedS, Gone, NotSent, Ended, Shown, Split
      <4>3. BuffersAre(proc[p], proc'[p])
        BY <1>8, <3>1
      <4> QED BY <1>1, <1>12, <4>1, <4>2, <4>3 DEF SourceHolds, BuffersAre, Buf
    <3> QED BY <1>5, <3>1, Zenon DEF SourcesHold
  <2>3. KidsHold'
    <3>1. kpc' \notin Told /\ ~KidHasA' /\ ~KidHasS'
      BY <1>1 DEF Told, KidHasA, KidHasS
    <3>2. ASSUME NEW p \in Members(NewKids)
          PROVE  KidHolds(proc[p], Lead.grp, kpc \in Told, KidHasA, KidHasS)'
      BY <1>1, <1>9, <3>1, <3>2, FreshIs DEF KidHolds, NoEntry
    <3> QED BY <1>5, <3>2, Zenon DEF KidsHold
  <2> QED BY <1>1, <2>1, <2>2, <2>3 DEF Buffers, GroupHolds, EndHolds
<1>20. Requests'
  BY <1>1 DEF Requests, NotSent, KidHasA
<1>21. Records'
  <2>1. GroupRecords'
    BY <1>1, <1>11, <1>12 DEF Records, GroupRecords, Recorded
  <2>2. KidsRecord'
    <3>1. kpc' \notin Told /\ ~KidHasA' /\ ~KidHasS'
      BY <1>1 DEF Told, KidHasA, KidHasS
    <3>2. ASSUME NEW p \in Members(NewKids) PROVE KidTimes(proc[p].times, Lead.grp + 1)'
      BY <1>1, <1>9, <3>1, <3>2, FreshIs, FieldsAre DEF KidTimes, Set
    <3> QED BY <1>5, <3>1, <3>2, Zenon DEF KidsRecord
  <2>3. RootTimes'
    <3>1. SourceTimes(Lead.times, Lead.grp + 1)
      BY <1>1, <1>2 DEF Records, RootTimes
    <3>2. Lead'.times = Now(Lead, {Spawn}) /\ Lead \in Process
      BY <1>1, <1>11, LeadIs
    <3>3. \A f \in TimeFields : Lead'.times[f] = IF f = Spawn THEN Lead.grp + 1 ELSE Lead.times[f]
      BY <1>1, <3>2, NowIs
    <3> QED BY <1>1, <1>12, <1>13, <3>1, <3>3, FieldsAre
            DEF RootTimes, SourceTimes, Set, Spawn, NotSent, Sent, Shown, Ended, Split
  <2> QED BY <2>1, <2>2, <2>3 DEF Records
<1> QED BY <1>14, <1>15, <1>16, <1>17, <1>18, <1>19, <1>20, <1>21 DEF Inv

(* A stage that only takes times.                                           *)
LEMMA Timed ==
  ASSUME Inv, pc = "checkpoint", Reconf', NEW fields,
         UNCHANGED <<conf, comm, kids, thread, printed, faults>>, waiting' \in BOOLEAN,
         DOMAIN proc' = DOMAIN proc, proc' = [p \in DOMAIN proc' |-> proc'[p]],
         \A p \in Members(comm) : proc'[p] = [proc[p] EXCEPT !.times = Now(proc[p], fields)],
         \A p \in Members(kids) : proc'[p] = proc[p],
         kpc' \in Told <=> kpc \in Told, KidHasA' <=> KidHasA, KidHasS' <=> KidHasS,
         state' \in NotSent <=> state \in NotSent, state' \in Ended <=> state \in Ended,
         state' \in Shown <=> state \in Shown
  PROVE  /\ Stays /\ Types' /\ Groupings' /\ Work' /\ Printed' /\ Buffers' /\ Requests'
         /\ GroupRecords' /\ KidsRecord'
         /\ \A f \in TimeFields : Lead'.times[f] = IF f \in fields THEN Lead.grp + 1 ELSE Lead.times[f]
         /\ Resize' = Resize /\ Merge' = Merge /\ Shrinks' = Shrinks /\ Blocking' = Blocking
         /\ NewKids' = NewKids /\ Lead'.grp = Lead.grp
<1>1. Types /\ Groupings /\ Reconf /\ Records
  BY DEF Inv, Reconf
<1>2. ASSUME NEW p \in Members(comm)
      PROVE  /\ proc'[p] \in Process /\ WorkIs(proc[p], proc'[p]) /\ BuffersAre(proc[p], proc'[p])
             /\ proc'[p].final = proc[p].final /\ proc'[p].times = Now(proc[p], fields)
  <2>1. proc[p] \in Process /\ proc'[p] = [proc[p] EXCEPT !.times = Now(proc[p], fields)]
    BY <1>1, <1>2, GroupIs
  <2>2. Now(proc[p], fields) \in [TimeFields -> Nat]
    BY <1>1, <2>1, NowIs
  <2> QED BY <2>1, <2>2, ZenonT(40) DEF Process, BuffersAre, WorkIs
<1>3. DOMAIN proc = Members(comm) \cup Members(kids) /\ \A p \in DOMAIN proc : proc[p] \in Process
  BY <1>1, GroupIs
<1>4. SameWork /\ SameBuffers /\ \A p \in DOMAIN proc : proc'[p] \in Process
  BY <1>2, <1>3 DEF SameWork, SameBuffers, WorkIs, BuffersAre
<1>5. Stays /\ Types' /\ Groupings' /\ Work' /\ Printed'
  BY <1>1, <1>4, Staging DEF Types
<1>6. Buffers' /\ Requests'
  BY <1>1, <1>4, <1>5, NoMove
<1>7. /\ Lead'.final = Lead.final /\ Lead'.times = Now(Lead, fields) /\ Lead \in Process
      /\ Resize' = Resize /\ Merge' = Merge /\ Shrinks' = Shrinks /\ Blocking' = Blocking
      /\ NewKids' = NewKids /\ Lead'.grp = Lead.grp
  BY <1>1, <1>2, <1>5, Common, GroupIs
<1>8. GroupRecords'
  BY <1>1, <1>5, <1>7, GroupRecordsStay DEF Records, Reconf
<1>9. KidsRecord'
  BY <1>1, <1>5, <1>7, KidsRecordStay DEF Records, RecordsAre
<1>10. \A f \in TimeFields : Lead'.times[f] = IF f \in fields THEN Lead.grp + 1 ELSE Lead.times[f]
  BY <1>1, <1>7, NowIs
<1> QED BY <1>5, <1>6, <1>7, <1>8, <1>9, <1>10

(* A stage that returns to the application or goes on at once.              *)
LEMMA Idle ==
  ASSUME Inv, pc = "checkpoint", Reconf',
         UNCHANGED <<conf, comm, kids, kpc, wire, proc, thread, printed, faults>>, waiting' \in BOOLEAN,
         state' \in NotSent <=> state \in NotSent, state' \in Ended <=> state \in Ended,
         state' \in Shown <=> state \in Shown
  PROVE  /\ Stays /\ Types' /\ Groupings' /\ Work' /\ Printed' /\ Buffers' /\ Requests'
         /\ GroupRecords' /\ KidsRecord' /\ Lead' = Lead
         /\ Resize' = Resize /\ Merge' = Merge /\ Shrinks' = Shrinks /\ Blocking' = Blocking
         /\ NewKids' = NewKids
<1>1. Types /\ Groupings /\ Reconf /\ Records
  BY DEF Inv, Reconf
<1>2. SameWork /\ SameBuffers /\ (\A p \in DOMAIN proc : proc'[p] \in Process)
      /\ proc' = [p \in DOMAIN proc' |-> proc'[p]]
  BY <1>1, GroupIs DEF SameWork, SameBuffers, WorkIs, BuffersAre, Types
<1>3. Stays /\ Types' /\ Groupings' /\ Work' /\ Printed'
  BY <1>1, <1>2, Staging DEF Types
<1>4. Buffers' /\ Requests'
  BY <1>1, <1>2, <1>3, NoMove DEF KidHasA, KidHasS
<1>5. /\ Resize' = Resize /\ Merge' = Merge /\ Shrinks' = Shrinks /\ Blocking' = Blocking
      /\ NewKids' = NewKids /\ Lead' = Lead
  BY <1>1, <1>3, Common
<1>6. GroupRecords'
  BY <1>1, <1>3, <1>5, GroupRecordsStay DEF Records, Reconf
<1>7. KidsRecord'
  BY <1>1, <1>3, <1>5, KidsRecordStay DEF Records, RecordsAre, KidHasA, KidHasS
<1> QED BY <1>3, <1>4, <1>5, <1>6, <1>7

(* The spawn starts.                                                        *)
LEMMA StSpawnStartStep ==
  ASSUME Inv, StSpawnStart
  PROVE  Inv'
<1>1. /\ pc = "checkpoint" /\ state = "RMS_COMPLETED" /\ Reconf
      /\ UNCHANGED <<conf, comm, thread, printed, faults>>
      /\ Types /\ Groupings /\ Control /\ Channel /\ Records
  BY DEF Inv, StSpawnStart, At, Reconf
<1>2. ~waiting /\ NoKids /\ thread = "none"
  BY <1>1 DEF Control, NotSent
<1>3. CASE Shrinks
  <2>1. /\ pc' = "checkpoint" /\ state' = "SPAWN_ADAPT_POSTPONE"
        /\ UNCHANGED <<waiting, kids, kpc, wire, proc>>
    BY <1>1, <1>3 DEF StSpawnStart, GoOn, children
  <2>2. /\ Stays /\ Types' /\ Groupings' /\ Work' /\ Printed' /\ Buffers' /\ Requests'
        /\ GroupRecords' /\ KidsRecord' /\ Lead' = Lead
        /\ Resize' = Resize /\ Merge' = Merge /\ Shrinks' = Shrinks /\ Blocking' = Blocking
        /\ NewKids' = NewKids
    BY <1>1, <2>1, Idle DEF Types, Reconf, NotSent, Ended, Shown, Split
  <2>3. Control' /\ Channel'
    BY <1>1, <1>2, <1>3, <2>1, <2>2 DEF Control, Channel, NotSent, Sent, Split, Ended, NoKids, Reconf
  <2>4. RootTimes'
    BY <1>1, <2>1, <2>2 DEF Records, RootTimes, SourceTimes, Set, NotSent, Sent, Shown, Ended, Split
  <2> QED BY <2>2, <2>3, <2>4 DEF Inv, Records
<1>4. CASE ~Shrinks /\ conf.spawn_thread
  <2>1. /\ pc' = "reconf" /\ state' = "SPAWN_PENDING"
        /\ UNCHANGED <<waiting, kids, kpc, wire, proc>>
    BY <1>2, <1>4 DEF StSpawnStart, Return, children
  <2>2. /\ Stays /\ Types' /\ Groupings' /\ Work' /\ Printed' /\ Buffers' /\ Requests'
        /\ GroupRecords' /\ KidsRecord' /\ Lead' = Lead
        /\ Resize' = Resize /\ Merge' = Merge /\ Shrinks' = Shrinks /\ Blocking' = Blocking
        /\ NewKids' = NewKids
    BY <1>1, <2>1, Idle DEF Types, Reconf, NotSent, Ended, Shown, Split
  <2>3. Control' /\ Channel'
    BY <1>1, <1>2, <1>4, <2>1, <2>2 DEF Control, Channel, NotSent, Sent, Split, Ended, NoKids, Reconf
  <2>4. RootTimes'
    BY <1>1, <2>1, <2>2 DEF Records, RootTimes, SourceTimes, Set, NotSent, Sent, Shown, Ended, Split
  <2> QED BY <2>2, <2>3, <2>4 DEF Inv, Records
<1>5. CASE ~Shrinks /\ ~conf.spawn_thread
  <2>1. GoOn("SPAWN_COMPLETED") /\ Spawned
    BY <1>5 DEF StSpawnStart
  <2> QED BY <1>1, <1>5, <2>1, SpawnedStep
<1> QED BY <1>3, <1>4, <1>5

(* The spawn is checked.                                                    *)
LEMMA StSpawnPendingStep ==
  ASSUME Inv, StSpawnPending
  PROVE  Inv'
<1>1. /\ pc = "checkpoint" /\ state = "SPAWN_PENDING" /\ Reconf
      /\ UNCHANGED <<conf, comm, thread, printed, faults>>
      /\ Types /\ Groupings /\ Control /\ Channel /\ Records
  BY DEF Inv, StSpawnPending, At, Reconf
<1>2. NoKids /\ thread = "none" /\ ~Shrinks
  BY <1>1 DEF Control, NotSent
<1>3. CASE GoOn("SPAWN_COMPLETED") /\ Spawned
  BY <1>1, <1>2, <1>3, SpawnedStep
<1>4. CASE ~waiting /\ Return(state, "PENDING") /\ UNCHANGED <<children, proc>>
  <2>1. pc' = "reconf" /\ UNCHANGED <<state, waiting, kids, kpc, wire, proc>>
    BY <1>4 DEF Return, children
  <2>2. /\ Stays /\ Types' /\ Groupings' /\ Work' /\ Printed' /\ Buffers' /\ Requests'
        /\ GroupRecords' /\ KidsRecord' /\ Lead' = Lead
        /\ Resize' = Resize /\ Merge' = Merge /\ Shrinks' = Shrinks /\ Blocking' = Blocking
        /\ NewKids' = NewKids
    BY <1>1, <2>1, Idle DEF Types, Reconf
  <2>3. Control' /\ Channel'
    BY <1>1, <1>2, <1>4, <2>1, <2>2 DEF Control, Channel, NotSent, Sent, Split, Ended, NoKids, Reconf
  <2>4. RootTimes'
    BY <1>1, <2>1, <2>2 DEF Records, RootTimes, SourceTimes, Set
  <2> QED BY <2>2, <2>3, <2>4 DEF Inv, Records
<1> QED BY <1>1, <1>3, <1>4 DEF StSpawnPending

(* The children are those of the resize while the data moves.               *)
LEMMA KidsWhen ==
  ASSUME Inv, Reconf, state \in Sent
  PROVE  /\ IF Shrinks THEN NoKids ELSE kids = NewKids /\ kids # <<>>
         /\ Lead.grp < Groups - 1
<1>1. Types /\ Groupings /\ Control /\ Lead.grp < Groups - 1
  BY DEF Inv, Groupings
<1> QED BY <1>1, KidsAre DEF Control

(* The redistribution is checked.                                           *)
LEMMA StRedPendingStep ==
  ASSUME Inv, StRedPending
  PROVE  Inv'
<1>1. /\ pc = "checkpoint" /\ state = "DIST_PENDING" /\ Reconf
      /\ UNCHANGED <<conf, comm, kids, kpc, wire, thread, printed, faults>>
      /\ Types /\ Groupings /\ Control /\ Channel /\ Records
  BY DEF Inv, StRedPending, At, Reconf, children
<1>2. CASE RedCompletes /\ GoOn("USER_START") /\ proc' = Sources(LAMBDA p, q :
             [q EXCEPT !.times = IF Merge THEN Now(q, {<<"async", "end">>}) ELSE @])
  <2> DEFINE fields == IF Merge THEN {<<"async", "end">>} ELSE {}
  <2>1. pc' = "checkpoint" /\ state' = "USER_START" /\ UNCHANGED waiting
    BY <1>1, <1>2 DEF GoOn
  <2>2. /\ \A p \in Members(comm) : ~IsKid(p) /\ proc[p] \in Process
        /\ DOMAIN proc = Members(comm) \cup Members(kids) /\ \A p : IsKid(p) <=> p \in Members(kids)
    BY <1>1, GroupIs, Apart
  <2>3. /\ DOMAIN proc' = DOMAIN proc /\ proc' = [p \in DOMAIN proc' |-> proc'[p]]
        /\ \A p \in Members(kids) : proc'[p] = proc[p]
        /\ \A p \in Members(comm) : proc'[p] =
             [proc[p] EXCEPT !.times = IF Merge THEN Now(proc[p], {<<"async", "end">>}) ELSE @]
    BY <1>2, <2>2 DEF Sources
  <2>4. ASSUME NEW p \in Members(comm)
        PROVE  proc'[p] = [proc[p] EXCEPT !.times = Now(proc[p], fields)]
    <3>1. CASE Merge
      BY <2>3, <2>4, <3>1
    <3>2. CASE ~Merge
      <4>1. proc[p].times \in [TimeFields -> Nat]
        BY <2>2, <2>4, ProcessIs
      <4>2. Now(proc[p], {}) = proc[p].times
        BY <4>1 DEF Now
      <4> QED BY <2>3, <2>4, <3>2, <4>2
    <3> QED BY <3>1, <3>2
  <2> HIDE DEF fields
  <2>5. /\ Stays /\ Types' /\ Groupings' /\ Work' /\ Printed' /\ Buffers' /\ Requests'
        /\ GroupRecords' /\ KidsRecord'
        /\ \A f \in TimeFields : Lead'.times[f] = IF f \in fields THEN Lead.grp + 1 ELSE Lead.times[f]
        /\ Resize' = Resize /\ Merge' = Merge /\ Shrinks' = Shrinks /\ Blocking' = Blocking
        /\ NewKids' = NewKids /\ Lead'.grp = Lead.grp
    BY <1>1, <2>1, <2>3, <2>4, Timed
       DEF Types, Reconf, NotSent, Ended, Shown, Split, KidHasA, KidHasS
  <2>6. Control'
    BY <1>1, <1>2, <2>1, <2>5 DEF Control, RedCompletes, NotSent, Sent, Split, Ended, NoKids, Reconf
  <2>7. Channel'
    BY <1>1, <2>1 DEF Channel, Arriving, Entries, Info, DataSent, Reconf
  <2>8. RootTimes'
    <3>1. "a" \in conf.data
      BY <1>1 DEF Control
    <3> QED BY <1>1, <2>1, <2>5, <3>1, FieldsAre
            DEF fields, Records, RootTimes, SourceTimes, Set, NotSent, Sent, Shown, Ended, Split, Spawn
  <2> QED BY <2>5, <2>6, <2>7, <2>8 DEF Inv, Records
<1>3. CASE ~waiting /\ Return(state, "PENDING") /\ UNCHANGED proc
  <2>1. pc' = "reconf" /\ UNCHANGED <<state, waiting>>
    BY <1>3 DEF Return
  <2>2. /\ Stays /\ Types' /\ Groupings' /\ Work' /\ Printed' /\ Buffers' /\ Requests'
        /\ GroupRecords' /\ KidsRecord' /\ Lead' = Lead
        /\ Resize' = Resize /\ Merge' = Merge /\ Shrinks' = Shrinks /\ Blocking' = Blocking
        /\ NewKids' = NewKids
    BY <1>1, <1>3, <2>1, Idle DEF Types, Reconf
  <2>3. Control'
    BY <1>1, <1>3, <2>1, <2>2 DEF Control, NotSent, Sent, Split, Ended, NoKids, Reconf
  <2>4. Channel'
    BY <1>1, <1>3, <2>1 DEF Channel, Arriving, Entries, Info, DataSent, Reconf
  <2>5. RootTimes'
    BY <1>1, <2>1, <2>2 DEF Records, RootTimes, SourceTimes, Set
  <2> QED BY <2>2, <2>3, <2>4, <2>5 DEF Inv, Records
<1> QED BY <1>1, <1>2, <1>3 DEF StRedPending

(* The communicator of the callback is made with the children.              *)
LEMMA StUserStartStep ==
  ASSUME Inv, StUserStart
  PROVE  Inv'
<1> DEFINE fields == {<<"user", "start">>}
<1>1. /\ pc = "checkpoint" /\ state = "USER_START" /\ Reconf /\ (kids # <<>> => kpc = "tmp")
      /\ pc' = "checkpoint" /\ state' = "USER_PENDING" /\ kpc' = (IF kids = <<>> THEN kpc ELSE "user")
      /\ UNCHANGED <<conf, waiting, comm, kids, wire, thread, printed, faults>>
      /\ Types /\ Groupings /\ Control /\ Channel /\ Records
  BY DEF Inv, StUserStart, At, GoOn, Reconf
<1>2. /\ \A p \in Members(comm) : ~IsKid(p)
      /\ DOMAIN proc = Members(comm) \cup Members(kids) /\ \A p : IsKid(p) <=> p \in Members(kids)
  BY <1>1, GroupIs, Apart
<1>3. /\ DOMAIN proc' = DOMAIN proc /\ proc' = [p \in DOMAIN proc' |-> proc'[p]]
      /\ \A p \in Members(kids) : proc'[p] = proc[p]
      /\ \A p \in Members(comm) : proc'[p] = [proc[p] EXCEPT !.times = Now(proc[p], fields)]
  BY <1>2 DEF StUserStart, Sources
<1> HIDE DEF fields
<1>4. /\ Stays /\ Types' /\ Groupings' /\ Work' /\ Printed' /\ Buffers' /\ Requests'
      /\ GroupRecords' /\ KidsRecord'
      /\ \A f \in TimeFields : Lead'.times[f] = IF f \in fields THEN Lead.grp + 1 ELSE Lead.times[f]
      /\ Resize' = Resize /\ Merge' = Merge /\ Shrinks' = Shrinks /\ Blocking' = Blocking
      /\ NewKids' = NewKids /\ Lead'.grp = Lead.grp
  BY <1>1, <1>3, Timed
     DEF Types, Reconf, NotSent, Ended, Shown, Split, KidHasA, KidHasS, Told
<1>5. Control'
  BY <1>1, <1>4 DEF Control, NotSent, Sent, Split, Ended, NoKids, Reconf
<1>6. Channel'
  BY <1>1 DEF Channel, Arriving, Entries, Reconf
<1>7. RootTimes'
  BY <1>1, <1>4, FieldsAre
     DEF fields, Records, RootTimes, SourceTimes, Set, NotSent, Sent, Shown, Ended, Split, Spawn
<1> QED BY <1>4, <1>5, <1>6, <1>7 DEF Inv, Records

(* The zombies are split off.                                               *)
LEMMA StSpawnAdaptPendingStep ==
  ASSUME Inv, StSpawnAdaptPending
  PROVE  Inv'
<1> DEFINE fields == {Spawn}
<1>1. /\ pc = "checkpoint" /\ state = "SPAWN_ADAPT_PENDING" /\ Reconf
      /\ pc' = "checkpoint" /\ state' = "SPAWN_ADAPTED"
      /\ UNCHANGED <<conf, waiting, comm, kids, kpc, wire, thread, printed, faults>>
      /\ Types /\ Groupings /\ Control /\ Channel /\ Records
  BY DEF Inv, StSpawnAdaptPending, At, GoOn, Reconf, children
<1>2. /\ \A p \in Members(comm) : ~IsKid(p)
      /\ DOMAIN proc = Members(comm) \cup Members(kids) /\ \A p : IsKid(p) <=> p \in Members(kids)
  BY <1>1, GroupIs, Apart
<1>3. /\ DOMAIN proc' = DOMAIN proc /\ proc' = [p \in DOMAIN proc' |-> proc'[p]]
      /\ \A p \in Members(kids) : proc'[p] = proc[p]
      /\ \A p \in Members(comm) : proc'[p] = [proc[p] EXCEPT !.times = Now(proc[p], fields)]
  BY <1>2 DEF StSpawnAdaptPending, Sources
<1> HIDE DEF fields
<1>4. /\ Stays /\ Types' /\ Groupings' /\ Work' /\ Printed' /\ Buffers' /\ Requests'
      /\ GroupRecords' /\ KidsRecord'
      /\ \A f \in TimeFields : Lead'.times[f] = IF f \in fields THEN Lead.grp + 1 ELSE Lead.times[f]
      /\ Resize' = Resize /\ Merge' = Merge /\ Shrinks' = Shrinks /\ Blocking' = Blocking
      /\ NewKids' = NewKids /\ Lead'.grp = Lead.grp
  BY <1>1, <1>3, Timed
     DEF Types, Reconf, NotSent, Ended, Shown, Split, KidHasA, KidHasS
<1>5. Control' /\ Channel'
  BY <1>1, <1>4 DEF Control, Channel, NotSent, Sent, Split, Ended, NoKids, Reconf
<1>6. RootTimes'
  <2>1. Shrinks /\ Merge
    BY <1>1 DEF Control, Split, Shrinks
  <2> QED BY <1>1, <1>4, <2>1, FieldsAre
          DEF fields, Records, RootTimes, SourceTimes, Set, NotSent, Sent, Shown, Ended, Split, Spawn
<1> QED BY <1>4, <1>5, <1>6 DEF Inv, Records

-----------------------------------------------------------------------------
(* The requests.                                                            *)

(* A rank has elements to exchange with some ranks of the other group.      *)
LEMMA SomePeers ==
  ASSUME NEW n \in Procs, NEW m \in Procs, NEW r \in 0 .. n - 1
  PROVE  Peers(r, n, m) \in Nat
<1> DEFINE b == Block(Qty, r, n)
<1>1. n \in Nat \ {0} /\ m \in Nat \ {0} /\ Qty \in Nat /\ Qty >= n
  BY AppAssumption
<1>2. /\ b.ini \in Nat /\ b.fin \in Nat /\ b.ini <= b.fin
      /\ b.ini = b.fin => Qty \div n = 0
  BY <1>1, Within
<1>3. Qty \div n # 0
  <2> DEFINE d == Qty \div n
             s == Qty % n
  <2>1. d \in Nat /\ s \in 0 .. n - 1 /\ Qty = n * d + s
    BY <1>1, Division
  <2> HIDE DEF d, s
  <2>2. d # 0
    <3>1. ASSUME d = 0 PROVE FALSE
      <4>1. n * d = 0
        BY <1>1, <3>1
      <4> QED BY <1>1, <2>1, <4>1
    <3> QED BY <3>1
  <2> QED BY <2>2 DEF d
<1>4. b.ini < b.fin
  BY <1>2, <1>3
<1>5. /\ FirstPeer(Qty, b, m) \in 0 .. m - 1 /\ EndPeer(Qty, b, m) \in 1 .. m
      /\ FirstPeer(Qty, b, m) < EndPeer(Qty, b, m)
  BY <1>1, <1>4, PeersAre
<1> HIDE DEF b
<1>6. EndPeer(Qty, b, m) - FirstPeer(Qty, b, m) \in Nat
  BY <1>1, <1>5
<1> QED BY <1>6 DEF Peers, b

(* The ranks of the children among themselves.                              *)
LEMMA KidsRank ==
  ASSUME Types, Groupings, NEW p \in Members(kids)
  PROVE  RankIn(kids, p) \in 0 .. Len(kids) - 1
<1>1. DOMAIN kids = 1 .. Len(kids) /\ Len(kids) \in Nat
  BY GroupIs
<1> DEFINE x == CHOOSE y \in DOMAIN kids : kids[y] = p
<1>2. x \in DOMAIN kids
  BY DEF Members
<1> HIDE DEF x
<1>3. x - 1 \in 0 .. Len(kids) - 1
  BY <1>1, <1>2
<1> QED BY <1>3 DEF RankIn, x

(* The peers of every process, with the children of the resize or none.     *)
LEMMA PeersOfAll ==
  ASSUME Types, Groupings, pc # "after", Lead.grp < Groups - 1,
         kids = <<>> \/ (~Shrinks /\ kids = NewKids), NEW p \in DOMAIN proc
  PROVE  SendPeers(p) \in Nat /\ RecvPeers(p) \in Nat
<1>1. /\ numP \in Nat \ {0} /\ numC \in Nat \ {0} /\ numP \in Procs /\ numC \in Procs
      /\ Merge \in BOOLEAN
  BY ResizeIs, GroupIs
<1>2. CASE p \in Members(kids)
  <2>1. kids = NewKids /\ ~Shrinks /\ IsKid(p)
    BY <1>2, GroupIs DEF Members
  <2>2. Len(kids) = IF Merge THEN numC - numP ELSE numC
    BY <2>1, KidsAre
  <2>3. RankIn(kids, p) \in 0 .. Len(kids) - 1
    BY <1>2, KidsRank
  <2>4. TargetRank(p) \in 0 .. numC - 1
    BY <1>1, <2>1, <2>2, <2>3 DEF TargetRank
  <2>5. Peers(TargetRank(p), numC, numP) \in Nat
    BY <1>1, <2>4, SomePeers
  <2> QED BY <2>1, <2>5 DEF SendPeers, RecvPeers
<1>3. CASE p \notin Members(kids)
  <2>1. ~IsKid(p) /\ p \in Members(comm)
    BY <1>3, GroupIs
  <2>2. RankIn(comm, p) \in 0 .. numP - 1
    <3>1. PICK x \in 1 .. numP : p = comm[x] /\ RankIn(comm, comm[x]) = x - 1
      BY <2>1, GroupIs
    <3> QED BY <1>1, <3>1
  <2>3. SendPeers(p) \in Nat
    BY <1>1, <2>1, <2>2, SomePeers DEF SendPeers
  <2>4. ASSUME ~Zombie(p) PROVE Peers(TargetRank(p), numC, numP) \in Nat
    <3>1. RankIn(comm, p) < numC
      BY <1>1, <2>1, <2>2, <2>4 DEF Zombie
    <3>2. TargetRank(p) \in 0 .. numC - 1
      BY <1>1, <2>1, <2>2, <3>1 DEF TargetRank
    <3> QED BY <1>1, <3>2, SomePeers
  <2> QED BY <2>1, <2>3, <2>4 DEF RecvPeers, IsTarget
<1> QED BY <1>2, <1>3

(* check_requests makes room for what the process posts.                    *)
LEMMA RoomIsMade ==
  ASSUME Types, Groupings, Lead.grp < Groups - 1, NEW p, SendPeers(p) \in Nat, RecvPeers(p) \in Nat,
         NEW slots \in Nat
  PROVE  CheckRequests(p, slots) \in Nat /\ Posted(p) <= CheckRequests(p, slots)
<1>1. Resize.red \in {"alltoall", "point", "rma"}
  BY ResizeIs
<1> DEFINE s == SendPeers(p)
           r == RecvPeers(p)
<1>2. s \in Nat /\ r \in Nat
  OBVIOUS
<1>3. /\ Posted(p) = CASE Resize.red = "alltoall" -> 1
                     [] Resize.red = "point" -> s + r
                     [] Resize.red = "rma" -> r
      /\ CheckRequests(p, slots) =
           LET sum == IF Resize.red = "alltoall" THEN 1 ELSE s + r
           IN  IF slots # 0 /\ sum <= slots THEN slots ELSE sum
  BY DEF Posted, CheckRequests
<1> HIDE DEF s, r
<1>4. CASE Resize.red = "alltoall"
  BY <1>2, <1>3, <1>4
<1>5. CASE Resize.red = "point"
  BY <1>2, <1>3, <1>5
<1>6. CASE Resize.red = "rma"
  BY <1>2, <1>3, <1>6
<1> QED BY <1>1, <1>4, <1>5, <1>6

-----------------------------------------------------------------------------
(* The transfers.                                                           *)

(* The array of kind k that process p has after it is redistributed, and    *)
(* the room for its requests.                                               *)
Moved(p, q, r, k) ==
  /\ r \in Process /\ WorkIs(q, r) /\ RecordsAre(q, r) /\ r.own = q.own /\ r.app = q.app
  /\ r.heap = IF IsTarget(p) THEN q.heap \cup {<<k, Lead.grp + 1>>} ELSE q.heap
  /\ \A j \in Kinds :
       /\ r.reg[j].array = IF j = k /\ IsTarget(p) THEN <<k, Lead.grp + 1>> ELSE q.reg[j].array
       /\ r.reg[j].slots = IF j = k /\ ~Blocking /\ k = "a" THEN CheckRequests(p, q.reg[j].slots)
                           ELSE q.reg[j].slots

(* The entries of the registry.                                             *)
LEMMA RegistryIs ==
  ASSUME NEW q \in Process, NEW k \in Kinds
  PROVE  q.reg \in Registry /\ q.reg[k].array \in Buffer /\ q.reg[k].slots \in Nat
         /\ q.reg[k] \in [array : Buffer, slots : Nat]
BY ProcessIs DEF Registry

(* What a process has after prepare_redistribution.                         *)
LEMMA ReceiveIs ==
  ASSUME Types, Groupings, NEW p, NEW q \in Process, NEW k \in Kinds
  PROVE  LET r == Receive(p, q, k)
         IN  /\ r \in Process /\ WorkIs(q, r) /\ RecordsAre(q, r) /\ r.own = q.own /\ r.app = q.app
             /\ r.heap = IF IsTarget(p) THEN q.heap \cup {<<k, Lead.grp + 1>>} ELSE q.heap
             /\ r.reg = IF IsTarget(p) THEN [q.reg EXCEPT ![k].array = <<k, Lead.grp + 1>>] ELSE q.reg
<1> DEFINE b == <<k, Lead.grp + 1>>
           r == Receive(p, q, k)
           heap == q.heap \cup {b}
           reg == [q.reg EXCEPT ![k].array = b]
<1>1. CASE ~IsTarget(p)
  <2>1. r = q
    BY <1>1 DEF Receive
  <2> QED BY <1>1, <2>1 DEF WorkIs, RecordsAre
<1>2. CASE IsTarget(p)
  <2>1. b \in Kinds \X Nat /\ b \in Buffer
    BY LeadIs DEF Buffer
  <2>2. heap \in SUBSET (Kinds \X Nat)
    BY <2>1, ProcessIs
  <2>3. reg \in Registry
    <3>1. q.reg[k] \in [array : Buffer, slots : Nat] /\ q.reg \in Registry
      BY RegistryIs
    <3>2. [q.reg[k] EXCEPT !.array = b] \in [array : Buffer, slots : Nat]
      BY <2>1, <3>1, Zenon
    <3> QED BY <3>1, <3>2 DEF Registry
  <2>4. r = [q EXCEPT !.heap = heap, !.reg = reg]
    BY <1>2, Zenon DEF Receive, Process
  <2> HIDE DEF heap, reg, b, r
  <2>5. r \in Process /\ WorkIs(q, r) /\ RecordsAre(q, r) /\ r.own = q.own /\ r.app = q.app /\ r.heap = heap /\ r.reg = reg
    BY <2>2, <2>3, <2>4, ZenonT(40) DEF Process, WorkIs, RecordsAre
  <2> QED BY <1>2, <2>5 DEF heap, reg, b, r
<1> QED BY <1>1, <1>2

(* What a process has after a transfer.                                     *)
LEMMA TransferIs ==
  ASSUME Types, Groupings, NEW p, NEW q \in Process, NEW k \in Kinds,
         k = "a" => CheckRequests(p, q.reg[k].slots) \in Nat
  PROVE  Moved(p, q, Transfer(p, q, k), k)
<1> DEFINE r == Receive(p, q, k)
           t == Transfer(p, q, k)
           b == <<k, Lead.grp + 1>>
           c == CheckRequests(p, q.reg[k].slots)
<1>1. /\ r \in Process /\ WorkIs(q, r) /\ RecordsAre(q, r) /\ r.own = q.own /\ r.app = q.app
      /\ r.heap = IF IsTarget(p) THEN q.heap \cup {b} ELSE q.heap
      /\ r.reg = IF IsTarget(p) THEN [q.reg EXCEPT ![k].array = b] ELSE q.reg
  BY ReceiveIs
<1>2. /\ q.reg \in Registry /\ \A j \in Kinds : q.reg[j] \in [array : Buffer, slots : Nat]
      /\ r.reg \in Registry /\ \A j \in Kinds : r.reg[j] \in [array : Buffer, slots : Nat]
  BY <1>1, RegistryIs
<1>3. \A j \in Kinds :
        /\ r.reg[j].array = IF j = k /\ IsTarget(p) THEN b ELSE q.reg[j].array
        /\ r.reg[j].slots = q.reg[j].slots
  BY <1>1, <1>2 DEF Registry
<1>4. CASE Blocking \/ k = "s"
  <2>1. t = r
    BY <1>4 DEF Transfer
  <2>2. ~(~Blocking /\ k = "a")
    BY <1>4
  <2> QED BY <1>1, <1>3, <2>1, <2>2 DEF Moved
<1>5. CASE ~(Blocking \/ k = "s")
  <2> DEFINE reg == [r.reg EXCEPT ![k].slots = c]
  <2>1. k = "a" /\ ~Blocking /\ c \in Nat
    BY <1>5 DEF Kinds
  <2>2. t = [r EXCEPT !.reg = reg]
    <3>1. t = [r EXCEPT !.reg[k].slots = CheckRequests(p, @)]
      BY <1>5, Zenon DEF Transfer
    <3>2. r.reg[k].slots = q.reg[k].slots
      BY <1>3
    <3>3. t = [r EXCEPT !.reg = [r.reg EXCEPT ![k].slots = CheckRequests(p, r.reg[k].slots)]]
      BY <1>1, <3>1, ZenonT(40) DEF Process
    <3> QED BY <3>2, <3>3, Zenon
  <2>3. reg \in Registry
    <3>1. [r.reg[k] EXCEPT !.slots = c] \in [array : Buffer, slots : Nat]
      BY <1>2, <2>1, Zenon
    <3> QED BY <1>2, <3>1 DEF Registry
  <2>4. \A j \in Kinds :
          /\ reg[j].array = r.reg[j].array
          /\ reg[j].slots = IF j = k THEN c ELSE r.reg[j].slots
    BY <1>2 DEF Registry
  <2> HIDE DEF reg, t, r, c
  <2>5. /\ t \in Process /\ WorkIs(r, t) /\ RecordsAre(r, t) /\ t.own = r.own /\ t.app = r.app
        /\ t.heap = r.heap /\ t.reg = reg
    BY <1>1, <2>2, <2>3, ZenonT(40) DEF Process, WorkIs, RecordsAre
  <2>6. WorkIs(q, t) /\ RecordsAre(q, t) /\ t.own = q.own /\ t.app = q.app
    BY <1>1, <2>5 DEF WorkIs, RecordsAre
  <2>7. \A j \in Kinds :
        /\ t.reg[j].array = IF j = k /\ IsTarget(p) THEN b ELSE q.reg[j].array
        /\ t.reg[j].slots = IF j = k THEN CheckRequests(p, q.reg[j].slots) ELSE q.reg[j].slots
    BY <1>3, <2>4, <2>5 DEF c
  <2>8. Moved(p, q, t, k)
    BY <1>1, <2>1, <2>5, <2>6, <2>7 DEF Moved
  <2> QED BY <2>8 DEF t
<1> QED BY <1>4, <1>5

(* The buffers held, by kind.                                               *)
LEMMA HeldIs ==
  ASSUME NEW q
  PROVE  Held(q) = {q.app["s"], q.app["a"], q.reg["s"].array, q.reg["a"].array} \ {Null}
BY DEF Held, Kinds

(* The buffers of a source after a transfer.                                *)
LEMMA SourceMoves ==
  ASSUME Types, Groupings, NEW p, NEW q \in Process, NEW r, NEW k \in conf.data, Moved(p, q, r, k),
         NEW gone \in BOOLEAN, NEW a \in BOOLEAN, NEW s \in BOOLEAN,
         SourceHolds(q, Lead.grp, gone, a, s), q.heap = Held(q), IsTarget(p) => ~gone,
         k = "a" => ~a, k = "s" => ~s, Groups > 1,
         NEW a2 \in BOOLEAN, a2 <=> (a \/ (k = "a" /\ IsTarget(p))),
         NEW s2 \in BOOLEAN, s2 <=> (s \/ (k = "s" /\ IsTarget(p)))
  PROVE  SourceHolds(r, Lead.grp, gone, a2, s2) /\ r.heap = Held(r)
<1>1. k \in Kinds /\ conf.data \in SUBSET Kinds
  BY ConfIs DEF Types
<1>2. /\ r.own = q.own /\ r.app = q.app
      /\ r.heap = IF IsTarget(p) THEN q.heap \cup {<<k, Lead.grp + 1>>} ELSE q.heap
      /\ \A j \in Kinds :
           r.reg[j].array = IF j = k /\ IsTarget(p) THEN <<k, Lead.grp + 1>> ELSE q.reg[j].array
  BY DEF Moved
<1>3. CASE ~IsTarget(p)
  <2>1. Held(r) = Held(q)
    BY <1>2, <1>3 DEF Held
  <2> QED BY <1>2, <1>3, <2>1 DEF SourceHolds
<1>4. CASE IsTarget(p)
  <2>1. Buf(k, Lead.grp + 1) = <<k, Lead.grp + 1>> /\ Buf(k, Lead.grp) = <<k, Lead.grp>>
    BY DEF Buf
  <2>2. SourceHolds(r, Lead.grp, gone, a2, s2)
    BY <1>1, <1>2, <1>4, <2>1 DEF SourceHolds, Kinds
  <2>3. q.reg[k].array = q.app[k] /\ <<k, Lead.grp + 1>> # Null
    BY <1>1, <1>4, <2>1 DEF SourceHolds, Kinds, Null
  <2>4. r.heap = Held(r)
    <3>1. /\ "s" \in Kinds /\ "a" \in Kinds /\ k \in {"s", "a"}
      BY <1>1 DEF Kinds
    <3> DEFINE b == <<k, Lead.grp + 1>>
    <3>2. r.heap = Held(q) \cup {b} /\ b # Null
      BY <1>2, <1>4, <2>3
    <3>3. r.reg[k].array = b /\ \A j \in Kinds : j # k => r.reg[j].array = q.reg[j].array
      BY <1>1, <1>2, <1>4
    <3> HIDE DEF b
    <3>4. CASE k = "s"
      BY <1>2, <2>3, <3>1, <3>2, <3>3, <3>4, HeldIs, ZenonT(40)
    <3>5. CASE k = "a"
      BY <1>2, <2>3, <3>1, <3>2, <3>3, <3>5, HeldIs, ZenonT(40)
    <3> QED BY <3>1, <3>4, <3>5
  <2> QED BY <2>2, <2>4
<1> QED BY <1>3, <1>4

(* And of a child.                                                          *)
LEMMA KidMoves ==
  ASSUME Types, Groupings, NEW p \in Members(kids), NEW q \in Process, NEW r, NEW k \in conf.data, Moved(p, q, r, k),
         NEW told \in BOOLEAN, NEW a \in BOOLEAN, NEW s \in BOOLEAN,
         KidHolds(q, Lead.grp, told, a, s), q.heap = Held(q),
         k = "a" => ~a, k = "s" => ~s,
         NEW a2 \in BOOLEAN, a2 <=> (a \/ k = "a"), NEW s2 \in BOOLEAN, s2 <=> (s \/ k = "s")
  PROVE  KidHolds(r, Lead.grp, told, a2, s2) /\ r.heap = Held(r)
<1>1. k \in Kinds /\ IsTarget(p)
  BY ConfIs, GroupIs DEF Types, IsTarget
<1>2. /\ r.own = q.own /\ r.app = q.app
      /\ r.heap = q.heap \cup {<<k, Lead.grp + 1>>}
      /\ \A j \in Kinds : r.reg[j].array = IF j = k THEN <<k, Lead.grp + 1>> ELSE q.reg[j].array
  BY <1>1 DEF Moved
<1>3. Buf(k, Lead.grp + 1) = <<k, Lead.grp + 1>>
  BY DEF Buf
<1>4. KidHolds(r, Lead.grp, told, a2, s2)
  BY <1>1, <1>2, <1>3 DEF KidHolds, Kinds
<1>5. q.reg[k].array = Null /\ <<k, Lead.grp + 1>> # Null
  BY <1>1 DEF KidHolds, Kinds, Null
<1>6. r.heap = Held(r)
  <2>1. /\ "s" \in Kinds /\ "a" \in Kinds /\ k \in {"s", "a"}
    BY <1>1 DEF Kinds
  <2> DEFINE b == <<k, Lead.grp + 1>>
  <2>2. r.heap = Held(q) \cup {b} /\ b # Null
    BY <1>2, <1>5
  <2>3. r.reg[k].array = b /\ \A j \in Kinds : j # k => r.reg[j].array = q.reg[j].array
    BY <1>1, <1>2
  <2> HIDE DEF b
  <2>4. CASE k = "s"
    BY <1>2, <1>5, <2>1, <2>2, <2>3, <2>4, HeldIs
  <2>5. CASE k = "a"
    BY <1>2, <1>5, <2>1, <2>2, <2>3, <2>5, HeldIs
  <2> QED BY <2>1, <2>4, <2>5
<1> QED BY <1>4, <1>6

(* Times are taken after a transfer.                                        *)
LEMMA TimesAfter ==
  ASSUME Types, Groupings, NEW q \in Process, NEW r \in Process, NEW fields, NEW t,
         t = [r EXCEPT !.times = Now(q, fields)]
  PROVE  /\ t \in Process /\ WorkIs(r, t) /\ BuffersAre(r, t) /\ t.final = r.final
         /\ t.times = Now(q, fields)
<1>1. Now(q, fields) \in [TimeFields -> Nat]
  BY NowIs
<1> QED BY <1>1, ZenonT(40) DEF Process, WorkIs, BuffersAre

(* WorkIs is transitive.                                                    *)
LEMMA WorkIsTwice ==
  ASSUME NEW q, NEW r, NEW t, WorkIs(q, r), WorkIs(r, t)
  PROVE  WorkIs(q, t)
BY DEF WorkIs

(* What every source does with the data of constant size, at once or in a   *)
(* thread.                                                                  *)
LEMMA SourceTransfers ==
  ASSUME Inv, Reconf, state \in {"SPAWN_ADAPT_POSTPONE", "SPAWN_COMPLETED", "DIST_PENDING"},
         NEW p \in Members(comm)
  PROVE  /\ Moved(p, proc[p], Transfer(p, proc[p], "a"), "a")
         /\ ~Blocking => Posted(p) <= Transfer(p, proc[p], "a").reg["a"].slots
<1>1. /\ Types /\ Groupings /\ Control /\ pc # "after" /\ Lead.grp < Groups - 1
      /\ proc[p] \in Process /\ p \in DOMAIN proc /\ "a" \in Kinds
  BY GroupIs DEF Inv, Reconf, Groupings, Kinds
<1>2. kids = <<>> \/ (~Shrinks /\ kids = NewKids)
  BY <1>1 DEF Control, NotSent, NoKids, Sent
<1>3. SendPeers(p) \in Nat /\ RecvPeers(p) \in Nat /\ proc[p].reg["a"].slots \in Nat
  BY <1>1, <1>2, PeersOfAll, RegistryIs
<1>4. /\ CheckRequests(p, proc[p].reg["a"].slots) \in Nat
      /\ Posted(p) <= CheckRequests(p, proc[p].reg["a"].slots)
  BY <1>1, <1>3, RoomIsMade
<1>5. Moved(p, proc[p], Transfer(p, proc[p], "a"), "a")
  BY <1>1, <1>4, TransferIs
<1>6. ~Blocking => Transfer(p, proc[p], "a").reg["a"].slots = CheckRequests(p, proc[p].reg["a"].slots)
  BY <1>1, <1>5 DEF Moved
<1> QED BY <1>4, <1>5, <1>6

(* The zombies are the sources that are not targets.                        *)
LEMMA SourceIsTarget ==
  ASSUME Types, Groupings, pc # "after", NEW p \in Members(comm)
  PROVE  IsTarget(p) <=> ~Zombie(p)
BY Apart DEF IsTarget

(* A source after the data of constant size has moved.                      *)
LEMMA SourceGetsA ==
  ASSUME Types, Groupings, pc # "after", NEW p \in Members(comm), NEW q \in Process, NEW r, Groups > 1,
         "a" \in conf.data, Moved(p, q, r, "a"),
         SourceHolds(q, Lead.grp, FALSE, FALSE, FALSE), q.heap = Held(q)
  PROVE  SourceHolds(r, Lead.grp, FALSE, ~Zombie(p), FALSE) /\ r.heap = Held(r)
<1>1. PICK z \in BOOLEAN : z <=> ~Zombie(p)
  BY DEF Zombie
<1>2. PICK n \in BOOLEAN : ~n
  OBVIOUS
<1>3. SourceHolds(q, Lead.grp, n, n, n)
  BY <1>2 DEF SourceHolds
<1>4. IsTarget(p) <=> ~Zombie(p)
  BY SourceIsTarget
<1>5. PICK k \in conf.data : k = "a"
  OBVIOUS
<1>6. /\ k = "a" => ~n
      /\ k = "s" => ~n
      /\ IsTarget(p) => ~n
      /\ Moved(p, q, r, k)
      /\ z <=> (n \/ (k = "a" /\ IsTarget(p)))
      /\ n <=> (n \/ (k = "s" /\ IsTarget(p)))
  BY <1>1, <1>2, <1>4, <1>5
<1>7. SourceHolds(r, Lead.grp, n, z, n)
  BY <1>3, <1>6, SourceMoves
<1>8. r.heap = Held(r)
  BY <1>3, <1>6, SourceMoves
<1> QED BY <1>1, <1>2, <1>7, <1>8 DEF SourceHolds

(* And after the variable data.                                             *)
LEMMA SourceGetsS ==
  ASSUME Types, Groupings, pc # "after", NEW p \in Members(comm), NEW q \in Process, NEW r, Groups > 1,
         "s" \in conf.data, Moved(p, q, r, "s"),
         SourceHolds(q, Lead.grp, Zombie(p), MovedA /\ ~Zombie(p), FALSE), q.heap = Held(q)
  PROVE  SourceHolds(r, Lead.grp, Zombie(p), MovedA /\ ~Zombie(p), ~Zombie(p)) /\ r.heap = Held(r)
<1>1. PICK z \in BOOLEAN : z <=> Zombie(p)
  BY DEF Zombie
<1>2. PICK n \in BOOLEAN, y \in BOOLEAN, a \in BOOLEAN : ~n /\ (y <=> ~z) /\ (a <=> MovedA /\ ~Zombie(p))
  BY <1>1
<1>3. PICK b \in BOOLEAN : b <=> a
  OBVIOUS
<1>4. SourceHolds(q, Lead.grp, z, a, n)
  BY <1>1, <1>2 DEF SourceHolds
<1>5. IsTarget(p) <=> ~Zombie(p)
  BY SourceIsTarget
<1>6. PICK k \in conf.data : k = "s"
  OBVIOUS
<1>7. /\ k = "a" => ~a
      /\ k = "s" => ~n
      /\ IsTarget(p) => ~z
      /\ Moved(p, q, r, k)
      /\ b <=> (a \/ (k = "a" /\ IsTarget(p)))
      /\ y <=> (n \/ (k = "s" /\ IsTarget(p)))
  BY <1>1, <1>2, <1>5, <1>6, <1>3
<1>8. SourceHolds(r, Lead.grp, z, b, y)
  BY <1>4, <1>7, SourceMoves
<1>9. r.heap = Held(r)
  BY <1>4, <1>7, SourceMoves
<1> QED BY <1>1, <1>2, <1>8, <1>9, <1>3 DEF SourceHolds

(* The thread redistributes.                                                *)
LEMMA ThreadWorkStep ==
  ASSUME Inv, ThreadWork
  PROVE  Inv'
<1>1. /\ thread = "running" /\ thread' = "finished"
      /\ UNCHANGED <<conf, pc, state, waiting, comm, kids, kpc, wire, printed, faults>>
      /\ Types /\ Groupings /\ Control /\ Channel /\ Buffers /\ Records
  BY DEF Inv, ThreadWork, manager, children
<1>2. Reconf /\ state = "DIST_PENDING" /\ Blocking /\ "a" \in conf.data /\ Lead.grp < Groups - 1
  BY <1>1 DEF Control, Groupings, Reconf, NotSent
<1>3. Reconf' /\ pc \notin {"after", "done", "top"} /\ pc' \notin {"after", "done", "top"}
  BY <1>1, <1>2 DEF Reconf
<1>4. /\ \A p \in Members(comm) : ~IsKid(p)
      /\ DOMAIN proc = Members(comm) \cup Members(kids) /\ \A p : IsKid(p) <=> p \in Members(kids)
      /\ \A p \in DOMAIN proc : proc[p] \in Process
  BY <1>1, <1>3, GroupIs, Apart
<1>5. /\ DOMAIN proc' = DOMAIN proc /\ proc' = [p \in DOMAIN proc' |-> proc'[p]]
      /\ \A p \in Members(comm) : proc'[p] = Transfer(p, proc[p], "a")
      /\ \A p \in Members(kids) : proc'[p] = proc[p]
  BY <1>4 DEF ThreadWork, Sources
<1>6. \A p \in Members(comm) : Moved(p, proc[p], proc'[p], "a")
  BY <1>2, <1>5, SourceTransfers
<1>7. /\ SameWork /\ SameRecords /\ \A p \in DOMAIN proc : proc'[p] \in Process
  BY <1>4, <1>5, <1>6 DEF SameWork, SameRecords, WorkIs, RecordsAre, Moved
<1>8. Stays /\ Types' /\ Groupings' /\ Work' /\ Printed'
  BY <1>1, <1>2, <1>3, <1>5, <1>7, Staging DEF Types
<1>9. /\ Lead'.final = Lead.final /\ Lead'.times = Lead.times /\ Lead'.grp = Lead.grp
      /\ Merge' = Merge /\ Shrinks' = Shrinks /\ Blocking' = Blocking /\ NewKids' = NewKids
      /\ \A p : Zombie(p)' = Zombie(p)
      /\ Members(comm)' = Members(comm)
  BY <1>1, <1>7, <1>8, Common DEF SameRecords, RecordsAre
<1>10. Control'
  BY <1>1, <1>2, <1>9 DEF Control, Reconf, NoKids, NotSent
<1>11. Channel'
  BY <1>1, <1>2 DEF Channel, Arriving, Entries, Info, DataSent, Reconf
<1>12. Buffers'
  <2>1. ASSUME NEW p \in Members(comm)
        PROVE  /\ SourceHolds(proc[p], Lead.grp, Gone(p), MovedA /\ ~Zombie(p), MovedS /\ ~Zombie(p))'
               /\ proc'[p].heap = Held(proc'[p])
    <3>1. SourceHolds(proc[p], Lead.grp, Gone(p), MovedA /\ ~Zombie(p), MovedS /\ ~Zombie(p))
      BY <1>1, <1>3, <2>1 DEF Buffers, SourcesHold
    <3>2. ~MovedA /\ ~MovedS /\ ~Gone(p) /\ MovedA' /\ ~MovedS' /\ ~Gone(p)'
      BY <1>1, <1>2, <1>3, <1>9 DEF MovedA, MovedS, Gone, Shown, Ended, Split
    <3>3. SourceHolds(proc[p], Lead.grp, FALSE, FALSE, FALSE) /\ proc[p].heap = Held(proc[p])
      BY <1>1, <1>4, <2>1, <3>1, <3>2 DEF SourceHolds, Buffers, HeapsHold
    <3>4. Groups > 1
      BY <1>1, <1>2, LeadIs, ConfIs DEF Types
    <3>5. SourceHolds(proc'[p], Lead.grp, FALSE, ~Zombie(p), FALSE) /\ proc'[p].heap = Held(proc'[p])
      BY <1>1, <1>2, <1>3, <1>4, <1>6, <2>1, <3>3, <3>4, SourceGetsA
    <3> QED BY <1>1, <1>9, <3>2, <3>5 DEF SourceHolds, Buf
  <2>2. SourcesHold'
    BY <1>9, <2>1, Zenon DEF SourcesHold
  <2>3. HeapsHold'
    BY <1>1, <1>4, <1>5, <2>1 DEF Buffers, HeapsHold
  <2>4. KidsHold'
    BY <1>1, <1>2, <1>5, <1>8, KidsStay DEF Buffers, BuffersAre, KidHasA, KidHasS
  <2> QED BY <1>1, <1>3, <2>2, <2>3, <2>4 DEF Buffers, GroupHolds, EndHolds
<1>13. Requests'
  BY <1>2, <1>9 DEF Requests
<1>14. Records'
  <2>1. GroupRecords'
    BY <1>1, <1>3, <1>8, <1>9, GroupRecordsStay DEF Records
  <2>2. KidsRecord'
    BY <1>1, <1>2, <1>5, <1>8, <1>9, KidsRecordStay DEF Records, RecordsAre, KidHasA, KidHasS
  <2>3. RootTimes'
    BY <1>1, <1>2, <1>9 DEF Records, RootTimes, SourceTimes, Set
  <2> QED BY <2>1, <2>2, <2>3 DEF Records
<1> QED BY <1>8, <1>10, <1>11, <1>12, <1>13, <1>14 DEF Inv

(* The requests a child is told of.                                         *)
LEMMA Announced ==
  ASSUME Types, Groupings, NEW k \in Kinds
  PROVE  DataInfo(k) = Info(k, Lead.reg[k].slots) /\ Lead.reg[k].slots \in Nat
BY LeadIs, RegistryIs DEF DataInfo, Info

(* The redistribution of the constant data starts.                          *)
LEMMA StRedStartStep ==
  ASSUME Inv, StRedStart
  PROVE  Inv'
<1>1. /\ pc = "checkpoint" /\ state \in {"SPAWN_ADAPT_POSTPONE", "SPAWN_COMPLETED"} /\ Reconf
      /\ UNCHANGED <<conf, comm, kids, kpc, printed, faults>>
      /\ Types /\ Groupings /\ Control /\ Channel /\ Records /\ Buffers
      /\ pc' = "checkpoint" /\ state' \in {"DIST_PENDING", "USER_START"} /\ UNCHANGED waiting
  BY DEF Inv, StRedStart, Reconf, GoOn
<1>2. thread = "none" /\ (Shrinks => NoKids) /\ (~Shrinks => kids = NewKids)
  <2>1. CASE state = "SPAWN_ADAPT_POSTPONE"
    BY <1>1, <2>1 DEF Control, NotSent
  <2>2. CASE state = "SPAWN_COMPLETED"
    BY <1>1, <2>2 DEF Control, NotSent
  <2> QED BY <1>1, <2>1, <2>2
<1>3. kids # <<>> => kpc = "info_a" /\ wire = <<>>
  <2>1. CASE state = "SPAWN_ADAPT_POSTPONE"
    BY <1>1, <2>1 DEF Control, NotSent, NoKids
  <2>2. CASE state = "SPAWN_COMPLETED"
    BY <1>1, <2>2 DEF Channel
  <2> QED BY <1>1, <2>1, <2>2
<1>4. /\ \A p \in Members(comm) : ~IsKid(p)
      /\ DOMAIN proc = Members(comm) \cup Members(kids) /\ \A p : IsKid(p) <=> p \in Members(kids)
      /\ \A p \in DOMAIN proc : proc[p] \in Process
  BY <1>1, GroupIs, Apart
<1>5. Lead.grp < Groups - 1 /\ Groups > 1 /\ Reconf'
  <2>1. Lead.grp < Groups - 1 /\ Reconf'
    BY <1>1 DEF Reconf, Groupings
  <2> QED BY <1>1, <2>1, Ahead
<1>6. PICK m \in Nat : DataInfo("a") = Info("a", m)
  BY <1>1, Announced DEF Kinds
<1>7. Shrinks <=> state = "SPAWN_ADAPT_POSTPONE"
  BY <1>1 DEF Control, NotSent
<1>8. CASE "a" \in conf.data
  <2> DEFINE fields == {<<"async", "start">>}
  <2>1. /\ state' = "DIST_PENDING"
        /\ wire' = (IF kids = <<>> THEN wire ELSE wire \o <<DataInfo("a"), DataSent("a")>>)
        /\ thread' = (IF Blocking THEN "running" ELSE "none")
        /\ proc' = Sources(LAMBDA p, q :
             [(IF Blocking THEN q ELSE Transfer(p, q, "a")) EXCEPT !.times = Now(q, fields)])
    BY <1>8 DEF StRedStart, GoOn
  <2>2. /\ DOMAIN proc' = DOMAIN proc /\ proc' = [p \in DOMAIN proc' |-> proc'[p]]
        /\ \A p \in Members(comm) : proc'[p] =
             [(IF Blocking THEN proc[p] ELSE Transfer(p, proc[p], "a")) EXCEPT !.times = Now(proc[p], fields)]
        /\ \A p \in Members(kids) : proc'[p] = proc[p]
    BY <1>4, <2>1 DEF Sources
  <2> HIDE DEF fields
  <2> DEFINE t(p) == IF Blocking THEN proc[p] ELSE Transfer(p, proc[p], "a")
  <2>3. ASSUME NEW p \in Members(comm)
        PROVE  /\ t(p) \in Process /\ WorkIs(proc[p], t(p)) /\ t(p).final = proc[p].final
               /\ ~Blocking => Moved(p, proc[p], t(p), "a") /\ Posted(p) <= t(p).reg["a"].slots
    <3>1. CASE Blocking
      BY <1>4, <2>3, <3>1 DEF WorkIs
    <3>2. CASE ~Blocking
      <4>1. Moved(p, proc[p], t(p), "a") /\ Posted(p) <= t(p).reg["a"].slots
        BY <1>1, <2>3, <3>2, SourceTransfers
      <4> QED BY <3>2, <4>1 DEF Moved, RecordsAre
    <3> QED BY <3>1, <3>2
  <2>4. \A p \in Members(comm) : proc'[p] = [t(p) EXCEPT !.times = Now(proc[p], fields)]
    BY <2>2
  <2> HIDE DEF t
  <2>5. ASSUME NEW p \in Members(comm)
        PROVE  /\ proc'[p] \in Process /\ WorkIs(proc[p], proc'[p]) /\ BuffersAre(t(p), proc'[p])
               /\ proc'[p].final = proc[p].final /\ proc'[p].times = Now(proc[p], fields)
    <3>1. proc[p] \in Process /\ t(p) \in Process /\ proc'[p] = [t(p) EXCEPT !.times = Now(proc[p], fields)]
      BY <1>4, <2>3, <2>4, <2>5
    <3>2. /\ proc'[p] \in Process /\ WorkIs(t(p), proc'[p]) /\ BuffersAre(t(p), proc'[p])
          /\ proc'[p].final = t(p).final /\ proc'[p].times = Now(proc[p], fields)
      BY <1>1, <3>1, TimesAfter
    <3> QED BY <2>3, <2>5, <3>2, WorkIsTwice
  <2>6. SameWork /\ \A p \in DOMAIN proc : proc'[p] \in Process
    BY <1>4, <2>2, <2>5 DEF SameWork, WorkIs
  <2>7. thread' \in {"none", "running", "finished"} /\ (state' \in Shown <=> state \in Shown)
    BY <1>1, <2>1 DEF Shown, Split
  <2>8. Stays /\ Types' /\ Groupings' /\ Work' /\ Printed'
    BY <1>1, <1>5, <2>2, <2>6, <2>7, Staging DEF Types
  <2>9. /\ Lead'.grp = Lead.grp /\ Lead'.final = Lead.final /\ Lead'.times = Now(Lead, fields)
        /\ Merge' = Merge /\ Shrinks' = Shrinks /\ Blocking' = Blocking /\ NewKids' = NewKids
        /\ \A p : Zombie(p)' = Zombie(p)
        /\ Members(comm)' = Members(comm)
    <3>1. comm[1] \in Members(comm)
      BY <1>1, GroupIs
    <3> QED BY <1>1, <2>5, <2>8, <3>1, Common
  <2>10. Control'
    BY <1>1, <1>2, <1>8, <2>1, <2>9 DEF Control, Reconf, NoKids, NotSent, Sent, Ended, Split
  <2>11. Channel'
    <3>1. ASSUME kids # <<>> PROVE wire' = <<Info("a", m), DataSent("a")>> /\ kpc' = "info_a"
      <4>1. <<>> \o <<DataInfo("a"), DataSent("a")>> = <<DataInfo("a"), DataSent("a")>>
        OBVIOUS
      <4> QED BY <1>1, <1>3, <1>6, <2>1, <3>1, <4>1, Zenon
    <3>2. <<Info("a", m), DataSent("a")>> = Entries("a", m)'
      BY <1>1, <1>8 DEF Entries, Info, DataSent
    <3>3. ASSUME kids # <<>> PROVE Arriving("a", "info_a", "data_a", "tmp")'
      BY <3>1, <3>2, <3>3, Zenon DEF Arriving
    <3> QED BY <1>1, <2>1, <3>3 DEF Channel
  <2>12. Buffers'
    <3>1. ASSUME NEW p \in Members(comm)
          PROVE  /\ SourceHolds(proc[p], Lead.grp, Gone(p), MovedA /\ ~Zombie(p), MovedS /\ ~Zombie(p))'
                 /\ proc'[p].heap = Held(proc'[p])
      <4>1. SourceHolds(proc[p], Lead.grp, Gone(p), MovedA /\ ~Zombie(p), MovedS /\ ~Zombie(p))
        BY <1>1, <3>1 DEF Buffers, SourcesHold
      <4>2. /\ ~MovedA /\ ~MovedS /\ ~Gone(p) /\ ~MovedS' /\ ~Gone(p)'
            /\ MovedA' <=> ~Blocking
        BY <1>1, <1>2, <1>5, <2>1, <2>9 DEF MovedA, MovedS, Gone, Shown, Ended, Split, NotSent
      <4>3. SourceHolds(proc[p], Lead.grp, FALSE, FALSE, FALSE) /\ proc[p].heap = Held(proc[p])
        BY <1>1, <1>4, <3>1, <4>1, <4>2 DEF SourceHolds, Buffers, HeapsHold
      <4>4. /\ SourceHolds(t(p), Lead.grp, FALSE, ~Blocking /\ ~Zombie(p), FALSE)
            /\ t(p).heap = Held(t(p))
        <5>1. CASE Blocking
          BY <4>3, <5>1 DEF t, SourceHolds
        <5>2. CASE ~Blocking
          <6>1. Moved(p, proc[p], t(p), "a")
            BY <2>3, <3>1, <5>2
          <6> QED BY <1>1, <1>4, <1>5, <1>8, <3>1, <4>3, <5>2, <6>1, SourceGetsA DEF SourceHolds
        <5> QED BY <5>1, <5>2
      <4>5. BuffersAre(t(p), proc'[p])
        BY <2>5, <3>1
      <4>6. proc'[p].heap = Held(proc'[p])
        BY <4>4, <4>5 DEF BuffersAre, Held
      <4> QED BY <1>1, <2>9, <4>2, <4>4, <4>5, <4>6 DEF SourceHolds, Buf, BuffersAre
    <3>2. SourcesHold'
      BY <2>9, <3>1, Zenon DEF SourcesHold
    <3>3. HeapsHold'
      BY <1>1, <1>4, <2>2, <3>1 DEF Buffers, HeapsHold
    <3>4. KidsHold'
      BY <1>1, <2>2, <2>8, KidsStay DEF Buffers, BuffersAre, KidHasA, KidHasS
    <3> QED BY <1>1, <3>2, <3>3, <3>4 DEF Buffers, GroupHolds, EndHolds
  <2>13. Requests'
    <3>1. ASSUME ~Blocking, NEW p \in Members(comm) PROVE Fits(p)'
      <4>1. Posted(p) <= t(p).reg["a"].slots /\ BuffersAre(t(p), proc'[p])
        BY <2>3, <2>5, <3>1
      <4> QED BY <1>1, <2>8, <4>1, PostedStays DEF Fits, BuffersAre
    <3>2. KidHasA' => Members(kids)' = {}
      BY <1>1, <1>3 DEF KidHasA, Members
    <3>3. Blocking' = Blocking /\ Members(comm)' = Members(comm)
      BY <1>1, <2>8, Common
    <3> QED BY <3>1, <3>2, <3>3 DEF Requests
  <2>14. Records'
    <3>1. GroupRecords'
      BY <1>1, <2>8, <2>9, GroupRecordsStay DEF Records
    <3>2. KidsRecord'
      BY <1>1, <2>2, <2>8, <2>9, KidsRecordStay DEF Records, RecordsAre, KidHasA, KidHasS
    <3>3. \A f \in TimeFields : Lead'.times[f] = IF f \in fields THEN Lead.grp + 1 ELSE Lead.times[f]
      BY <1>1, <2>9, LeadIs, NowIs
    <3>4. SourceTimes(Lead.times, Lead.grp + 1)
      BY <1>1 DEF Records, RootTimes
    <3>5. SourceTimes(Lead.times, Lead.grp + 1)'
      <4>1. CASE state = "SPAWN_ADAPT_POSTPONE"
        BY <1>1, <1>8, <1>7, <2>1, <2>9, <3>3, <3>4, <4>1, FieldsAre
           DEF fields, SourceTimes, Set, NotSent, Sent, Shown, Ended, Split, Spawn
      <4>2. CASE state = "SPAWN_COMPLETED"
        BY <1>1, <1>8, <1>7, <2>1, <2>9, <3>3, <3>4, <4>2, FieldsAre
           DEF fields, SourceTimes, Set, NotSent, Sent, Shown, Ended, Split, Spawn
      <4> QED BY <1>1, <4>1, <4>2
    <3>6. RootTimes'
      BY <3>5 DEF RootTimes
    <3> QED BY <3>1, <3>2, <3>6 DEF Records
  <2> QED BY <2>8, <2>10, <2>11, <2>12, <2>13, <2>14 DEF Inv
<1>9. CASE "a" \notin conf.data
  <2>1. /\ state' = "USER_START" /\ wire' = (IF kids = <<>> THEN wire ELSE Append(wire, DataInfo("a")))
        /\ UNCHANGED <<thread, proc>>
    BY <1>9 DEF StRedStart, GoOn, Send
  <2>2. SameWork /\ SameBuffers /\ (\A p \in DOMAIN proc : proc'[p] \in Process)
        /\ proc' = [p \in DOMAIN proc' |-> proc'[p]]
    BY <1>1, <1>4, <2>1 DEF SameWork, SameBuffers, WorkIs, BuffersAre, Types
  <2>3. state' \in Shown <=> state \in Shown
    BY <1>1, <2>1 DEF Shown, Split
  <2>4. Stays /\ Types' /\ Groupings' /\ Work' /\ Printed'
    BY <1>1, <1>5, <2>1, <2>2, <2>3, Staging DEF Types
  <2>5. /\ Resize' = Resize /\ Merge' = Merge /\ Shrinks' = Shrinks /\ Blocking' = Blocking
        /\ NewKids' = NewKids /\ Lead' = Lead
        /\ \A p : Zombie(p)' = Zombie(p)
    BY <1>1, <2>1, <2>4, Common
  <2>6. Control'
    BY <1>1, <1>2, <1>9, <2>1, <2>5 DEF Control, Reconf, NoKids, NotSent, Sent, Ended, Split
  <2>7. Channel'
    <3>1. ASSUME kids # <<>> PROVE wire' = <<Info("a", m)>> /\ kpc' = "info_a"
      <4>1. Append(<<>>, DataInfo("a")) = <<DataInfo("a")>>
        OBVIOUS
      <4> QED BY <1>1, <1>3, <1>6, <2>1, <3>1, <4>1, Zenon
    <3>2. <<Info("a", m)>> = Entries("a", m)'
      BY <1>1, <1>9 DEF Entries, Info, DataSent
    <3>3. ASSUME kids # <<>> PROVE Arriving("a", "info_a", "data_a", "tmp")'
      BY <3>1, <3>2, <3>3, Zenon DEF Arriving
    <3> QED BY <1>1, <2>1, <3>3 DEF Channel
  <2>8. Buffers'
    <3>1. ASSUME NEW p \in Members(comm)
          PROVE  SourceHolds(proc[p], Lead.grp, Gone(p), MovedA /\ ~Zombie(p), MovedS /\ ~Zombie(p))'
      <4>1. SourceHolds(proc[p], Lead.grp, Gone(p), MovedA /\ ~Zombie(p), MovedS /\ ~Zombie(p))
        BY <1>1, <3>1 DEF Buffers, SourcesHold
      <4>2. ~MovedS /\ ~Gone(p) /\ ~MovedS' /\ ~Gone(p)'
        BY <1>1, <1>2, <1>5, <2>1, <2>5 DEF MovedS, Gone, Shown, Ended, Split
      <4>3. \A g : Buf("a", g) = Null
        BY <1>9 DEF Buf
      <4> QED BY <1>1, <1>5, <2>1, <2>5, <4>1, <4>2, <4>3 DEF SourceHolds, Buf
    <3>2. SourcesHold'
      BY <1>1, <3>1, Zenon DEF SourcesHold, Members
    <3>3. HeapsHold'
      BY <1>1, <2>2, <2>4, HeapsStay DEF Buffers
    <3>4. KidsHold'
      BY <1>1, <2>1, <2>4, KidsStay DEF Buffers, BuffersAre, KidHasA, KidHasS
    <3> QED BY <1>1, <3>2, <3>3, <3>4 DEF Buffers, GroupHolds, EndHolds
  <2>9. Requests'
    BY <1>1, <1>9 DEF Requests
  <2>10. Records'
    <3>1. GroupRecords'
      BY <1>1, <2>4, <2>5, GroupRecordsStay DEF Records
    <3>2. KidsRecord'
      BY <1>1, <2>1, <2>4, <2>5, KidsRecordStay DEF Records, RecordsAre, KidHasA, KidHasS
    <3>3. SourceTimes(Lead.times, Lead.grp + 1)
      BY <1>1 DEF Records, RootTimes
    <3>4. SourceTimes(Lead.times, Lead.grp + 1)'
      <4>1. CASE state = "SPAWN_ADAPT_POSTPONE"
        BY <1>1, <1>9, <1>7, <2>1, <2>5, <3>3, <4>1
           DEF SourceTimes, Set, NotSent, Sent, Shown, Ended, Split
      <4>2. CASE state = "SPAWN_COMPLETED"
        BY <1>1, <1>9, <1>7, <2>1, <2>5, <3>3, <4>2
           DEF SourceTimes, Set, NotSent, Sent, Shown, Ended, Split
      <4> QED BY <1>1, <4>1, <4>2
    <3>5. RootTimes'
      BY <3>4 DEF RootTimes
    <3> QED BY <3>1, <3>2, <3>5 DEF Records
  <2> QED BY <2>4, <2>6, <2>7, <2>8, <2>9, <2>10 DEF Inv
<1> QED BY <1>8, <1>9

(* A source after the callback: a zombie has freed what it had.             *)
CalledBack(p, q, fields, t) ==
  /\ t \in Process /\ WorkIs(q, t) /\ t.final = Lead.final /\ t.reg = q.reg /\ t.heap = q.heap
  /\ t.own = (IF Zombie(p) THEN (q.own \ {"results"}) \ {"config", "group"} ELSE q.own)
  /\ t.app = (IF Zombie(p) THEN [k \in Kinds |-> Null] ELSE q.app)
  /\ t.times = (IF Merge THEN Now(q, fields) ELSE q.times)

(* What a source has after the callback.                                    *)
LEMMA UserIs ==
  ASSUME Types, Groupings, NEW p, NEW q \in Process, NEW fields, NEW t,
         t = [UserRedistribution(p, q) EXCEPT !.times = IF Merge THEN Now(q, fields) ELSE @]
  PROVE  CalledBack(p, q, fields, t)
<1> DEFINE own == (q.own \ {"results"}) \ {"config", "group"}
           app == [k \in Kinds |-> Null]
           times == IF Merge THEN Now(q, fields) ELSE q.times
           final == Lead.final
           u == UserRedistribution(p, q)
<1>1. times \in [TimeFields -> Nat] /\ own \in SUBSET Structures /\ app \in [Kinds -> Buffer] /\ final \in Finals
  BY NowIs, ProcessIs, LeadIs DEF Buffer
<1>2. /\ u \in Process /\ WorkIs(q, u) /\ u.final = final /\ u.reg = q.reg /\ u.heap = q.heap /\ u.times = q.times
      /\ u.own = (IF Zombie(p) THEN own ELSE q.own) /\ u.app = (IF Zombie(p) THEN app ELSE q.app)
  <2>1. CASE Zombie(p)
    <3>1. u = [q EXCEPT !.final = final, !.own = own, !.app = app]
      BY <2>1, Zenon DEF UserRedistribution, FreeZombie, FreeResults, ResultsComm, Process
    <3> HIDE DEF own, app, final, u
    <3>2. /\ u \in Process /\ WorkIs(q, u) /\ u.reg = q.reg /\ u.heap = q.heap /\ u.times = q.times
          /\ u.final = final /\ u.own = own /\ u.app = app
      BY <1>1, <3>1, ZenonT(40) DEF Process, WorkIs
    <3> QED BY <2>1, <3>2
  <2>2. CASE ~Zombie(p)
    <3>1. u = [q EXCEPT !.final = final]
      BY <2>2 DEF UserRedistribution, ResultsComm
    <3> HIDE DEF own, app, final, u
    <3>2. /\ u \in Process /\ WorkIs(q, u) /\ u.reg = q.reg /\ u.heap = q.heap /\ u.times = q.times
          /\ u.final = final /\ u.own = q.own /\ u.app = q.app
      BY <1>1, <3>1, ZenonT(40) DEF Process, WorkIs
    <3> QED BY <2>2, <3>2
  <2> QED BY <2>1, <2>2
<1>3. t = [u EXCEPT !.times = times]
  BY <1>2
<1> HIDE DEF u, times, own, app, final
<1>4. /\ t \in Process /\ WorkIs(u, t) /\ t.final = u.final /\ t.reg = u.reg /\ t.heap = u.heap
      /\ t.own = u.own /\ t.app = u.app /\ t.times = times
  BY <1>1, <1>2, <1>3, ZenonT(40) DEF Process, WorkIs
<1>5. WorkIs(q, t)
  BY <1>2, <1>4, WorkIsTwice
<1> QED BY <1>2, <1>4, <1>5 DEF own, app, times, final, CalledBack

(* The callback on the sources.                                             *)
LEMMA StUserPendingStep ==
  ASSUME Inv, StUserPending
  PROVE  Inv'
<1> DEFINE fields == {<<"user", "end">>}
<1>1. /\ pc = "checkpoint" /\ state = "USER_PENDING" /\ Reconf /\ PrintLocal(ShownPhase)
      /\ pc' = "checkpoint" /\ state' = "USER_COMPLETED" /\ Reconf' /\ UNCHANGED waiting
      /\ wire' = (IF kids = <<>> THEN wire ELSE Append(wire, UserMsg))
      /\ UNCHANGED <<conf, comm, kids, kpc, thread>>
      /\ Types /\ Groupings /\ Control /\ Channel /\ Records /\ Buffers /\ Printed /\ Requests /\ Work
  BY DEF Inv, StUserPending, At, Reconf, GoOn, Resume, Send, UserMsg
<1>2. /\ (IF Shrinks THEN NoKids ELSE kids = NewKids /\ kids # <<>>) /\ Lead.grp < Groups - 1
      /\ kids # <<>> => kpc = "user" /\ wire = <<>>
  BY <1>1, KidsWhen DEF Inv, Sent, Channel
<1>3. /\ \A p \in Members(comm) : ~IsKid(p)
      /\ DOMAIN proc = Members(comm) \cup Members(kids) /\ \A p : IsKid(p) <=> p \in Members(kids)
      /\ \A p \in DOMAIN proc : proc[p] \in Process
  BY <1>1, GroupIs, Apart
<1>4. /\ DOMAIN proc' = DOMAIN proc /\ proc' = [p \in DOMAIN proc' |-> proc'[p]]
      /\ \A p \in Members(kids) : proc'[p] = proc[p]
      /\ \A p \in Members(comm) : proc'[p] =
           [UserRedistribution(p, proc[p]) EXCEPT !.times = IF Merge THEN Now(proc[p], fields) ELSE @]
  BY <1>3 DEF StUserPending, Sources
<1> HIDE DEF fields
<1>5. ASSUME NEW p \in Members(comm)
      PROVE  /\ proc'[p] \in Process /\ WorkIs(proc[p], proc'[p]) /\ proc'[p].final = Lead.final
             /\ proc'[p].reg = proc[p].reg /\ proc'[p].heap = proc[p].heap
             /\ proc'[p].own = (IF Zombie(p) THEN (proc[p].own \ {"results"}) \ {"config", "group"} ELSE proc[p].own)
             /\ proc'[p].app = (IF Zombie(p) THEN [k \in Kinds |-> Null] ELSE proc[p].app)
             /\ proc'[p].times = (IF Merge THEN Now(proc[p], fields) ELSE proc[p].times)
  <2>1. proc[p] \in Process
    BY <1>3, <1>5
  <2>2. proc'[p] = [UserRedistribution(p, proc[p]) EXCEPT !.times = IF Merge THEN Now(proc[p], fields) ELSE @]
    BY <1>4, <1>5
  <2>3. CalledBack(p, proc[p], fields, proc'[p])
    BY <1>1, <2>1, <2>2, UserIs
  <2> QED BY <2>3 DEF CalledBack
<1>6. SameWork /\ \A p \in DOMAIN proc : proc'[p] \in Process
  BY <1>3, <1>4, <1>5 DEF SameWork, WorkIs
<1>7. /\ printed' \in [PhaseIds -> Nat] /\ Accessed
      /\ \A x \in PhaseIds :
           printed'[x] = printed[x] + (IF Lead.start_phase <= x /\ x < Lead.phase + 1 THEN Lead.idx[x] ELSE 0)
  BY <1>1, PrintIs DEF ShownPhase
<1>8. Stays /\ Types' /\ Groupings' /\ Work'
  BY <1>1, <1>4, <1>6, <1>7, Staging DEF Types
<1>9. /\ Lead'.final = Lead.final /\ Lead'.grp = Lead.grp /\ WorkIs(Lead, Lead') /\ Lead'.reg = Lead.reg
      /\ Lead'.times = (IF Merge THEN Now(Lead, fields) ELSE Lead.times)
      /\ Merge' = Merge /\ Shrinks' = Shrinks /\ Blocking' = Blocking /\ NewKids' = NewKids
      /\ \A p : Zombie(p)' = Zombie(p)
      /\ Members(comm)' = Members(comm)
  <2>1. comm[1] \in Members(comm)
    BY <1>1, GroupIs
  <2> QED BY <1>1, <1>5, <1>8, <2>1, Common
<1>10. Control'
  BY <1>1, <1>2, <1>9 DEF Control, Reconf, NoKids, NotSent, Sent, Ended, Split
<1>11. Channel'
  <2>1. ASSUME kids # <<>> PROVE kpc' = "user" /\ wire' = <<UserMsg>>
    <3>1. Append(<<>>, UserMsg) = <<UserMsg>>
      OBVIOUS
    <3> QED BY <1>1, <1>2, <2>1, <3>1, Zenon
  <2>2. UserMsg' = UserMsg
    BY <1>9 DEF UserMsg, WorkIs
  <2> QED BY <1>1, <2>1, <2>2 DEF Channel
<1>12. Printed'
  <2>1. ASSUME NEW x \in PhaseIds PROVE printed'[x] + Unprinted(x)' = Made(x)'
    <3>1. printed[x] + Unprinted(x) = Made(x)
      BY <1>1, <2>1 DEF Printed
    <3>2. printed'[x] = printed[x] + (IF Lead.start_phase <= x /\ x < Lead.phase + 1 THEN Lead.idx[x] ELSE 0)
      BY <1>7, <2>1
    <3>3. x \in Nat /\ Lead.start_phase \in Nat /\ Lead.phase \in Nat /\ printed[x] \in Nat /\ Lead.idx[x] \in Nat
      BY <1>1, <2>1, LeadIs
    <3>4. x > Lead.phase => Lead.idx[x] = 0
      BY <1>1, <2>1 DEF Work
    <3>5. Unprinted(x) = IF x >= Lead.start_phase THEN Lead.idx[x] ELSE 0
      BY <1>1, <3>3 DEF Unprinted, Shown, Split
    <3>6. Unprinted(x)' = 0 /\ Made(x)' = Made(x)
      BY <1>1, <1>9 DEF Unprinted, Made, WorkIs, Shown
    <3>7. printed'[x] = printed[x] + Unprinted(x)
      BY <3>2, <3>3, <3>4, <3>5
    <3> QED BY <1>7, <2>1, <3>1, <3>6, <3>7
  <2> QED BY <2>1 DEF Printed
<1>13. Buffers'
  <2>1. ASSUME NEW p \in Members(comm)
        PROVE  /\ SourceHolds(proc[p], Lead.grp, Gone(p), MovedA /\ ~Zombie(p), MovedS /\ ~Zombie(p))'
               /\ proc'[p].heap = Held(proc'[p])
    <3>1. /\ SourceHolds(proc[p], Lead.grp, Gone(p), MovedA /\ ~Zombie(p), MovedS /\ ~Zombie(p))
          /\ proc[p].heap = Held(proc[p])
      BY <1>1, <1>3, <2>1 DEF Buffers, SourcesHold, HeapsHold
    <3>2. ~Gone(p) /\ (Gone(p)' <=> Zombie(p)) /\ MovedA' = MovedA /\ ~MovedS /\ ~MovedS'
      BY <1>1, <1>9 DEF MovedA, MovedS, Gone, Shown, Ended, Split, NotSent
    <3>3. /\ proc'[p].own = IF Zombie(p) THEN {} ELSE Structures
          /\ \A k \in Kinds : /\ proc[p].app[k] = Buf(k, Lead.grp)
                             /\ proc'[p].app[k] = (IF Zombie(p) THEN Null ELSE Buf(k, Lead.grp))
                             /\ proc'[p].reg[k].array = proc[p].reg[k].array
      BY <1>5, <2>1, <3>1, <3>2 DEF SourceHolds, Structures
    <3>4. \A k \in Kinds : Zombie(p) => proc[p].reg[k].array = Buf(k, Lead.grp)
      <4>1. Groups > 1
        BY <1>1, <1>2, Ahead
      <4> QED BY <3>1, <4>1 DEF SourceHolds
    <3>5. Held(proc'[p]) = Held(proc[p])
      <4>1. CASE Zombie(p)
        <5>1. "s" \in Kinds /\ "a" \in Kinds
          BY DEF Kinds
        <5> QED BY <3>3, <3>4, <4>1, <5>1, HeldIs, ZenonT(40)
      <4>2. CASE ~Zombie(p)
        BY <3>3, <4>2 DEF Held
      <4> QED BY <4>1, <4>2
    <3> QED BY <1>1, <1>5, <1>9, <2>1, <3>1, <3>2, <3>3, <3>5, ZenonT(40) DEF SourceHolds, Buf
  <2>2. SourcesHold'
    BY <1>9, <2>1, Zenon DEF SourcesHold
  <2>3. HeapsHold'
    BY <1>1, <1>3, <1>4, <2>1 DEF Buffers, HeapsHold
  <2>4. KidsHold'
    BY <1>1, <1>4, <1>8, KidsStay DEF Buffers, BuffersAre, KidHasA, KidHasS
  <2>5. faults' \subseteq Faults
    BY <1>1, <1>7, AccessedFaults
  <2> QED BY <1>1, <2>2, <2>3, <2>4, <2>5 DEF Buffers, GroupHolds, EndHolds
<1>14. Requests'
  <2>1. ASSUME NEW p \in DOMAIN proc PROVE Fits(p)' <=> Fits(p)
    <3>1. proc'[p].reg = proc[p].reg
      BY <1>3, <1>4, <1>5, <2>1
    <3> QED BY <1>1, <1>8, <3>1, PostedStays DEF Fits
  <2> QED BY <1>1, <1>3, <1>9, <2>1 DEF Requests, NotSent, KidHasA, Members
<1>15. Records'
  <2>1. GroupRecords'
    BY <1>1, <1>8, <1>9, GroupRecordsStay DEF Records
  <2>2. KidsRecord'
    BY <1>1, <1>4, <1>8, <1>9, KidsRecordStay DEF Records, RecordsAre, KidHasA, KidHasS
  <2>3. \A f \in TimeFields : Lead'.times[f] = IF Merge /\ f \in fields THEN Lead.grp + 1 ELSE Lead.times[f]
    BY <1>1, <1>9, LeadIs, NowIs
  <2>4. SourceTimes(Lead.times, Lead.grp + 1)
    BY <1>1 DEF Records, RootTimes
  <2>5. RootTimes'
    BY <1>1, <1>9, <2>3, <2>4, FieldsAre
       DEF fields, RootTimes, SourceTimes, Set, NotSent, Sent, Shown, Ended, Split, Spawn
  <2> QED BY <2>1, <2>2, <2>5 DEF Records
<1> QED BY <1>8, <1>10, <1>11, <1>12, <1>13, <1>14, <1>15 DEF Inv

(* The variable data is redistributed.                                      *)
LEMMA StUserCompletedStep ==
  ASSUME Inv, StUserCompleted
  PROVE  Inv'
<1>1. /\ pc = "checkpoint" /\ state = "USER_COMPLETED" /\ Reconf
      /\ pc' = "checkpoint" /\ state' = (IF Shrinks THEN "SPAWN_ADAPT_PENDING" ELSE "DIST_COMPLETED")
      /\ Reconf' /\ UNCHANGED waiting
      /\ UNCHANGED <<conf, comm, kids, kpc, thread, printed, faults>>
      /\ Types /\ Groupings /\ Control /\ Channel /\ Records /\ Buffers /\ Requests
  BY DEF Inv, StUserCompleted, At, Reconf, GoOn
<1>2. /\ (IF Shrinks THEN NoKids ELSE kids = NewKids /\ kids # <<>>) /\ Lead.grp < Groups - 1
      /\ kids # <<>> => (kpc = "user" /\ wire = <<UserMsg>>) \/ (kpc = "info_s" /\ wire = <<>>)
  BY <1>1, KidsWhen DEF Inv, Sent, Channel
<1>3. /\ \A p \in Members(comm) : ~IsKid(p)
      /\ DOMAIN proc = Members(comm) \cup Members(kids) /\ \A p : IsKid(p) <=> p \in Members(kids)
      /\ \A p \in DOMAIN proc : proc[p] \in Process
  BY <1>1, GroupIs, Apart
<1>4. Groups > 1 /\ (state' \in Shown <=> state \in Shown)
  <2>1. Groups > 1
    BY <1>1, <1>2, Ahead
  <2> QED BY <1>1, <2>1 DEF Shown, Split
<1>5. PICK m \in Nat : DataInfo("s") = Info("s", m)
  BY <1>1, Announced DEF Kinds
<1>6. \A p \in Members(comm) :
        /\ SourceHolds(proc[p], Lead.grp, Zombie(p), MovedA /\ ~Zombie(p), FALSE)
        /\ proc[p].heap = Held(proc[p])
        /\ IsTarget(p) <=> ~Zombie(p)
  <2>1. ASSUME NEW p \in Members(comm)
        PROVE  /\ SourceHolds(proc[p], Lead.grp, Zombie(p), MovedA /\ ~Zombie(p), FALSE)
               /\ proc[p].heap = Held(proc[p])
    <3>1. /\ SourceHolds(proc[p], Lead.grp, Gone(p), MovedA /\ ~Zombie(p), MovedS /\ ~Zombie(p))
          /\ proc[p].heap = Held(proc[p])
      BY <1>1, <1>3, <2>1 DEF Buffers, SourcesHold, HeapsHold
    <3>2. (Gone(p) <=> Zombie(p)) /\ ~MovedS
      BY <1>1 DEF MovedS, Gone, Shown, Ended, Split
    <3> QED BY <3>1, <3>2 DEF SourceHolds
  <2> QED BY <1>1, <2>1, SourceIsTarget
<1>7. MovedA' = MovedA /\ MovedS' /\ \A p : Gone(p)' <=> Zombie(p)'
  BY <1>1 DEF MovedA, MovedS, Gone, Shown, Ended, Split, NotSent, Blocking
<1>8. CASE "s" \in conf.data
  <2> DEFINE fields == {<<"sync", "start">>} \cup (IF Merge THEN {<<"sync", "end">>} ELSE {})
             t(p) == Transfer(p, proc[p], "s")
  <2>1. /\ wire' = (IF kids = <<>> THEN wire ELSE wire \o <<DataInfo("s"), DataSent("s")>>)
        /\ proc' = Sources(LAMBDA p, q : [Transfer(p, q, "s") EXCEPT !.times = Now(q, fields)])
    BY <1>8 DEF StUserCompleted
  <2>2. /\ DOMAIN proc' = DOMAIN proc /\ proc' = [p \in DOMAIN proc' |-> proc'[p]]
        /\ \A p \in Members(comm) : proc'[p] = [t(p) EXCEPT !.times = Now(proc[p], fields)]
        /\ \A p \in Members(kids) : proc'[p] = proc[p]
    BY <1>3, <2>1 DEF Sources
  <2>3. \A p \in Members(comm) : Moved(p, proc[p], t(p), "s")
    BY <1>1, <1>3, TransferIs DEF Kinds
  <2> HIDE DEF fields, t
  <2>4. ASSUME NEW p \in Members(comm)
        PROVE  /\ proc'[p] \in Process /\ WorkIs(proc[p], proc'[p]) /\ BuffersAre(t(p), proc'[p])
               /\ proc'[p].final = proc[p].final /\ proc'[p].times = Now(proc[p], fields)
               /\ proc'[p].reg["a"].slots = proc[p].reg["a"].slots
    <3>1. /\ t(p) \in Process /\ WorkIs(proc[p], t(p)) /\ t(p).final = proc[p].final
          /\ t(p).reg["a"].slots = proc[p].reg["a"].slots
      BY <2>3, <2>4 DEF Moved, RecordsAre, Kinds
    <3>2. proc[p] \in Process /\ proc'[p] = [t(p) EXCEPT !.times = Now(proc[p], fields)]
      BY <1>3, <2>2, <2>4
    <3>3. /\ proc'[p] \in Process /\ WorkIs(t(p), proc'[p]) /\ BuffersAre(t(p), proc'[p])
          /\ proc'[p].final = t(p).final /\ proc'[p].times = Now(proc[p], fields)
      BY <1>1, <3>1, <3>2, TimesAfter
    <3>4. WorkIs(proc[p], proc'[p])
      BY <3>1, <3>3, WorkIsTwice
    <3> QED BY <3>1, <3>3, <3>4 DEF BuffersAre
  <2>5. SameWork /\ \A p \in DOMAIN proc : proc'[p] \in Process
    BY <1>3, <2>2, <2>4 DEF SameWork, WorkIs
  <2>6. Stays /\ Types' /\ Groupings' /\ Work' /\ Printed'
    BY <1>1, <1>4, <2>2, <2>5, Staging DEF Types
  <2>7. /\ Lead'.grp = Lead.grp /\ Lead'.final = Lead.final /\ Lead'.times = Now(Lead, fields)
        /\ WorkIs(Lead, Lead')
        /\ Merge' = Merge /\ Shrinks' = Shrinks /\ Blocking' = Blocking /\ NewKids' = NewKids
        /\ \A p : Zombie(p)' = Zombie(p)
        /\ Members(comm)' = Members(comm)
    <3>1. comm[1] \in Members(comm)
      BY <1>1, GroupIs
    <3> QED BY <1>1, <2>4, <2>6, <3>1, Common
  <2>8. Control'
    BY <1>1, <1>2, <2>1, <2>7 DEF Control, Reconf, NoKids, NotSent, Sent, Ended, Split
  <2>9. Channel'
    <3>1. Entries("s", m)' = <<Info("s", m), DataSent("s")>>
      BY <1>1, <1>8 DEF Entries, Info, DataSent
    <3>2. UserMsg' = UserMsg
      BY <2>7 DEF UserMsg, WorkIs
    <3>3. kids # <<>> => wire' = wire \o <<Info("s", m), DataSent("s")>>
      BY <1>5, <2>1
    <3>4. <<>> \o <<Info("s", m), DataSent("s")>> = <<Info("s", m), DataSent("s")>>
      OBVIOUS
    <3>5. ASSUME kids # <<>>, kpc = "user" PROVE wire' = (<<UserMsg>> \o Entries("s", m))'
      BY <1>2, <3>1, <3>2, <3>3, <3>5, Zenon
    <3>6. ASSUME kids # <<>>, kpc # "user" PROVE Arriving("s", "info_s", "data_s", "commit")'
      <4>1. kpc' = "info_s" /\ wire' = Entries("s", m)'
        BY <1>1, <1>2, <3>1, <3>3, <3>4, <3>6, Zenon
      <4> QED BY <4>1, Zenon DEF Arriving
    <3>7. kids # <<>> => state' = "DIST_COMPLETED"
      BY <1>1, <1>2 DEF NoKids
    <3> QED BY <1>1, <3>5, <3>6, <3>7 DEF Channel
  <2>10. Buffers'
    <3>1. ASSUME NEW p \in Members(comm)
          PROVE  /\ SourceHolds(proc[p], Lead.grp, Gone(p), MovedA /\ ~Zombie(p), MovedS /\ ~Zombie(p))'
                 /\ proc'[p].heap = Held(proc'[p])
      <4>1. SourceHolds(t(p), Lead.grp, Zombie(p), MovedA /\ ~Zombie(p), ~Zombie(p)) /\ t(p).heap = Held(t(p))
        <5>1. proc[p] \in Process /\ Moved(p, proc[p], t(p), "s")
          BY <1>3, <2>3, <3>1
        <5> QED BY <1>1, <1>4, <1>6, <1>8, <3>1, <5>1, SourceGetsS
      <4>2. BuffersAre(t(p), proc'[p])
        BY <2>4, <3>1
      <4>3. proc'[p].heap = Held(proc'[p])
        BY <4>1, <4>2 DEF BuffersAre, Held
      <4> QED BY <1>1, <1>7, <2>7, <4>1, <4>2, <4>3 DEF SourceHolds, Buf, BuffersAre
    <3>2. SourcesHold'
      BY <2>7, <3>1, Zenon DEF SourcesHold
    <3>3. HeapsHold'
      BY <1>1, <1>3, <2>2, <3>1 DEF Buffers, HeapsHold
    <3>4. KidsHold'
      BY <1>1, <2>2, <2>6, KidsStay DEF Buffers, BuffersAre, KidHasA, KidHasS
    <3> QED BY <1>1, <3>2, <3>3, <3>4 DEF Buffers, GroupHolds, EndHolds
  <2>11. Requests'
    <3>1. ASSUME NEW p \in DOMAIN proc PROVE Fits(p)' <=> Fits(p)
      <4>1. proc'[p].reg["a"].slots = proc[p].reg["a"].slots
        BY <1>3, <2>2, <2>4, <3>1
      <4> QED BY <1>1, <2>6, <4>1, PostedStays DEF Fits
    <3> QED BY <1>1, <1>3, <2>7, <3>1 DEF Requests, NotSent, KidHasA, Members
  <2>12. Records'
    <3>1. GroupRecords'
      BY <1>1, <2>6, <2>7, GroupRecordsStay DEF Records
    <3>2. KidsRecord'
      BY <1>1, <2>2, <2>6, <2>7, KidsRecordStay DEF Records, RecordsAre, KidHasA, KidHasS
    <3>3. \A f \in TimeFields : Lead'.times[f] = IF f \in fields THEN Lead.grp + 1 ELSE Lead.times[f]
      BY <1>1, <2>7, LeadIs, NowIs
    <3>4. SourceTimes(Lead.times, Lead.grp + 1)
      BY <1>1 DEF Records, RootTimes
    <3>5. SourceTimes(Lead.times, Lead.grp + 1)'
      BY <1>1, <1>8, <2>7, <3>3, <3>4, FieldsAre
         DEF fields, SourceTimes, Set, NotSent, Sent, Shown, Ended, Split, Spawn
    <3> QED BY <3>1, <3>2, <3>5 DEF Records, RootTimes
  <2> QED BY <2>6, <2>8, <2>9, <2>10, <2>11, <2>12 DEF Inv
<1>9. CASE "s" \notin conf.data
  <2>1. /\ wire' = (IF kids = <<>> THEN wire ELSE Append(wire, DataInfo("s")))
        /\ UNCHANGED proc
    BY <1>9 DEF StUserCompleted, Send
  <2>2. SameWork /\ SameBuffers /\ (\A p \in DOMAIN proc : proc'[p] \in Process)
        /\ proc' = [p \in DOMAIN proc' |-> proc'[p]]
    BY <1>1, <1>3, <2>1 DEF SameWork, SameBuffers, WorkIs, BuffersAre, Types
  <2>3. Stays /\ Types' /\ Groupings' /\ Work' /\ Printed'
    BY <1>1, <1>4, <2>1, <2>2, Staging DEF Types
  <2>4. /\ Resize' = Resize /\ Merge' = Merge /\ Shrinks' = Shrinks /\ Blocking' = Blocking
        /\ NewKids' = NewKids /\ Lead' = Lead
        /\ \A p : Zombie(p)' = Zombie(p)
    BY <1>1, <2>1, <2>3, Common
  <2>5. Control'
    BY <1>1, <1>2, <2>1, <2>4 DEF Control, Reconf, NoKids, NotSent, Sent, Ended, Split
  <2>6. Channel'
    <3>1. Entries("s", m)' = <<Info("s", m)>>
      BY <1>1, <1>9 DEF Entries, Info
    <3>2. UserMsg' = UserMsg
      BY <2>4 DEF UserMsg
    <3>3. kids # <<>> => wire' = Append(wire, Info("s", m))
      BY <1>5, <2>1
    <3>4. Append(<<>>, Info("s", m)) = <<Info("s", m)>>
          /\ Append(<<UserMsg>>, Info("s", m)) = <<UserMsg>> \o <<Info("s", m)>>
      OBVIOUS
    <3>5. ASSUME kids # <<>>, kpc = "user" PROVE wire' = (<<UserMsg>> \o Entries("s", m))'
      BY <1>2, <3>1, <3>2, <3>3, <3>4, <3>5, Zenon
    <3>6. ASSUME kids # <<>>, kpc # "user" PROVE Arriving("s", "info_s", "data_s", "commit")'
      <4>1. kpc' = "info_s" /\ wire' = Entries("s", m)'
        BY <1>1, <1>2, <3>1, <3>3, <3>4, <3>6, Zenon
      <4> QED BY <4>1, Zenon DEF Arriving
    <3>7. kids # <<>> => state' = "DIST_COMPLETED"
      BY <1>1, <1>2 DEF NoKids
    <3> QED BY <1>1, <3>5, <3>6, <3>7 DEF Channel
  <2>7. Buffers'
    <3>1. ASSUME NEW p \in Members(comm)
          PROVE  SourceHolds(proc[p], Lead.grp, Gone(p), MovedA /\ ~Zombie(p), MovedS /\ ~Zombie(p))'
      <4>1. SourceHolds(proc[p], Lead.grp, Zombie(p), MovedA /\ ~Zombie(p), FALSE)
        BY <1>6, <3>1
      <4>2. \A g : Buf("s", g) = Null
        BY <1>9 DEF Buf
      <4> QED BY <1>1, <1>4, <1>7, <2>1, <2>4, <4>1, <4>2 DEF SourceHolds, Buf
    <3>2. SourcesHold'
      BY <1>1, <3>1, Zenon DEF SourcesHold, Members
    <3>3. HeapsHold'
      BY <1>1, <2>2, <2>3, HeapsStay DEF Buffers
    <3>4. KidsHold'
      BY <1>1, <2>1, <2>3, KidsStay DEF Buffers, BuffersAre, KidHasA, KidHasS
    <3> QED BY <1>1, <3>2, <3>3, <3>4 DEF Buffers, GroupHolds, EndHolds
  <2>8. Requests'
    BY <1>1, <2>2, <2>3, RequestsStay DEF NotSent, KidHasA, Split
  <2>9. Records'
    <3>1. GroupRecords'
      BY <1>1, <2>3, <2>4, GroupRecordsStay DEF Records
    <3>2. KidsRecord'
      BY <1>1, <2>1, <2>3, <2>4, KidsRecordStay DEF Records, RecordsAre, KidHasA, KidHasS
    <3>3. SourceTimes(Lead.times, Lead.grp + 1)
      BY <1>1 DEF Records, RootTimes
    <3>4. SourceTimes(Lead.times, Lead.grp + 1)'
      BY <1>1, <1>9, <2>4, <3>3 DEF SourceTimes, Set, NotSent, Sent, Shown, Ended, Split
    <3> QED BY <3>1, <3>2, <3>4 DEF Records, RootTimes
  <2> QED BY <2>3, <2>5, <2>6, <2>7, <2>8, <2>9 DEF Inv
<1> QED BY <1>8, <1>9

-----------------------------------------------------------------------------
(* The children.                                                            *)

(* A child that receives something is of the resize that goes on.           *)
LEMMA KidsThere ==
  ASSUME Inv, kpc # "none"
  PROVE  /\ Reconf /\ kids = NewKids /\ kids # <<>> /\ ~Shrinks /\ Lead.grp < Groups - 1
         /\ state \in {"SPAWN_COMPLETED", "DIST_COMPLETED"} \cup Sent
<1>1. Types /\ Groupings /\ Control
  BY DEF Inv
<1>2. Reconf
  BY <1>1 DEF Control
<1>3. state \notin (NotSent \ {"SPAWN_COMPLETED"}) \cup Split
  BY <1>1, <1>2 DEF Control, NoKids
<1>4. state \in {"SPAWN_COMPLETED", "DIST_COMPLETED"} \cup Sent
  BY <1>1, <1>3 DEF Control, NotSent, Ended
<1>5. kids = NewKids /\ ~Shrinks
  BY <1>1, <1>2, <1>4 DEF Control, NoKids
<1>6. Lead.grp < Groups - 1
  BY <1>1, <1>2 DEF Groupings
<1> QED BY <1>1, <1>2, <1>4, <1>5, <1>6, KidsAre

(* What the sources have, when only the children move.                      *)
LEMMA Aside ==
  ASSUME Inv, kpc # "none", UNCHANGED <<conf, pc, manager, comm, kids, thread, printed, faults>>,
         DOMAIN proc' = DOMAIN proc, proc' = [p \in DOMAIN proc' |-> proc'[p]],
         \A p \in Members(comm) : proc'[p] = proc[p],
         \A p \in Members(kids) :
            /\ proc'[p] \in Process
            /\ proc'[p].heap = Held(proc'[p])
            /\ proc'[p].exec = 0 /\ proc'[p].start_phase = 0 /\ \A x \in PhaseIds : proc'[p].idx[x] = 0
            /\ kpc' \in Told => AsLead(proc[p])'
  PROVE  /\ Stays /\ Lead' = Lead /\ Reconf'
         /\ Members(comm)' = Members(comm) /\ Members(kids)' = Members(kids)
         /\ Merge' = Merge /\ Blocking' = Blocking
         /\ KidsHold' /\ KidsRecord' /\ Channel' /\ Requests' => Inv'
<1>1. /\ Reconf /\ Reconf' /\ kids = NewKids /\ kids # <<>> /\ ~Shrinks
      /\ UNCHANGED <<state, out, waiting>> /\ pc \notin {"done", "after", "top", "normal"}
      /\ state \in {"SPAWN_COMPLETED", "DIST_COMPLETED"} \cup Sent
      /\ Lead.grp < Groups - 1
  BY KidsThere DEF Reconf, manager
<1>2. Types /\ Groupings /\ Control /\ Work /\ Printed /\ Buffers /\ Records
  BY DEF Inv
<1>3. comm[1] \in Members(comm) /\ DOMAIN proc = Members(comm) \cup Members(kids)
      /\ \A p \in Members(comm) : proc[p] \in Process
  BY <1>2, GroupIs
<1>4. Lead' = Lead
  BY <1>3 DEF Lead
<1>5. Stays
  BY <1>4 DEF Stays
<1>6. \A p \in DOMAIN proc : proc'[p] \in Process
  BY <1>3
<1>7. Types' /\ Groupings'
  BY <1>1, <1>2, <1>5, <1>6, SameTypes, SameGroupings DEF Types
<1>8. /\ Resize' = Resize /\ Merge' = Merge /\ Shrinks' = Shrinks /\ Blocking' = Blocking
      /\ NewKids' = NewKids /\ \A p : Zombie(p)' = Zombie(p)
      /\ Members(comm)' = Members(comm) /\ Members(kids)' = Members(kids)
  BY <1>2, <1>5, Common
<1>9. Control'
  BY <1>1, <1>2, <1>8 DEF Control, NoKids, NotSent, Sent, Split, Ended
<1>10. Work'
  <2>1. QtyIters' = QtyIters /\ Working' = Working
    BY <1>4 DEF QtyIters, Working
  <2>2. \A p \in Members(comm)' : Beside(proc[p])'
    <3>1. ASSUME NEW p \in Members(comm) PROVE Beside(proc[p])'
      <4>1. Beside(proc[p]) /\ proc'[p] = proc[p]
        BY <1>1, <1>2, <3>1 DEF Work
      <4> QED BY <1>4, <4>1 DEF Beside, AsLead
    <3> QED BY <1>8, <3>1
  <2>3. /\ Lead'.iter <= (IF Working' THEN QtyIters' ELSE 0) /\ Lead'.start_phase <= Lead'.phase
        /\ \A x \in PhaseIds : x > Lead'.phase => Lead'.idx[x] = 0
    BY <1>1, <1>2, <1>4, <2>1 DEF Work
  <2>4. pc' \notin {"normal", "finish", "done", "decide", "top", "after"}
    BY <1>1 DEF Reconf
  <2> QED BY <1>8, <2>2, <2>3, <2>4, Zenon DEF Work
<1>11. Printed'
  <2>1. \A x \in PhaseIds : Made(x)' = Made(x) /\ Unprinted(x)' = Unprinted(x)
    BY <1>1, <1>4 DEF Made, Unprinted
  <2> QED BY <1>2, <2>1 DEF Printed
<1>12. SourcesHold'
  <2>1. \A p \in Members(comm) : BuffersAre(proc[p], proc'[p])
    BY DEF BuffersAre
  <2> QED BY <1>1, <1>2, <1>5, <1>8, <2>1, SourcesStay DEF Buffers, MovedA, MovedS
<1>13. HeapsHold'
  BY <1>2, <1>3 DEF Buffers, HeapsHold
<1>14. GroupRecords'
  BY <1>1, <1>2, <1>4, <1>5, GroupRecordsStay DEF Records
<1>15. RootTimes'
  BY <1>1, <1>2, <1>4, <1>8 DEF Records, RootTimes, SourceTimes, Set
<1>16. KidsHold' => Buffers'
  BY <1>1, <1>2, <1>12, <1>13 DEF Buffers, GroupHolds, EndHolds
<1> QED BY <1>1, <1>4, <1>5, <1>7, <1>8, <1>9, <1>10, <1>11, <1>14, <1>15, <1>16 DEF Inv, Records

(* The sources keep their room.                                             *)
LEMMA AsideRequests ==
  ASSUME Types, Groupings, Requests, Stays, Reconf, UNCHANGED state, Blocking' = Blocking,
         \A p \in Members(comm) : proc'[p] = proc[p],
         "a" \in conf.data /\ ~Blocking /\ KidHasA' => \A p \in Members(kids) : Fits(p)'
  PROVE  Requests'
<1>1. ASSUME NEW p \in Members(comm) PROVE Fits(p)' <=> Fits(p)
  BY <1>1, PostedStays DEF Fits
<1>2. UNCHANGED <<conf, comm, kids>> /\ Members(comm)' = Members(comm) /\ Members(kids)' = Members(kids)
  BY Common
<1> QED BY <1>1, <1>2 DEF Requests

(* What the children are sent, by the stage they are at.                    *)
LEMMA Arrivals ==
  ASSUME Inv, wire # <<>>, kpc # "none"
  PROVE  /\ kpc = "info_a" => /\ state \in {"DIST_PENDING", "USER_START"}
                              /\ \E n \in Nat : wire = Entries("a", n)
         /\ kpc = "data_a" => /\ state \in {"DIST_PENDING", "USER_START"}
                              /\ wire = <<DataSent("a")>> /\ "a" \in conf.data
         /\ kpc = "user" => \/ state = "USER_COMPLETED" /\ wire = <<UserMsg>>
                            \/ state = "DIST_COMPLETED" /\ \E n \in Nat : wire = <<UserMsg>> \o Entries("s", n)
         /\ kpc = "info_s" => state = "DIST_COMPLETED" /\ \E n \in Nat : wire = Entries("s", n)
         /\ kpc = "data_s" => state = "DIST_COMPLETED" /\ wire = <<DataSent("s")>> /\ "s" \in conf.data
<1>1. Reconf /\ kids # <<>> /\ Channel /\ state \in {"SPAWN_COMPLETED", "DIST_COMPLETED"} \cup Sent
  BY KidsThere DEF Inv
<1>2. CASE state = "SPAWN_COMPLETED"
  BY <1>1, <1>2 DEF Channel
<1>3. CASE state \in {"DIST_PENDING", "USER_START"}
  <2>1. Arriving("a", "info_a", "data_a", "tmp")
    BY <1>1, <1>3 DEF Channel
  <2> QED BY <1>3, <2>1, Zenon DEF Arriving
<1>4. CASE state = "USER_PENDING"
  BY <1>1, <1>4 DEF Channel
<1>5. CASE state = "USER_COMPLETED"
  BY <1>1, <1>5 DEF Channel
<1>6. CASE state = "DIST_COMPLETED"
  <2>1. \/ kpc = "user" /\ \E n \in Nat : wire = <<UserMsg>> \o Entries("s", n)
        \/ Arriving("s", "info_s", "data_s", "commit")
    BY <1>1, <1>6 DEF Channel
  <2> QED BY <1>6, <2>1, Zenon DEF Arriving
<1> QED BY <1>1, <1>2, <1>3, <1>4, <1>5, <1>6 DEF Sent

(* What an entry says.                                                      *)
LEMMA InfoIs ==
  ASSUME NEW k, NEW n
  PROVE  (Info(k, n).entry <=> k \in conf.data) /\ Info(k, n).slots = n /\ Info(k, n).op = "info"
<1>1. Info(k, n).slots = n /\ Info(k, n).op = "info"
  BY DEF Info
<1>2. ASSUME NEW b, b = (k \in conf.data) PROVE [op |-> "info", kind |-> k, entry |-> b, slots |-> n].entry = b
  OBVIOUS
<1>3. Info(k, n).entry = (k \in conf.data)
  BY <1>2, Zenon DEF Info
<1> QED BY <1>1, <1>3

(* The first of the entries, and the rest.                                  *)
LEMMA EntriesAre ==
  ASSUME NEW k, NEW n
  PROVE  /\ Head(Entries(k, n)) = Info(k, n)
         /\ Tail(Entries(k, n)) = IF k \in conf.data THEN <<DataSent(k)>> ELSE <<>>
<1>1. CASE k \in conf.data
  <2>1. Entries(k, n) = <<Info(k, n), DataSent(k)>>
    BY <1>1 DEF Entries
  <2> QED BY <1>1, <2>1
<1>2. CASE k \notin conf.data
  <2>1. Entries(k, n) = <<Info(k, n)>>
    BY <1>2 DEF Entries
  <2> QED BY <1>2, <2>1
<1> QED BY <1>1, <1>2

(* The children before a step of theirs.                                    *)
LEMMA KidsNow ==
  ASSUME Inv, kpc # "none"
  PROVE  \A p \in Members(kids) :
           /\ IsKid(p) /\ p \in DOMAIN proc /\ proc[p] \in Process
           /\ KidHolds(proc[p], Lead.grp, kpc \in Told, KidHasA, KidHasS) /\ proc[p].heap = Held(proc[p])
           /\ proc[p].exec = 0 /\ proc[p].start_phase = 0 /\ \A x \in PhaseIds : proc[p].idx[x] = 0
           /\ kpc \in Told => AsLead(proc[p]) /\ proc[p].final = Lead.final
           /\ KidTimes(proc[p].times, Lead.grp + 1)
           /\ "a" \in conf.data /\ ~Blocking /\ KidHasA => Fits(p)
<1>1. Reconf /\ Types /\ Groupings /\ Work /\ Buffers /\ Records /\ Requests
  BY KidsThere DEF Inv
<1>2. ASSUME NEW p \in Members(kids) PROVE IsKid(p) /\ p \in DOMAIN proc /\ proc[p] \in Process
  BY <1>1, <1>2, GroupIs
<1>3. ASSUME NEW p \in Members(kids)
      PROVE  /\ KidHolds(proc[p], Lead.grp, kpc \in Told, KidHasA, KidHasS) /\ proc[p].heap = Held(proc[p])
             /\ KidTimes(proc[p].times, Lead.grp + 1) /\ (kpc \in Told => proc[p].final = Lead.final)
  BY <1>1, <1>2, <1>3 DEF Buffers, HeapsHold, KidsHold, Records, KidsRecord
<1>4. ASSUME NEW p \in Members(kids)
      PROVE  /\ proc[p].exec = 0 /\ proc[p].start_phase = 0 /\ \A x \in PhaseIds : proc[p].idx[x] = 0
             /\ kpc \in Told => AsLead(proc[p])
  BY <1>1, <1>4 DEF Work
<1>5. "a" \in conf.data /\ ~Blocking /\ KidHasA => \A p \in Members(kids) : Fits(p)
  BY <1>1 DEF Requests
<1> QED BY <1>2, <1>3, <1>4, <1>5

(* The group, in a step of the children.                                    *)
LEMMA KidsApart ==
  ASSUME Inv, kpc # "none"
  PROVE  /\ Types /\ Groupings /\ \A p \in Members(comm) : ~IsKid(p)
         /\ DOMAIN proc = Members(comm) \cup Members(kids) /\ \A p : IsKid(p) <=> p \in Members(kids)
<1>1. Types /\ Groupings /\ pc # "after"
  BY KidsThere DEF Inv, Reconf
<1> QED BY <1>1, GroupIs, Apart

(* A child notes the requests it is told of.                                *)
LEMMA SlotsNoted ==
  ASSUME NEW q \in Process, NEW k \in Kinds, NEW n \in Nat, NEW r, r = [q EXCEPT !.reg[k].slots = n]
  PROVE  /\ r \in Process /\ WorkIs(q, r) /\ RecordsAre(q, r) /\ r.own = q.own /\ r.app = q.app /\ r.heap = q.heap
         /\ \A j \in Kinds : /\ r.reg[j].array = q.reg[j].array
                             /\ r.reg[j].slots = IF j = k THEN n ELSE q.reg[j].slots
<1> DEFINE reg == [q.reg EXCEPT ![k].slots = n]
<1>1. q.reg \in Registry /\ \A j \in Kinds : q.reg[j] \in [array : Buffer, slots : Nat]
  BY RegistryIs
<1>2. [q.reg[k] EXCEPT !.slots = n] \in [array : Buffer, slots : Nat]
  BY <1>1, Zenon
<1>3. reg \in Registry
  BY <1>1, <1>2 DEF Registry
<1>4. \A j \in Kinds : /\ reg[j].array = q.reg[j].array
                       /\ reg[j].slots = IF j = k THEN n ELSE q.reg[j].slots
  BY <1>1 DEF Registry
<1>5. r = [q EXCEPT !.reg = reg]
  BY ZenonT(40) DEF Process
<1> HIDE DEF reg
<1>6. /\ r \in Process /\ WorkIs(q, r) /\ RecordsAre(q, r) /\ r.own = q.own /\ r.app = q.app /\ r.heap = q.heap
      /\ r.reg = reg
  BY <1>3, <1>5, ZenonT(40) DEF Process, WorkIs, RecordsAre
<1> QED BY <1>4, <1>6

(* The children are told of the constant data.                              *)
LEMMA KidInfoAStep ==
  ASSUME Inv, KidInfo("a", "info_a", "data_a", "tmp")
  PROVE  Inv'
<1>1. /\ kpc = "info_a" /\ wire # <<>> /\ wire' = Tail(wire)
      /\ kpc' = (IF Head(wire).entry THEN "data_a" ELSE "tmp")
      /\ UNCHANGED <<conf, pc, manager, comm, kids, thread, printed, faults>>
      /\ proc' = Children(LAMBDA p, q : [q EXCEPT !.reg["a"].slots = Head(wire).slots])
  BY DEF KidInfo, Receives
<1>2. PICK n \in Nat : wire = Entries("a", n) /\ state \in {"DIST_PENDING", "USER_START"}
  BY <1>1, Arrivals
<1>3. Head(wire) = Info("a", n) /\ Tail(wire) = IF "a" \in conf.data THEN <<DataSent("a")>> ELSE <<>>
  BY <1>2, EntriesAre
<1>4. /\ kpc' = (IF "a" \in conf.data THEN "data_a" ELSE "tmp") /\ Head(wire).slots = n
      /\ wire' = (IF "a" \in conf.data THEN <<DataSent("a")>> ELSE <<>>)
  <2>1. (Head(wire).entry <=> "a" \in conf.data) /\ Head(wire).slots = n
    BY <1>3, InfoIs
  <2> QED BY <1>1, <1>3, <2>1
<1>5. /\ Types /\ Groupings /\ \A p \in Members(comm) : ~IsKid(p)
      /\ DOMAIN proc = Members(comm) \cup Members(kids) /\ \A p : IsKid(p) <=> p \in Members(kids)
  BY <1>1, KidsApart
<1>6. /\ DOMAIN proc' = DOMAIN proc /\ proc' = [p \in DOMAIN proc' |-> proc'[p]]
      /\ \A p \in Members(comm) : proc'[p] = proc[p]
      /\ \A p \in Members(kids) : proc'[p] = [proc[p] EXCEPT !.reg["a"].slots = n]
  BY <1>1, <1>4, <1>5 DEF Children
<1>7. ASSUME NEW p \in Members(kids)
      PROVE  /\ proc'[p] \in Process /\ WorkIs(proc[p], proc'[p]) /\ RecordsAre(proc[p], proc'[p])
             /\ proc'[p].own = proc[p].own /\ proc'[p].app = proc[p].app /\ proc'[p].heap = proc[p].heap
             /\ \A j \in Kinds : proc'[p].reg[j].array = proc[p].reg[j].array
  <2>1. proc[p] \in Process /\ proc'[p] = [proc[p] EXCEPT !.reg["a"].slots = n] /\ "a" \in Kinds
    BY <1>1, <1>6, <1>7, KidsNow DEF Kinds
  <2> QED BY <1>2, <2>1, SlotsNoted
<1>8. kpc \notin Told /\ kpc' \notin Told /\ ~KidHasA /\ ~KidHasS /\ ~KidHasS' /\ (KidHasA' <=> "a" \notin conf.data)
  BY <1>1, <1>4 DEF Told, KidHasA, KidHasS
<1>9. ASSUME NEW p \in Members(kids)
      PROVE  /\ proc'[p].heap = Held(proc'[p])
             /\ proc'[p].exec = 0 /\ proc'[p].start_phase = 0 /\ \A x \in PhaseIds : proc'[p].idx[x] = 0
  <2>1. Held(proc'[p]) = Held(proc[p])
    BY <1>7, <1>9 DEF Held
  <2>2. /\ proc[p].heap = Held(proc[p]) /\ proc[p].exec = 0 /\ proc[p].start_phase = 0
        /\ \A x \in PhaseIds : proc[p].idx[x] = 0
    BY <1>1, <1>9, KidsNow
  <2> QED BY <1>7, <1>9, <2>1, <2>2 DEF WorkIs
<1>10. /\ Stays /\ Lead' = Lead /\ Reconf'
       /\ Members(comm)' = Members(comm) /\ Members(kids)' = Members(kids)
       /\ Merge' = Merge /\ Blocking' = Blocking
       /\ KidsHold' /\ KidsRecord' /\ Channel' /\ Requests' => Inv'
  BY <1>1, <1>6, <1>7, <1>8, <1>9, Aside
<1>11. KidsHold'
  <2>1. ASSUME NEW p \in Members(kids)
        PROVE  KidHolds(proc[p], Lead.grp, kpc \in Told, KidHasA, KidHasS)'
    <3>1. KidHolds(proc[p], Lead.grp, kpc \in Told, KidHasA, KidHasS)
      BY <1>1, <2>1, KidsNow
    <3> QED BY <1>1, <1>7, <1>8, <1>10, <2>1, <3>1 DEF KidHolds, Buf
  <2> QED BY <1>10, <2>1, Zenon DEF KidsHold
<1>12. KidsRecord'
  <2>1. ASSUME NEW p \in Members(kids) PROVE KidTimes(proc[p].times, Lead.grp + 1)'
    <3>1. KidTimes(proc[p].times, Lead.grp + 1) /\ RecordsAre(proc[p], proc'[p])
      BY <1>1, <1>7, <2>1, KidsNow
    <3> QED BY <1>1, <1>8, <1>10, <3>1 DEF KidTimes, Set, RecordsAre
  <2> QED BY <1>8, <1>10, <2>1, Zenon DEF KidsRecord
<1>13. Channel'
  <2>1. DataSent("a")' = DataSent("a")
    BY DEF DataSent
  <2>2. Arriving("a", "info_a", "data_a", "tmp")'
    BY <1>1, <1>4, <2>1 DEF Arriving
  <2> QED BY <1>1, <1>2, <2>2 DEF Channel, manager
<1>14. Requests'
  <2>1. Requests /\ Reconf /\ UNCHANGED state
    BY <1>1, KidsThere DEF Inv, manager
  <2> QED BY <1>5, <1>6, <1>8, <1>10, <2>1, AsideRequests
<1> QED BY <1>10, <1>11, <1>12, <1>13, <1>14

(* The children are told of the variable data.                              *)
LEMMA KidInfoSStep ==
  ASSUME Inv, KidInfo("s", "info_s", "data_s", "commit")
  PROVE  Inv'
<1>1. /\ kpc = "info_s" /\ wire # <<>> /\ wire' = Tail(wire)
      /\ kpc' = (IF Head(wire).entry THEN "data_s" ELSE "commit")
      /\ UNCHANGED <<conf, pc, manager, comm, kids, thread, printed, faults>>
      /\ proc' = Children(LAMBDA p, q : [q EXCEPT !.reg["s"].slots = Head(wire).slots])
  BY DEF KidInfo, Receives
<1>2. PICK n \in Nat : wire = Entries("s", n) /\ state = "DIST_COMPLETED"
  BY <1>1, Arrivals
<1>3. Head(wire) = Info("s", n) /\ Tail(wire) = IF "s" \in conf.data THEN <<DataSent("s")>> ELSE <<>>
  BY <1>2, EntriesAre
<1>4. /\ kpc' = (IF "s" \in conf.data THEN "data_s" ELSE "commit") /\ Head(wire).slots = n
      /\ wire' = (IF "s" \in conf.data THEN <<DataSent("s")>> ELSE <<>>)
  <2>1. (Head(wire).entry <=> "s" \in conf.data) /\ Head(wire).slots = n
    BY <1>3, InfoIs
  <2> QED BY <1>1, <1>3, <2>1
<1>5. /\ Types /\ Groupings /\ \A p \in Members(comm) : ~IsKid(p)
      /\ DOMAIN proc = Members(comm) \cup Members(kids) /\ \A p : IsKid(p) <=> p \in Members(kids)
  BY <1>1, KidsApart
<1>6. /\ DOMAIN proc' = DOMAIN proc /\ proc' = [p \in DOMAIN proc' |-> proc'[p]]
      /\ \A p \in Members(comm) : proc'[p] = proc[p]
      /\ \A p \in Members(kids) : proc'[p] = [proc[p] EXCEPT !.reg["s"].slots = n]
  BY <1>1, <1>4, <1>5 DEF Children
<1>7. ASSUME NEW p \in Members(kids)
      PROVE  /\ proc'[p] \in Process /\ WorkIs(proc[p], proc'[p]) /\ RecordsAre(proc[p], proc'[p])
             /\ proc'[p].own = proc[p].own /\ proc'[p].app = proc[p].app /\ proc'[p].heap = proc[p].heap
             /\ \A j \in Kinds : proc'[p].reg[j].array = proc[p].reg[j].array
             /\ proc'[p].reg["a"].slots = proc[p].reg["a"].slots
  <2>1. proc[p] \in Process /\ proc'[p] = [proc[p] EXCEPT !.reg["s"].slots = n] /\ "s" \in Kinds /\ "a" \in Kinds
    BY <1>1, <1>6, <1>7, KidsNow DEF Kinds
  <2> QED BY <1>2, <2>1, SlotsNoted
<1>8. kpc \in Told /\ kpc' \in Told /\ KidHasA /\ KidHasA' /\ ~KidHasS /\ (KidHasS' <=> "s" \notin conf.data)
  BY <1>1, <1>4 DEF Told, KidHasA, KidHasS
<1>9. ASSUME NEW p \in Members(kids)
      PROVE  /\ proc'[p].heap = Held(proc'[p])
             /\ proc'[p].exec = 0 /\ proc'[p].start_phase = 0 /\ \A x \in PhaseIds : proc'[p].idx[x] = 0
             /\ proc'[p].final = Lead.final /\ AsLead(proc[p])'
  <2>1. Lead' = Lead
    BY <1>5, <1>6, GroupIs, <1>1 DEF Lead
  <2>2. AsLead(proc[p]) /\ proc[p].final = Lead.final
    BY <1>1, <1>8, <1>9, KidsNow
  <2>3. AsLead(proc[p])' /\ proc'[p].final = Lead.final
    BY <1>7, <1>9, <2>1, <2>2 DEF AsLead, WorkIs, RecordsAre
  <2>4. Held(proc'[p]) = Held(proc[p])
    BY <1>7, <1>9 DEF Held
  <2> QED BY <1>1, <1>7, <1>9, <2>3, <2>4, KidsNow, ZenonT(40) DEF WorkIs
<1>10. /\ Stays /\ Lead' = Lead /\ Reconf'
       /\ Members(comm)' = Members(comm) /\ Members(kids)' = Members(kids)
       /\ Merge' = Merge /\ Blocking' = Blocking
       /\ KidsHold' /\ KidsRecord' /\ Channel' /\ Requests' => Inv'
  BY <1>1, <1>6, <1>7, <1>9, Aside
<1>11. KidsHold'
  <2>1. ASSUME NEW p \in Members(kids)
        PROVE  KidHolds(proc[p], Lead.grp, kpc \in Told, KidHasA, KidHasS)'
    <3>1. KidHolds(proc[p], Lead.grp, kpc \in Told, KidHasA, KidHasS)
      BY <1>1, <2>1, KidsNow
    <3> QED BY <1>1, <1>7, <1>8, <1>10, <2>1, <3>1 DEF KidHolds, Buf
  <2> QED BY <1>10, <2>1, Zenon DEF KidsHold
<1>12. KidsRecord'
  <2>1. ASSUME NEW p \in Members(kids) PROVE KidTimes(proc[p].times, Lead.grp + 1)'
    <3>1. KidTimes(proc[p].times, Lead.grp + 1) /\ RecordsAre(proc[p], proc'[p])
      BY <1>1, <1>7, <2>1, KidsNow
    <3> QED BY <1>1, <1>8, <1>10, <3>1 DEF KidTimes, Set, RecordsAre
  <2> QED BY <1>9, <1>10, <2>1, Zenon DEF KidsRecord
<1>13. Channel'
  <2>1. DataSent("s")' = DataSent("s")
    BY DEF DataSent
  <2>2. Arriving("s", "info_s", "data_s", "commit")'
    BY <1>1, <1>4, <2>1 DEF Arriving
  <2> QED BY <1>1, <1>2, <2>2 DEF Channel, manager
<1>14. Requests'
  <2>1. Requests /\ Reconf /\ UNCHANGED state
    BY <1>1, KidsThere DEF Inv, manager
  <2>2. ASSUME "a" \in conf.data, ~Blocking, NEW p \in Members(kids) PROVE Fits(p)'
    <3>1. Fits(p) /\ proc'[p].reg["a"].slots = proc[p].reg["a"].slots
      BY <1>1, <1>7, <1>8, <2>2, KidsNow
    <3> QED BY <1>5, <1>10, <3>1, PostedStays DEF Fits
  <2> QED BY <1>5, <1>6, <1>10, <2>1, <2>2, AsideRequests
<1> QED BY <1>10, <1>11, <1>12, <1>13, <1>14

(* A child after it receives the data of constant size.                     *)
LEMMA KidGetsA ==
  ASSUME Types, Groupings, NEW p \in Members(kids), NEW q \in Process, NEW r,
         "a" \in conf.data, Moved(p, q, r, "a"),
         KidHolds(q, Lead.grp, FALSE, FALSE, FALSE), q.heap = Held(q)
  PROVE  KidHolds(r, Lead.grp, FALSE, TRUE, FALSE) /\ r.heap = Held(r)
<1>1. PICK y \in BOOLEAN : y
  OBVIOUS
<1>2. PICK n \in BOOLEAN : ~n
  OBVIOUS
<1>3. KidHolds(q, Lead.grp, n, n, n)
  BY <1>2 DEF KidHolds
<1>4. PICK k \in conf.data : k = "a"
  OBVIOUS
<1>5. /\ k = "a" => ~n
      /\ k = "s" => ~n
      /\ Moved(p, q, r, k)
      /\ y <=> (n \/ k = "a")
      /\ n <=> (n \/ k = "s")
  BY <1>1, <1>2, <1>4
<1>6. KidHolds(r, Lead.grp, n, y, n)
  BY <1>3, <1>5, KidMoves
<1>7. r.heap = Held(r)
  BY <1>3, <1>5, KidMoves
<1> QED BY <1>1, <1>2, <1>6, <1>7 DEF KidHolds

(* And the variable data.                                                   *)
LEMMA KidGetsS ==
  ASSUME Types, Groupings, NEW p \in Members(kids), NEW q \in Process, NEW r,
         "s" \in conf.data, Moved(p, q, r, "s"),
         KidHolds(q, Lead.grp, TRUE, TRUE, FALSE), q.heap = Held(q)
  PROVE  KidHolds(r, Lead.grp, TRUE, TRUE, TRUE) /\ r.heap = Held(r)
<1>1. PICK y \in BOOLEAN : y
  OBVIOUS
<1>2. PICK n \in BOOLEAN : ~n
  OBVIOUS
<1>3. KidHolds(q, Lead.grp, y, y, n)
  BY <1>1, <1>2 DEF KidHolds
<1>4. PICK k \in conf.data : k = "s"
  OBVIOUS
<1>5. PICK z \in BOOLEAN : z
  OBVIOUS
<1>6. /\ k = "a" => ~y
      /\ k = "s" => ~n
      /\ Moved(p, q, r, k)
      /\ z <=> (y \/ k = "a")
      /\ z <=> (n \/ k = "s")
  BY <1>1, <1>2, <1>4, <1>5
<1>7. KidHolds(r, Lead.grp, y, z, z)
  BY <1>3, <1>6, KidMoves
<1>8. r.heap = Held(r)
  BY <1>3, <1>6, KidMoves
<1> QED BY <1>1, <1>5, <1>7, <1>8 DEF KidHolds

(* What every child does with the data of constant size.                    *)
LEMMA KidTransfers ==
  ASSUME Inv, kpc # "none", NEW p \in Members(kids)
  PROVE  /\ Moved(p, proc[p], Transfer(p, proc[p], "a"), "a")
         /\ ~Blocking => Posted(p) <= Transfer(p, proc[p], "a").reg["a"].slots
<1>1. /\ Types /\ Groupings /\ pc # "after" /\ Lead.grp < Groups - 1 /\ ~Shrinks /\ kids = NewKids
      /\ proc[p] \in Process /\ p \in DOMAIN proc /\ "a" \in Kinds
  BY KidsThere, KidsNow DEF Inv, Reconf, Kinds
<1>2. SendPeers(p) \in Nat /\ RecvPeers(p) \in Nat /\ proc[p].reg["a"].slots \in Nat
  BY <1>1, PeersOfAll, RegistryIs
<1>3. /\ CheckRequests(p, proc[p].reg["a"].slots) \in Nat
      /\ Posted(p) <= CheckRequests(p, proc[p].reg["a"].slots)
  BY <1>1, <1>2, RoomIsMade
<1>4. Moved(p, proc[p], Transfer(p, proc[p], "a"), "a")
  BY <1>1, <1>3, TransferIs
<1>5. ~Blocking => Transfer(p, proc[p], "a").reg["a"].slots = CheckRequests(p, proc[p].reg["a"].slots)
  BY <1>1, <1>4 DEF Moved
<1> QED BY <1>3, <1>4, <1>5

(* The children receive the constant data.                                  *)
LEMMA KidDataAStep ==
  ASSUME Inv, KidData("a", "data_a", "tmp")
  PROVE  Inv'
<1> DEFINE t(p) == Transfer(p, proc[p], "a")
           fields == {<<"async", "end">>}
<1>1. /\ kpc = "data_a" /\ wire # <<>> /\ wire' = Tail(wire) /\ kpc' = "tmp"
      /\ UNCHANGED <<conf, pc, manager, comm, kids, thread, printed, faults>>
  BY DEF KidData, Receives
<1>2. wire = <<DataSent("a")>> /\ "a" \in conf.data /\ state \in {"DIST_PENDING", "USER_START"}
  BY <1>1, Arrivals
<1>3. wire' = <<>>
  <2>1. Tail(<<DataSent("a")>>) = <<>>
    OBVIOUS
  <2> QED BY <1>1, <1>2, <2>1
<1>4. /\ Types /\ Groupings /\ \A p \in Members(comm) : ~IsKid(p)
      /\ DOMAIN proc = Members(comm) \cup Members(kids) /\ \A p : IsKid(p) <=> p \in Members(kids)
  BY <1>1, KidsApart
<1>5. /\ DOMAIN proc' = DOMAIN proc /\ proc' = [p \in DOMAIN proc' |-> proc'[p]]
      /\ \A p \in Members(comm) : proc'[p] = proc[p]
      /\ \A p \in Members(kids) : proc'[p] = [t(p) EXCEPT !.times = Now(proc[p], fields)]
  <2> DEFINE taken == {IF "a" = "a" THEN <<"async", "end">> ELSE <<"sync", "end">>}
  <2>1. proc' = [p \in DOMAIN proc |-> IF IsKid(p) THEN [t(p) EXCEPT !.times = Now(proc[p], taken)] ELSE proc[p]]
    BY DEF KidData, Children
  <2>2. taken = fields
    OBVIOUS
  <2> HIDE DEF taken, t, fields
  <2> QED BY <1>4, <2>1, <2>2
<1>6. \A p \in Members(kids) : Moved(p, proc[p], t(p), "a") /\ (~Blocking => Posted(p) <= t(p).reg["a"].slots)
  BY <1>1, KidTransfers
<1> HIDE DEF t, fields
<1>7. kpc \notin Told /\ kpc' \notin Told /\ ~KidHasA /\ KidHasA' /\ ~KidHasS /\ ~KidHasS'
  BY <1>1 DEF Told, KidHasA, KidHasS
<1>8. ASSUME NEW p \in Members(kids)
      PROVE  /\ proc'[p] \in Process /\ WorkIs(proc[p], proc'[p]) /\ BuffersAre(t(p), proc'[p])
             /\ proc'[p].times = Now(proc[p], fields)
  <2>1. t(p) \in Process /\ WorkIs(proc[p], t(p))
    BY <1>6, <1>8 DEF Moved
  <2>2. proc[p] \in Process /\ proc'[p] = [t(p) EXCEPT !.times = Now(proc[p], fields)]
    BY <1>1, <1>5, <1>8, KidsNow
  <2>3. /\ proc'[p] \in Process /\ WorkIs(t(p), proc'[p]) /\ BuffersAre(t(p), proc'[p])
        /\ proc'[p].times = Now(proc[p], fields)
    BY <1>4, <2>1, <2>2, TimesAfter
  <2>4. WorkIs(proc[p], proc'[p])
    BY <2>1, <2>3, WorkIsTwice
  <2> QED BY <2>3, <2>4
<1>9. ASSUME NEW p \in Members(kids)
      PROVE  /\ KidHolds(proc'[p], Lead.grp, FALSE, TRUE, FALSE) /\ proc'[p].heap = Held(proc'[p])
             /\ proc'[p].exec = 0 /\ proc'[p].start_phase = 0 /\ \A x \in PhaseIds : proc'[p].idx[x] = 0
  <2>1. /\ proc[p].heap = Held(proc[p]) /\ proc[p].exec = 0 /\ proc[p].start_phase = 0
        /\ \A x \in PhaseIds : proc[p].idx[x] = 0
        /\ KidHolds(proc[p], Lead.grp, kpc \in Told, KidHasA, KidHasS) /\ proc[p] \in Process
    BY <1>1, <1>9, KidsNow
  <2>2. KidHolds(proc[p], Lead.grp, FALSE, FALSE, FALSE)
    BY <1>7, <2>1 DEF KidHolds
  <2>3. KidHolds(t(p), Lead.grp, FALSE, TRUE, FALSE) /\ t(p).heap = Held(t(p))
    BY <1>2, <1>4, <1>6, <1>9, <2>1, <2>2, KidGetsA
  <2>4. KidHolds(proc'[p], Lead.grp, FALSE, TRUE, FALSE) /\ proc'[p].heap = Held(proc'[p])
    BY <1>8, <1>9, <2>3 DEF KidHolds, BuffersAre, Held
  <2> QED BY <1>8, <1>9, <2>1, <2>4 DEF WorkIs
<1>10. /\ Stays /\ Lead' = Lead /\ Reconf'
       /\ Members(comm)' = Members(comm) /\ Members(kids)' = Members(kids)
       /\ Merge' = Merge /\ Blocking' = Blocking
       /\ KidsHold' /\ KidsRecord' /\ Channel' /\ Requests' => Inv'
  BY <1>1, <1>5, <1>7, <1>8, <1>9, Aside
<1>11. KidsHold'
  <2>1. ASSUME NEW p \in Members(kids)
        PROVE  KidHolds(proc[p], Lead.grp, kpc \in Told, KidHasA, KidHasS)'
    BY <1>1, <1>7, <1>9, <1>10, <2>1 DEF KidHolds, Buf
  <2> QED BY <1>10, <2>1, Zenon DEF KidsHold
<1>12. KidsRecord'
  <2>1. ASSUME NEW p \in Members(kids) PROVE KidTimes(proc[p].times, Lead.grp + 1)'
    <3>1. KidTimes(proc[p].times, Lead.grp + 1) /\ proc[p] \in Process
      BY <1>1, <2>1, KidsNow
    <3>2. \A f \in TimeFields : proc'[p].times[f] = IF f \in fields THEN Lead.grp + 1 ELSE proc[p].times[f]
      BY <1>4, <1>8, <2>1, <3>1, NowIs
    <3> QED BY <1>1, <1>2, <1>7, <1>10, <3>1, <3>2, FieldsAre DEF fields, KidTimes, Set
  <2> QED BY <1>7, <1>10, <2>1, Zenon DEF KidsRecord
<1>13. Channel'
  <2>1. Arriving("a", "info_a", "data_a", "tmp")'
    BY <1>1, <1>3 DEF Arriving
  <2> QED BY <1>1, <1>2, <2>1 DEF Channel, manager
<1>14. Requests'
  <2>1. Requests /\ Reconf /\ UNCHANGED state
    BY <1>1, KidsThere DEF Inv, manager
  <2>2. ASSUME "a" \in conf.data, ~Blocking, NEW p \in Members(kids) PROVE Fits(p)'
    <3>1. Posted(p) <= t(p).reg["a"].slots /\ proc'[p].reg = t(p).reg
      BY <1>6, <1>8, <2>2 DEF BuffersAre
    <3> QED BY <1>4, <1>10, <3>1, PostedStays DEF Fits
  <2> QED BY <1>4, <1>5, <1>10, <2>1, <2>2, AsideRequests
<1> QED BY <1>10, <1>11, <1>12, <1>13, <1>14

(* The children receive the variable data.                                  *)
LEMMA KidDataSStep ==
  ASSUME Inv, KidData("s", "data_s", "commit")
  PROVE  Inv'
<1> DEFINE t(p) == Transfer(p, proc[p], "s")
           fields == {<<"sync", "end">>}
<1>1. /\ kpc = "data_s" /\ wire # <<>> /\ wire' = Tail(wire) /\ kpc' = "commit"
      /\ UNCHANGED <<conf, pc, manager, comm, kids, thread, printed, faults>>
  BY DEF KidData, Receives
<1>2. wire = <<DataSent("s")>> /\ "s" \in conf.data /\ state = "DIST_COMPLETED"
  BY <1>1, Arrivals
<1>3. wire' = <<>>
  <2>1. Tail(<<DataSent("s")>>) = <<>>
    OBVIOUS
  <2> QED BY <1>1, <1>2, <2>1
<1>4. /\ Types /\ Groupings /\ \A p \in Members(comm) : ~IsKid(p)
      /\ DOMAIN proc = Members(comm) \cup Members(kids) /\ \A p : IsKid(p) <=> p \in Members(kids)
  BY <1>1, KidsApart
<1>5. /\ DOMAIN proc' = DOMAIN proc /\ proc' = [p \in DOMAIN proc' |-> proc'[p]]
      /\ \A p \in Members(comm) : proc'[p] = proc[p]
      /\ \A p \in Members(kids) : proc'[p] = [t(p) EXCEPT !.times = Now(proc[p], fields)]
  <2> DEFINE taken == {IF "s" = "a" THEN <<"async", "end">> ELSE <<"sync", "end">>}
  <2>1. proc' = [p \in DOMAIN proc |-> IF IsKid(p) THEN [t(p) EXCEPT !.times = Now(proc[p], taken)] ELSE proc[p]]
    BY DEF KidData, Children
  <2>2. taken = fields
    OBVIOUS
  <2> HIDE DEF taken, t, fields
  <2> QED BY <1>4, <2>1, <2>2
<1>6. \A p \in Members(kids) :
        Moved(p, proc[p], t(p), "s") /\ t(p).final = proc[p].final /\ t(p).reg["a"].slots = proc[p].reg["a"].slots
  <2>1. \A p \in Members(kids) : Moved(p, proc[p], t(p), "s")
    BY <1>1, <1>4, KidsNow, TransferIs DEF Kinds
  <2> QED BY <2>1 DEF Moved, RecordsAre, Kinds
<1> HIDE DEF t, fields
<1>7. kpc \in Told /\ kpc' \in Told /\ KidHasA /\ KidHasA' /\ ~KidHasS /\ KidHasS'
  BY <1>1 DEF Told, KidHasA, KidHasS
<1>8. ASSUME NEW p \in Members(kids)
      PROVE  /\ proc'[p] \in Process /\ WorkIs(proc[p], proc'[p]) /\ BuffersAre(t(p), proc'[p])
             /\ proc'[p].times = Now(proc[p], fields) /\ proc'[p].final = proc[p].final
  <2>1. t(p) \in Process /\ WorkIs(proc[p], t(p))
    BY <1>6, <1>8 DEF Moved
  <2>2. proc[p] \in Process /\ proc'[p] = [t(p) EXCEPT !.times = Now(proc[p], fields)]
    BY <1>1, <1>5, <1>8, KidsNow
  <2>3. /\ proc'[p] \in Process /\ WorkIs(t(p), proc'[p]) /\ BuffersAre(t(p), proc'[p])
        /\ proc'[p].times = Now(proc[p], fields) /\ proc'[p].final = t(p).final
    BY <1>4, <2>1, <2>2, TimesAfter
  <2>4. WorkIs(proc[p], proc'[p])
    BY <2>1, <2>3, WorkIsTwice
  <2> QED BY <1>6, <1>8, <2>3, <2>4
<1>9. ASSUME NEW p \in Members(kids)
      PROVE  /\ KidHolds(proc'[p], Lead.grp, TRUE, TRUE, TRUE) /\ proc'[p].heap = Held(proc'[p])
             /\ proc'[p].exec = 0 /\ proc'[p].start_phase = 0 /\ \A x \in PhaseIds : proc'[p].idx[x] = 0
             /\ proc'[p].final = Lead.final /\ AsLead(proc[p])'
  <2>1. Lead' = Lead
    BY <1>4, <1>5, GroupIs, <1>1 DEF Lead
  <2>2. AsLead(proc[p]) /\ proc[p].final = Lead.final
    BY <1>1, <1>7, <1>9, KidsNow
  <2>3. AsLead(proc[p])' /\ proc'[p].final = Lead.final
    BY <1>8, <1>9, <2>1, <2>2 DEF AsLead, WorkIs
  <2>4. /\ proc[p].heap = Held(proc[p]) /\ proc[p].exec = 0 /\ proc[p].start_phase = 0
        /\ \A x \in PhaseIds : proc[p].idx[x] = 0
        /\ KidHolds(proc[p], Lead.grp, kpc \in Told, KidHasA, KidHasS) /\ proc[p] \in Process
    BY <1>1, <1>9, KidsNow
  <2>5. KidHolds(proc[p], Lead.grp, TRUE, TRUE, FALSE)
    BY <1>7, <2>4 DEF KidHolds
  <2>6. KidHolds(t(p), Lead.grp, TRUE, TRUE, TRUE) /\ t(p).heap = Held(t(p))
    BY <1>2, <1>4, <1>6, <1>9, <2>4, <2>5, KidGetsS
  <2>7. KidHolds(proc'[p], Lead.grp, TRUE, TRUE, TRUE) /\ proc'[p].heap = Held(proc'[p])
    BY <1>8, <1>9, <2>6 DEF KidHolds, BuffersAre, Held
  <2> QED BY <1>8, <1>9, <2>4, <2>7, <2>3 DEF WorkIs
<1>10. /\ Stays /\ Lead' = Lead /\ Reconf'
       /\ Members(comm)' = Members(comm) /\ Members(kids)' = Members(kids)
       /\ Merge' = Merge /\ Blocking' = Blocking
       /\ KidsHold' /\ KidsRecord' /\ Channel' /\ Requests' => Inv'
  BY <1>1, <1>5, <1>7, <1>8, <1>9, Aside
<1>11. KidsHold'
  <2>1. ASSUME NEW p \in Members(kids)
        PROVE  KidHolds(proc[p], Lead.grp, kpc \in Told, KidHasA, KidHasS)'
    BY <1>1, <1>7, <1>9, <1>10, <2>1 DEF KidHolds, Buf
  <2> QED BY <1>10, <2>1, Zenon DEF KidsHold
<1>12. KidsRecord'
  <2>1. ASSUME NEW p \in Members(kids) PROVE KidTimes(proc[p].times, Lead.grp + 1)'
    <3>1. KidTimes(proc[p].times, Lead.grp + 1) /\ proc[p] \in Process
      BY <1>1, <2>1, KidsNow
    <3>2. \A f \in TimeFields : proc'[p].times[f] = IF f \in fields THEN Lead.grp + 1 ELSE proc[p].times[f]
      BY <1>4, <1>8, <2>1, <3>1, NowIs
    <3> QED BY <1>1, <1>2, <1>7, <1>10, <3>1, <3>2, FieldsAre DEF fields, KidTimes, Set
  <2> QED BY <1>9, <1>10, <2>1, Zenon DEF KidsRecord
<1>13. Channel'
  <2>1. Arriving("s", "info_s", "data_s", "commit")'
    BY <1>1, <1>3 DEF Arriving
  <2> QED BY <1>1, <1>2, <2>1 DEF Channel, manager
<1>14. Requests'
  <2>1. Requests /\ Reconf /\ UNCHANGED state
    BY <1>1, KidsThere DEF Inv, manager
  <2>2. ASSUME "a" \in conf.data, ~Blocking, NEW p \in Members(kids) PROVE Fits(p)'
    <3>1. Fits(p) /\ proc'[p].reg["a"].slots = proc[p].reg["a"].slots
      BY <1>1, <1>6, <1>7, <1>8, <2>2, KidsNow DEF BuffersAre
    <3> QED BY <1>4, <1>10, <3>1, PostedStays DEF Fits
  <2> QED BY <1>4, <1>5, <1>10, <2>1, <2>2, AsideRequests
<1> QED BY <1>10, <1>11, <1>12, <1>13, <1>14

(* The first message of a channel, and those behind it.                      *)
LEMMA First ==
  ASSUME NEW S, NEW a \in S, NEW s \in Seq(S)
  PROVE  Head(<<a>> \o s) = a /\ Tail(<<a>> \o s) = s
<1> DEFINE w == <<a>> \o s
<1>1. <<a>> \in Seq(S) /\ Len(<<a>>) = 1
  OBVIOUS
<1>2. w \in Seq(S) /\ Len(w) = 1 + Len(s)
  BY <1>1
<1>3. w[1] = a
  BY <1>1
<1>4. \A i \in 1 .. Len(s) : w[i + 1] = s[i]
  BY <1>1
<1> HIDE DEF w
<1>5. w # <<>> /\ Len(s) \in Nat
  BY <1>2
<1>6. Head(w) = a
  BY <1>2, <1>3
<1>7. Tail(w) \in Seq(S) /\ Len(Tail(w)) = Len(s)
  BY <1>2, <1>5
<1>8. \A i \in 1 .. Len(s) : Tail(w)[i] = s[i]
  BY <1>2, <1>4, <1>5
<1>9. Tail(w) = s
  BY <1>7, <1>8, SeqEqual
<1> QED BY <1>6, <1>9 DEF w

(* A child takes the place of the sources.                                  *)
TakesPlace(q, fields, r) ==
  /\ r \in Process /\ AsLead(r) /\ r.exec = q.exec /\ r.start_phase = q.start_phase /\ r.idx = q.idx
  /\ r.final = Lead.final /\ r.own = Structures /\ r.app = q.app /\ r.reg = q.reg /\ r.heap = q.heap
  /\ r.times = Now(q, fields)

(* A child after init_targets.                                              *)
LEMMA TargetIs ==
  ASSUME Types, Groupings, NEW q \in Process, NEW fields, NEW r,
         r = [InitTargets(q, UserMsg) EXCEPT !.times = Now(q, fields)]
  PROVE  TakesPlace(q, fields, r)
<1> DEFINE grp == Lead.grp
           phase == Lead.phase
           iter == Lead.iter
           final == Lead.final
           times == Now(q, fields)
           own == Structures
           u == [q EXCEPT !.final = final, !.grp = grp, !.phase = phase]
<1>1. /\ grp \in Nat /\ phase \in 0 .. Phases /\ iter \in Nat /\ final \in Finals
      /\ times \in [TimeFields -> Nat] /\ own \in SUBSET Structures
  BY NowIs, LeadIs, ProcessIs
<1>2. UserMsg.grp = grp /\ UserMsg.phase = phase /\ UserMsg.iter = iter /\ UserMsg.final = final
  BY DEF UserMsg
<1>3. r = [q EXCEPT !.final = final, !.grp = grp, !.phase = phase, !.iter = iter, !.own = own, !.times = times]
  BY <1>2, Zenon DEF InitTargets, ResultsComm, Process
<1>4. r = [u EXCEPT !.iter = iter, !.own = own, !.times = times]
  BY <1>3, ZenonT(40) DEF Process
<1> HIDE DEF grp, phase, iter, final, times, own
<1>5. /\ u \in Process /\ u.grp = grp /\ u.phase = phase /\ u.final = final
      /\ u.exec = q.exec /\ u.start_phase = q.start_phase /\ u.idx = q.idx
      /\ u.app = q.app /\ u.reg = q.reg /\ u.heap = q.heap
  BY <1>1, ZenonT(40) DEF Process
<1> HIDE DEF u
<1>6. /\ r \in Process /\ r.grp = u.grp /\ r.phase = u.phase /\ r.final = u.final
      /\ r.exec = u.exec /\ r.start_phase = u.start_phase /\ r.idx = u.idx
      /\ r.app = u.app /\ r.reg = u.reg /\ r.heap = u.heap
      /\ r.iter = iter /\ r.own = own /\ r.times = times
  BY <1>1, <1>4, <1>5, ZenonT(40) DEF Process
<1> QED BY <1>5, <1>6 DEF grp, phase, iter, final, times, own, AsLead, TakesPlace

(* The callback on the children.                                            *)
LEMMA KidUserStep ==
  ASSUME Inv, KidUser
  PROVE  Inv'
<1> DEFINE fields == {<<"user", "end">>}
<1>1. /\ kpc = "user" /\ wire # <<>> /\ wire' = Tail(wire) /\ kpc' = "info_s"
      /\ UNCHANGED <<conf, pc, manager, comm, kids, thread, printed, faults>>
      /\ proc' = Children(LAMBDA p, q : [InitTargets(q, Head(wire)) EXCEPT !.times = Now(q, fields)])
  BY DEF KidUser, Receives
<1>2. \/ state = "USER_COMPLETED" /\ wire = <<UserMsg>>
      \/ state = "DIST_COMPLETED" /\ \E n \in Nat : wire = <<UserMsg>> \o Entries("s", n)
  BY <1>1, Arrivals
<1>3. /\ Head(wire) = UserMsg
      /\ \/ state = "USER_COMPLETED" /\ wire' = <<>>
         \/ state = "DIST_COMPLETED" /\ \E n \in Nat : wire' = Entries("s", n)
  <2>1. CASE state = "USER_COMPLETED" /\ wire = <<UserMsg>>
    <3>1. Head(<<UserMsg>>) = UserMsg /\ Tail(<<UserMsg>>) = <<>>
      OBVIOUS
    <3> QED BY <1>1, <2>1, <3>1
  <2>2. ASSUME state = "DIST_COMPLETED", NEW n \in Nat, wire = <<UserMsg>> \o Entries("s", n)
        PROVE  Head(wire) = UserMsg /\ wire' = Entries("s", n)
    <3> DEFINE a == UserMsg
               b == Info("s", n)
               c == DataSent("s")
    <3>1. \/ wire = <<a>> \o <<b, c>> /\ Entries("s", n) = <<b, c>>
          \/ wire = <<a>> \o <<b>> /\ Entries("s", n) = <<b>>
      BY <2>2 DEF Entries
    <3> HIDE DEF a, b, c
    <3>2. a \in {a, b, c} /\ <<b, c>> \in Seq({a, b, c}) /\ <<b>> \in Seq({a, b, c})
      OBVIOUS
    <3>3. /\ Head(<<a>> \o <<b, c>>) = a /\ Tail(<<a>> \o <<b, c>>) = <<b, c>>
          /\ Head(<<a>> \o <<b>>) = a /\ Tail(<<a>> \o <<b>>) = <<b>>
      BY <3>2, First
    <3>4. Head(wire) = a /\ wire' = Entries("s", n)
      BY <1>1, <3>1, <3>3, Zenon
    <3> QED BY <3>4 DEF a
  <2> QED BY <1>2, <2>1, <2>2
<1>4. /\ Types /\ Groupings /\ \A p \in Members(comm) : ~IsKid(p)
      /\ DOMAIN proc = Members(comm) \cup Members(kids) /\ \A p : IsKid(p) <=> p \in Members(kids)
  BY <1>1, KidsApart
<1>5. /\ DOMAIN proc' = DOMAIN proc /\ proc' = [p \in DOMAIN proc' |-> proc'[p]]
      /\ \A p \in Members(comm) : proc'[p] = proc[p]
      /\ \A p \in Members(kids) : proc'[p] = [InitTargets(proc[p], UserMsg) EXCEPT !.times = Now(proc[p], fields)]
  BY <1>1, <1>3, <1>4 DEF Children
<1> HIDE DEF fields
<1>6. kpc \notin Told /\ kpc' \in Told /\ KidHasA /\ KidHasA' /\ ~KidHasS /\ ~KidHasS'
  BY <1>1 DEF Told, KidHasA, KidHasS
<1>7. ASSUME NEW p \in Members(kids)
      PROVE  /\ proc'[p] \in Process /\ AsLead(proc'[p]) /\ proc'[p].exec = proc[p].exec
             /\ proc'[p].start_phase = proc[p].start_phase /\ proc'[p].idx = proc[p].idx
             /\ proc'[p].final = Lead.final /\ proc'[p].own = Structures /\ proc'[p].app = proc[p].app
             /\ proc'[p].reg = proc[p].reg /\ proc'[p].heap = proc[p].heap
             /\ proc'[p].times = Now(proc[p], fields)
  <2>1. proc[p] \in Process
    BY <1>1, <1>7, KidsNow
  <2>2. proc'[p] = [InitTargets(proc[p], UserMsg) EXCEPT !.times = Now(proc[p], fields)]
    BY <1>5, <1>7
  <2>3. TakesPlace(proc[p], fields, proc'[p])
    BY <1>4, <2>1, <2>2, TargetIs
  <2> QED BY <2>3 DEF TakesPlace
<1>8. Lead' = Lead
  BY <1>1, <1>4, <1>5, GroupIs DEF Lead
<1>9. ASSUME NEW p \in Members(kids)
      PROVE  /\ proc'[p].heap = Held(proc'[p])
             /\ proc'[p].exec = 0 /\ proc'[p].start_phase = 0 /\ \A x \in PhaseIds : proc'[p].idx[x] = 0
             /\ AsLead(proc[p])'
  <2>1. Held(proc'[p]) = Held(proc[p])
    BY <1>7, <1>9 DEF Held
  <2>2. /\ proc[p].heap = Held(proc[p]) /\ proc[p].exec = 0 /\ proc[p].start_phase = 0
        /\ \A x \in PhaseIds : proc[p].idx[x] = 0
    BY <1>1, <1>9, KidsNow
  <2>3. AsLead(proc[p])'
    BY <1>7, <1>8, <1>9 DEF AsLead
  <2> QED BY <1>7, <1>9, <2>1, <2>2, <2>3
<1>10. /\ Stays /\ Lead' = Lead /\ Reconf'
       /\ Members(comm)' = Members(comm) /\ Members(kids)' = Members(kids)
       /\ Merge' = Merge /\ Blocking' = Blocking
       /\ KidsHold' /\ KidsRecord' /\ Channel' /\ Requests' => Inv'
  BY <1>1, <1>5, <1>7, <1>9, Aside
<1>11. KidsHold'
  <2>1. ASSUME NEW p \in Members(kids)
        PROVE  KidHolds(proc[p], Lead.grp, kpc \in Told, KidHasA, KidHasS)'
    <3>1. KidHolds(proc[p], Lead.grp, kpc \in Told, KidHasA, KidHasS)
      BY <1>1, <2>1, KidsNow
    <3> QED BY <1>1, <1>6, <1>7, <1>10, <2>1, <3>1, ZenonT(40) DEF KidHolds, Buf
  <2> QED BY <1>10, <2>1, Zenon DEF KidsHold
<1>12. KidsRecord'
  <2>1. ASSUME NEW p \in Members(kids) PROVE KidTimes(proc[p].times, Lead.grp + 1)'
    <3>1. KidTimes(proc[p].times, Lead.grp + 1) /\ proc[p] \in Process
      BY <1>1, <2>1, KidsNow
    <3>2. \A f \in TimeFields : proc'[p].times[f] = IF f \in fields THEN Lead.grp + 1 ELSE proc[p].times[f]
      BY <1>4, <1>7, <2>1, <3>1, NowIs
    <3> QED BY <1>1, <1>6, <1>10, <3>1, <3>2, FieldsAre DEF fields, KidTimes, Set
  <2> QED BY <1>7, <1>10, <2>1, Zenon DEF KidsRecord
<1>13. Channel'
  <2>1. CASE state = "USER_COMPLETED" /\ wire' = <<>>
    BY <1>1, <2>1 DEF Channel, manager
  <2>2. ASSUME state = "DIST_COMPLETED", NEW n \in Nat, wire' = Entries("s", n) PROVE Channel'
    <3>1. Entries("s", n)' = Entries("s", n)
      BY <1>1 DEF Entries, Info, DataSent
    <3>2. Arriving("s", "info_s", "data_s", "commit")'
      BY <1>1, <2>2, <3>1, Zenon DEF Arriving
    <3> QED BY <1>1, <2>2, <3>2 DEF Channel, manager
  <2> QED BY <1>3, <2>1, <2>2
<1>14. Requests'
  <2>1. Requests /\ Reconf /\ UNCHANGED state
    BY <1>1, KidsThere DEF Inv, manager
  <2>2. ASSUME "a" \in conf.data, ~Blocking, NEW p \in Members(kids) PROVE Fits(p)'
    <3>1. Fits(p) /\ proc'[p].reg = proc[p].reg
      BY <1>1, <1>6, <1>7, <2>2, KidsNow
    <3> QED BY <1>4, <1>10, <3>1, PostedStays DEF Fits
  <2> QED BY <1>4, <1>5, <1>10, <2>1, <2>2, AsideRequests
<1> QED BY <1>10, <1>11, <1>12, <1>13, <1>14

-----------------------------------------------------------------------------
(* The end of a reconfiguration.                                            *)

(* The ranks of the sources that go on.                                     *)
Staying == IF ~Merge THEN 0 ELSE IF numC < numP THEN numC ELSE numP

(* The survivors are the first ranks, those that are no zombies.            *)
LEMMA SurvivorsAre ==
  ASSUME Types, Groupings, pc # "after", Lead.grp < Groups - 1
  PROVE  /\ Staying \in 0 .. numP
         /\ Survivors \in Seq(Nat \X Nat) /\ Len(Survivors) = Staying
         /\ \A x \in 1 .. Staying : Survivors[x] = comm[x]
         /\ \A x \in 1 .. numP : Zombie(comm[x]) <=> x > Staying
<1>1. /\ numP \in Nat \ {0} /\ DOMAIN comm = 1 .. numP
      /\ \A x \in 1 .. numP : comm[x] \in Members(comm) /\ RankIn(comm, comm[x]) = x - 1
  BY GroupIs
<1>2. numC \in Nat \ {0} /\ Merge \in BOOLEAN
  BY ResizeIs
<1>3. Staying \in 0 .. numP
  BY <1>1, <1>2 DEF Staying
<1>4. ASSUME NEW x \in 1 .. numP PROVE Zombie(comm[x]) <=> x > Staying
  <2>1. Zombie(comm[x]) <=> IF Merge THEN x - 1 >= numC ELSE TRUE
    BY <1>1, <1>4 DEF Zombie
  <2> QED BY <1>1, <1>2, <1>4, <2>1 DEF Staying
<1>5. {y \in DOMAIN comm : ~Zombie(comm[y])} = 1 .. Staying
  BY <1>1, <1>3, <1>4
<1>6. Survivors = [x \in 1 .. Staying |-> comm[x]]
  BY <1>5 DEF Survivors
<1>7. \A x \in 1 .. Staying : comm[x] \in Nat \X Nat
  BY <1>1, <1>3 DEF Types
<1> HIDE DEF Staying
<1> QED BY <1>3, <1>4, <1>6, <1>7

(* The next group: the survivors, and the children behind them.             *)
LEMMA NextGroupIs ==
  ASSUME Types, Groupings, pc # "after", Lead.grp < Groups - 1,
         IF Shrinks THEN kids = <<>> ELSE kids = NewKids
  PROVE  LET stay == Survivors \o kids
         IN  /\ stay \in Seq(Nat \X Nat) /\ Len(stay) = numC
             /\ \A x \in 1 .. Staying : stay[x] = comm[x]
             /\ \A x \in Staying + 1 .. numC : x - Staying \in DOMAIN kids /\ stay[x] = kids[x - Staying]
             /\ \A x \in DOMAIN kids : x + Staying \in 1 .. numC /\ stay[x + Staying] = kids[x]
             /\ Staying \in 0 .. numC
<1>1. /\ numP \in Nat \ {0} /\ numC \in Nat \ {0} /\ Merge \in BOOLEAN /\ (Merge => numC # numP)
  BY GroupIs, ResizeIs
<1>2. /\ Staying \in 0 .. numP
      /\ Survivors \in Seq(Nat \X Nat) /\ Len(Survivors) = Staying
      /\ \A x \in 1 .. Staying : Survivors[x] = comm[x]
  BY SurvivorsAre
<1>3. kids \in Seq(Nat \X Nat) /\ Len(kids) = numC - Staying /\ Staying \in 0 .. numC
  <2>1. CASE Shrinks
    BY <1>1, <2>1 DEF Shrinks, Staying
  <2>2. CASE ~Shrinks
    <3>1. kids \in Seq(Nat \X Nat) /\ Len(kids) = IF Merge THEN numC - numP ELSE numC
      BY <2>2, KidsAre
    <3> QED BY <1>1, <2>2, <3>1 DEF Shrinks, Staying
  <2> QED BY <2>1, <2>2
<1> DEFINE stay == Survivors \o kids
           n == Staying
<1>4. n \in Nat /\ DOMAIN kids = 1 .. numC - n
  BY <1>1, <1>3
<1> HIDE DEF n
<1>5. stay \in Seq(Nat \X Nat) /\ Len(stay) = numC
  <2>1. Len(stay) = Len(Survivors) + Len(kids) /\ stay \in Seq(Nat \X Nat)
    BY <1>2, <1>3, ConcatProperties
  <2>2. n + (numC - n) = numC
    BY <1>1, <1>4
  <2> QED BY <1>2, <1>3, <2>1, <2>2 DEF n
<1>6. \A x \in 1 .. n : stay[x] = comm[x]
  BY <1>2, <1>3 DEF n
<1>7. ASSUME NEW x \in DOMAIN kids PROVE x + n \in 1 .. numC /\ stay[x + n] = kids[x]
  <2>1. x + n \in 1 .. numC
    BY <1>1, <1>4, <1>7
  <2>2. stay[x + n] = kids[x]
    <3>1. \A i \in 1 .. Len(Survivors) + Len(kids) :
            stay[i] = IF i <= Len(Survivors) THEN Survivors[i] ELSE kids[i - Len(Survivors)]
      BY <1>2, <1>3, ConcatProperties
    <3>2. PICK l \in Nat : l = Len(Survivors)
      BY <1>2
    <3>3. PICK m \in Nat : m = Len(kids)
      BY <1>3
    <3>4. l = n /\ DOMAIN kids = 1 .. m
      BY <1>2, <1>3, <3>2, <3>3 DEF n
    <3>5. x \in 1 .. m /\ x \in Nat
      BY <1>7, <3>4
    <3>6. x + l \in 1 .. l + m /\ ~(x + l <= l) /\ (x + l) - l = x
      BY <3>2, <3>3, <3>5
    <3>7. stay[x + l] = kids[(x + l) - l]
      BY <3>1, <3>2, <3>3, <3>6
    <3> QED BY <3>4, <3>6, <3>7
  <2> QED BY <2>1, <2>2
<1>8. ASSUME NEW x \in n + 1 .. numC PROVE x - n \in DOMAIN kids /\ stay[x] = kids[x - n]
  <2>1. x - n \in DOMAIN kids /\ (x - n) + n = x
    BY <1>1, <1>4, <1>8
  <2>2. stay[(x - n) + n] = kids[x - n]
    BY <1>7, <2>1
  <2> QED BY <2>1, <2>2
<1> QED BY <1>3, <1>5, <1>6, <1>7, <1>8 DEF n

(* All ends of the intervals of the lead of the next group have been taken. *)
LEMMA TakenIs ==
  ASSUME Types, Groupings, NEW n, NEW t,
         {t[Spawn]} = {n}, t[<<"user", "start">>] = n, t[<<"user", "end">>] = n,
         t[<<"mall", "start">>] = n, t[<<"mall", "end">>] = n,
         t[<<"sync", "start">>] = t[<<"sync", "end">>], t[<<"sync", "start">>] \in {0, n},
         t[<<"async", "start">>] = t[<<"async", "end">>], t[<<"async", "start">>] \in {0, n}
  PROVE  Taken(t, n)
<1> DEFINE ends == RetrieveTimes(t)
<1>1. /\ ends["spawn"] = {t[Spawn]}
      /\ \A f \in {"sync", "async", "user", "mall"} : ends[f] = {t[<<f, "start">>], t[<<f, "end">>]}
  BY DEF RetrieveTimes, Intervals
<1> HIDE DEF ends
<1>2. ends["user"] = {n} /\ ends["mall"] = {n}
  BY <1>1
<1>3. ends["sync"] \in {{0}, {n}} /\ ends["async"] \in {{0}, {n}}
  BY <1>1
<1> QED BY <1>1, <1>2, <1>3 DEF Taken, ends

(* The times of a process after the commit.                                 *)
Committed(p, q, r) ==
  /\ r \in Process /\ WorkIs(q, r) /\ BuffersAre(q, r) /\ r.final = q.final
  /\ \A f \in TimeFields :
       r.times[f] = IF ~Merge /\ IsKid(p) /\ f \in Broadcast THEN Lead.times[f]
                    ELSE IF f = <<"mall", "end">> THEN Lead.grp + 1 ELSE q.times[f]

(* What a process has after the commit.                                     *)
LEMMA CommitIs ==
  ASSUME Types, Groupings, NEW p, NEW q \in Process, NEW r,
         r = [q EXCEPT !.times = CommitTimes(p, q)]
  PROVE  Committed(p, q, r)
<1> DEFINE t == Now(q, {<<"mall", "end">>})
           c == CommitTimes(p, q)
<1>1. /\ t \in [TimeFields -> Nat] /\ Lead.times \in [TimeFields -> Nat]
      /\ \A f \in TimeFields : t[f] = IF f = <<"mall", "end">> THEN Lead.grp + 1 ELSE q.times[f]
  BY NowIs, LeadIs, ProcessIs
<1>2. c = IF ~Merge /\ IsKid(p) THEN [f \in TimeFields |-> IF f \in Broadcast THEN Lead.times[f] ELSE t[f]] ELSE t
  BY DEF CommitTimes
<1> HIDE DEF t, c
<1>3. /\ c \in [TimeFields -> Nat]
      /\ \A f \in TimeFields :
           c[f] = IF ~Merge /\ IsKid(p) /\ f \in Broadcast THEN Lead.times[f]
                  ELSE IF f = <<"mall", "end">> THEN Lead.grp + 1 ELSE q.times[f]
  BY <1>1, <1>2
<1>4. r = [q EXCEPT !.times = c]
  BY DEF c
<1>5. r \in Process /\ WorkIs(q, r) /\ BuffersAre(q, r) /\ r.final = q.final /\ r.times = c
  BY <1>3, <1>4, ZenonT(40) DEF Process, WorkIs, BuffersAre
<1> QED BY <1>3, <1>5 DEF Committed

(* Where everybody is before the commit.                                    *)
LEMMA BeforeCommit ==
  ASSUME Inv, StCompleted
  PROVE  /\ Types /\ Groupings /\ Reconf /\ pc # "after" /\ Lead.grp < Groups - 1 /\ Groups > 1
         /\ (IF Shrinks THEN kids = <<>> ELSE kids = NewKids) /\ wire = <<>>
         /\ kids # <<>> => kpc = "commit"
         /\ state \in {"SPAWN_ADAPTED", "DIST_COMPLETED"} /\ (state = "SPAWN_ADAPTED" <=> Shrinks)
         /\ pc' = "after" /\ state' = "NOT_STARTED" /\ kpc' = "none" /\ thread' = "none"
         /\ waiting' = waiting /\ UNCHANGED <<conf, kids, wire, printed>>
         /\ comm' = Survivors \o kids
         /\ \A p \in Members(comm) : ~IsKid(p)
         /\ \A p \in Members(comm) : Gone(p) <=> Zombie(p)
         /\ "a" \in conf.data => MovedA
         /\ MovedS
<1>1. Types /\ Groupings /\ Control /\ Reconf /\ pc # "after"
  BY DEF Inv, StCompleted, Reconf
<1>2. Lead.grp < Groups - 1 /\ Groups > 1
  <2>1. Lead.grp < Groups - 1
    BY <1>1 DEF Groupings
  <2> QED BY <1>1, <2>1, Ahead
<1>3. /\ state \in {"SPAWN_ADAPTED", "DIST_COMPLETED"} /\ (kids # <<>> => kpc = "commit" /\ wire = <<>>)
      /\ pc' = "after" /\ state' = "NOT_STARTED" /\ kpc' = "none" /\ thread' = "none"
      /\ waiting' = waiting /\ UNCHANGED <<conf, kids, wire, printed>>
      /\ comm' = Survivors \o kids
  BY DEF StCompleted, Return
<1>4. state = "SPAWN_ADAPTED" => Shrinks /\ NoKids
  BY <1>1, <1>3 DEF Control, Split
<1>5. state = "DIST_COMPLETED" => ~Shrinks /\ kids = NewKids
  BY <1>1, <1>3 DEF Control
<1>6. state = "DIST_COMPLETED" => kids # <<>>
  BY <1>1, <1>2, <1>5, KidsAre
<1>7. (IF Shrinks THEN kids = <<>> ELSE kids = NewKids) /\ wire = <<>> /\ (state = "SPAWN_ADAPTED" <=> Shrinks)
  BY <1>3, <1>4, <1>5, <1>6 DEF NoKids
<1>8. \A p \in Members(comm) : ~IsKid(p)
  BY <1>1, Apart
<1>9. MovedS /\ \A p \in Members(comm) : Gone(p) <=> Zombie(p)
  BY <1>1, <1>3 DEF MovedS, Gone, Shown, Ended, Split
<1>10. "a" \in conf.data => MovedA
  BY <1>1, <1>3 DEF MovedA, Control, NotSent
<1> QED BY <1>1, <1>2, <1>3, <1>7, <1>8, <1>9, <1>10

(* The members of the next group.                                           *)
LEMMA MembersNext ==
  ASSUME Inv, StCompleted
  PROVE  /\ comm' \in Seq(Nat \X Nat) /\ Len(comm') = numC /\ numC \in Nat \ {0} /\ DOMAIN comm' = 1 .. numC
         /\ Members(comm)' \subseteq DOMAIN proc /\ Members(kids)' \subseteq Members(comm)'
         /\ \A p \in Members(comm)' : IF IsKid(p) THEN p \in Members(kids) ELSE p \in Members(comm) /\ ~Zombie(p)
         /\ \A p \in DOMAIN proc \ Members(comm)' : p \in Members(comm) /\ Zombie(p)
         /\ \A x, y \in DOMAIN comm' : comm'[x] = comm'[y] => x = y
         /\ \A x \in DOMAIN comm' : comm'[x][1] <= Lead.grp + 1
         /\ comm'[1] \in Members(comm)'
         /\ Merge => comm'[1] = comm[1]
<1>1. /\ Types /\ Groupings /\ pc # "after" /\ Lead.grp < Groups - 1
      /\ (IF Shrinks THEN kids = <<>> ELSE kids = NewKids) /\ kids' = kids /\ comm' = Survivors \o kids
      /\ \A p \in Members(comm) : ~IsKid(p)
  BY BeforeCommit
<1> DEFINE n == Staying
<1>2. /\ comm' \in Seq(Nat \X Nat) /\ Len(comm') = numC
      /\ \A x \in 1 .. n : comm'[x] = comm[x]
      /\ \A x \in n + 1 .. numC : x - n \in DOMAIN kids /\ comm'[x] = kids[x - n]
      /\ \A x \in DOMAIN kids : x + n \in 1 .. numC /\ comm'[x + n] = kids[x]
      /\ n \in 0 .. numC
  BY <1>1, NextGroupIs
<1>3. /\ n \in 0 .. numP /\ \A x \in 1 .. numP : Zombie(comm[x]) <=> x > n
  BY <1>1, SurvivorsAre
<1>4. /\ numC \in Nat \ {0} /\ numP \in Nat \ {0} /\ DOMAIN comm = 1 .. numP /\ DOMAIN comm' = 1 .. numC
      /\ Lead.grp \in Nat /\ DOMAIN proc = Members(comm) \cup Members(kids) /\ \A p : IsKid(p) <=> p \in Members(kids)
      /\ \A x \in 1 .. numP : comm[x] \in Members(comm)
      /\ \A p \in Members(comm) : \E x \in 1 .. numP : p = comm[x]
  BY <1>1, <1>2, GroupIs, ResizeIs
<1>5. \A x \in DOMAIN kids : kids[x] = <<Lead.grp + 1, x>> /\ kids[x] \in Members(kids)
  BY <1>1 DEF Groupings, Members
<1> HIDE DEF n
<1>6. ASSUME NEW x \in DOMAIN comm'
      PROVE  \/ x \in 1 .. n /\ comm'[x] = comm[x] /\ comm'[x] \in Members(comm) /\ ~Zombie(comm'[x])
             \/ x \in n + 1 .. numC /\ comm'[x] \in Members(kids) /\ comm'[x] = <<Lead.grp + 1, x - n>>
  <2>1. CASE x \in 1 .. n
    <3>1. x \in 1 .. numP /\ ~(x > n)
      BY <1>3, <1>4, <2>1
    <3> QED BY <1>2, <1>3, <1>4, <2>1, <3>1
  <2>2. CASE x \notin 1 .. n
    <3>1. x \in n + 1 .. numC
      BY <1>2, <1>4, <2>2
    <3> QED BY <1>2, <1>5, <3>1
  <2> QED BY <2>1, <2>2
<1>7. Members(comm)' = {comm'[x] : x \in 1 .. numC}
  BY <1>4 DEF Members
<1>8. ASSUME NEW p \in Members(comm)'
      PROVE  /\ p \in DOMAIN proc
             /\ IF IsKid(p) THEN p \in Members(kids) ELSE p \in Members(comm) /\ ~Zombie(p)
  <2>1. PICK x \in DOMAIN comm' : p = comm'[x]
    BY <1>4, <1>7
  <2> QED BY <1>1, <1>4, <1>6, <2>1
<1>9. ASSUME NEW p \in Members(kids) PROVE p \in Members(comm)'
  <2>1. PICK x \in DOMAIN kids : p = kids[x]
    BY DEF Members
  <2> QED BY <1>2, <1>7, <2>1
<1>10. ASSUME NEW p \in DOMAIN proc, p \notin Members(comm)' PROVE p \in Members(comm) /\ Zombie(p)
  <2>1. p \in Members(comm)
    BY <1>4, <1>9, <1>10
  <2>2. PICK x \in 1 .. numP : p = comm[x]
    BY <1>4, <2>1
  <2>3. x \notin 1 .. n
    <3>1. ASSUME x \in 1 .. n PROVE FALSE
      <4>1. x \in 1 .. numC /\ comm'[x] = p
        BY <1>2, <1>4, <2>2, <3>1
      <4> QED BY <1>7, <1>10, <4>1
    <3> QED BY <3>1
  <2> QED BY <1>3, <1>4, <2>1, <2>2, <2>3
<1>11. ASSUME NEW x \in DOMAIN comm', NEW y \in DOMAIN comm', comm'[x] = comm'[y] PROVE x = y
  <2>1. CASE x \in 1 .. n /\ y \in 1 .. n
    <3>1. comm'[x] = comm[x] /\ comm'[y] = comm[y]
      BY <1>2, <2>1
    <3>2. x \in DOMAIN comm /\ y \in DOMAIN comm
      BY <1>3, <1>4, <2>1
    <3> QED BY <1>1, <1>11, <3>1, <3>2 DEF Groupings
  <2>2. CASE x \notin 1 .. n /\ y \notin 1 .. n
    <3>1. <<Lead.grp + 1, x - n>> = <<Lead.grp + 1, y - n>>
      BY <1>6, <1>11, <2>2
    <3>2. x - n = y - n
      BY <3>1
    <3> QED BY <1>2, <1>4, <3>2
  <2>3. CASE x \in 1 .. n /\ y \notin 1 .. n
    <3>1. comm'[x] \in Members(comm)
      BY <1>2, <1>4, <1>6, <2>3
    <3>2. comm'[y] \in Members(kids)
      BY <1>2, <1>4, <1>6, <2>3
    <3> QED BY <1>1, <1>4, <1>11, <3>1, <3>2
  <2>4. CASE x \notin 1 .. n /\ y \in 1 .. n
    <3>1. comm'[y] \in Members(comm)
      BY <1>2, <1>4, <1>6, <2>4
    <3>2. comm'[x] \in Members(kids)
      BY <1>2, <1>4, <1>6, <2>4
    <3> QED BY <1>1, <1>4, <1>11, <3>1, <3>2
  <2> QED BY <2>1, <2>2, <2>3, <2>4
<1>12. ASSUME NEW x \in DOMAIN comm' PROVE comm'[x][1] <= Lead.grp + 1
  <2>1. CASE x \in 1 .. n
    <3>1. x \in DOMAIN comm /\ comm'[x] = comm[x]
      BY <1>2, <1>3, <1>4, <2>1
    <3>2. comm[x][1] <= Lead.grp /\ comm[x][1] \in Nat
      BY <1>1, <3>1 DEF Groupings, Types
    <3> QED BY <1>4, <3>1, <3>2
  <2>2. CASE x \notin 1 .. n
    <3>1. comm'[x] = <<Lead.grp + 1, x - n>>
      BY <1>6, <1>12, <2>2
    <3> QED BY <1>4, <3>1
  <2> QED BY <2>1, <2>2
<1>13. comm'[1] \in Members(comm)'
  BY <1>4, <1>7
<1>14. ASSUME Merge PROVE comm'[1] = comm[1]
  <2>1. 1 \in 1 .. n
    BY <1>4, <1>14 DEF n, Staying
  <2> QED BY <1>2, <2>1
<1>15. Members(kids)' \subseteq Members(comm)' /\ Members(comm)' \subseteq DOMAIN proc
  <2>1. Members(kids)' = Members(kids)
    BY <1>1 DEF Members
  <2> QED BY <1>8, <1>9, <2>1
<1>16. \A p \in Members(comm)' : IF IsKid(p) THEN p \in Members(kids) ELSE p \in Members(comm) /\ ~Zombie(p)
  BY <1>8
<1>17. \A p \in DOMAIN proc \ Members(comm)' : p \in Members(comm) /\ Zombie(p)
  BY <1>10
<1> QED BY <1>2, <1>4, <1>11, <1>12, <1>13, <1>14, <1>15, <1>16, <1>17

(* The times of the new lead are those of the resize.                       *)
LEMMA LeadTimes ==
  ASSUME Inv, StCompleted, NEW q, NEW r,
         Committed(comm'[1], q, r), q = proc[comm'[1]]
  PROVE  Taken(r.times, Lead.grp + 1)
<1> DEFINE n == Lead.grp + 1
           p == comm'[1]
<1>1. /\ Types /\ Groupings /\ Reconf /\ Records /\ state \in {"SPAWN_ADAPTED", "DIST_COMPLETED"}
      /\ (state = "SPAWN_ADAPTED" <=> Shrinks) /\ (kids # <<>> => kpc = "commit")
      /\ \A x \in Members(comm) : ~IsKid(x)
      /\ Lead.grp < Groups - 1 /\ IF Shrinks THEN kids = <<>> ELSE kids = NewKids
  BY BeforeCommit DEF Inv
<1>2. SourceTimes(Lead.times, n)
  BY <1>1 DEF Records, RootTimes
<1>3. \A f \in TimeFields :
        r.times[f] = IF ~Merge /\ IsKid(p) /\ f \in Broadcast THEN Lead.times[f]
                     ELSE IF f = <<"mall", "end">> THEN n ELSE q.times[f]
  BY DEF Committed
<1>4. n \in Nat \ {0}
  BY <1>1, LeadIs
<1> HIDE DEF n, p
<1>5. /\ Lead.times[<<"mall", "start">>] = n /\ Lead.times[Spawn] = n /\ Lead.times[<<"user", "start">>] = n
      /\ Lead.times[<<"async", "start">>] = (IF "a" \in conf.data THEN n ELSE 0)
      /\ Lead.times[<<"sync", "start">>] = (IF "s" \in conf.data THEN n ELSE 0)
  BY <1>1, <1>2 DEF SourceTimes, Set, NotSent, Sent, Shown, Ended, Split
<1>6. CASE Merge
  <2>1. q = Lead /\ ~IsKid(p)
    BY <1>1, <1>6, MembersNext, GroupIs DEF p, Lead
  <2>2. /\ Lead.times[<<"async", "end">>] = (IF "a" \in conf.data THEN n ELSE 0)
        /\ Lead.times[<<"user", "end">>] = n
        /\ Lead.times[<<"sync", "end">>] = (IF "s" \in conf.data THEN n ELSE 0)
    BY <1>1, <1>2, <1>6 DEF SourceTimes, Set, NotSent, Sent, Shown, Ended, Split
  <2>3. \A f \in TimeFields : r.times[f] = IF f = <<"mall", "end">> THEN n ELSE Lead.times[f]
    BY <1>3, <2>1
  <2>4. /\ r.times[<<"mall", "start">>] = n /\ r.times[<<"mall", "end">>] = n /\ r.times[Spawn] = n
        /\ r.times[<<"user", "start">>] = n /\ r.times[<<"user", "end">>] = n
        /\ r.times[<<"async", "start">>] = (IF "a" \in conf.data THEN n ELSE 0)
        /\ r.times[<<"sync", "start">>] = (IF "s" \in conf.data THEN n ELSE 0)
        /\ r.times[<<"async", "end">>] = (IF "a" \in conf.data THEN n ELSE 0)
        /\ r.times[<<"sync", "end">>] = (IF "s" \in conf.data THEN n ELSE 0)
    BY <1>5, <2>2, <2>3, FieldsAre DEF Spawn
  <2>5. Taken(r.times, n)
    BY <1>1, <2>4, TakenIs
  <2> QED BY <2>5 DEF n
<1>7. CASE ~Merge
  <2>1. IsKid(p) /\ p \in Members(kids) /\ kids # <<>>
    <3>1. p \in Members(comm)'
      BY MembersNext DEF p
    <3>2. p \in DOMAIN proc /\ IF IsKid(p) THEN p \in Members(kids) ELSE p \in Members(comm) /\ ~Zombie(p)
      BY <3>1, MembersNext
    <3>3. IsKid(p)
      BY <1>7, <3>2 DEF Zombie
    <3>4. p \in Members(kids)
      BY <3>2, <3>3
    <3>5. ~Shrinks
      BY <1>7 DEF Shrinks
    <3> QED BY <1>1, <3>3, <3>4, <3>5, KidsAre
  <2>2. KidTimes(q.times, n) /\ kpc = "commit"
    BY <1>1, <2>1 DEF Records, KidsRecord, n, p
  <2>3. /\ q.times[<<"async", "end">>] = (IF "a" \in conf.data THEN n ELSE 0)
        /\ q.times[<<"user", "end">>] = n
        /\ q.times[<<"sync", "end">>] = (IF "s" \in conf.data THEN n ELSE 0)
    BY <2>2 DEF KidTimes, Set, KidHasA, KidHasS, Told
  <2>4. \A f \in TimeFields :
          r.times[f] = IF f \in Broadcast THEN Lead.times[f]
                       ELSE IF f = <<"mall", "end">> THEN n ELSE q.times[f]
    BY <1>3, <1>7, <2>1
  <2>5. /\ Spawn \in Broadcast
        /\ \A f \in {"sync", "async", "user", "mall"} :
             <<f, "start">> \in Broadcast /\ <<f, "end">> \notin Broadcast
    BY DEF Broadcast, Spawn
  <2>6. /\ r.times[<<"mall", "start">>] = n /\ r.times[Spawn] = n
        /\ r.times[<<"user", "start">>] = n
        /\ r.times[<<"async", "start">>] = (IF "a" \in conf.data THEN n ELSE 0)
        /\ r.times[<<"sync", "start">>] = (IF "s" \in conf.data THEN n ELSE 0)
    BY <1>5, <2>4, <2>5, FieldsAre
  <2>7. /\ r.times[<<"mall", "end">>] = n /\ r.times[<<"user", "end">>] = n
        /\ r.times[<<"async", "end">>] = (IF "a" \in conf.data THEN n ELSE 0)
        /\ r.times[<<"sync", "end">>] = (IF "s" \in conf.data THEN n ELSE 0)
    BY <2>3, <2>4, <2>5, FieldsAre
  <2>8. Taken(r.times, n)
    BY <1>1, <2>6, <2>7, TakenIs
  <2> QED BY <2>8 DEF n
<1> QED BY <1>6, <1>7

(* The commit leaves no buffer of a zombie behind.                          *)
LEMMA CommitLeaks ==
  ASSUME Inv, StCompleted
  PROVE  UNCHANGED faults
<1>1. Types /\ Groupings /\ Reconf /\ pc # "after" /\ Buffers
  BY BeforeCommit DEF Inv
<1>2. ASSUME NEW p \in DOMAIN proc \ Members(comm)' PROVE FreeArrays(proc[p]) = {} /\ proc[p].own = {}
  <2>1. p \in Members(comm) /\ Zombie(p)
    BY <1>2, MembersNext
  <2>2. SourceHolds(proc[p], Lead.grp, Gone(p), MovedA /\ ~Zombie(p), MovedS /\ ~Zombie(p))
        /\ proc[p].heap = Held(proc[p]) /\ Gone(p)
    BY <1>1, <1>2, <2>1, BeforeCommit DEF Buffers, SourcesHold, HeapsHold, Reconf
  <2>3. proc[p].own = {} /\ \A k \in Kinds : proc[p].app[k] = Null
    BY <2>2 DEF SourceHolds
  <2>4. Held(proc[p]) \subseteq {proc[p].reg[k].array : k \in Kinds}
    BY <2>3 DEF Held
  <2> QED BY <2>2, <2>3, <2>4 DEF FreeArrays
<1>3. Members(Survivors \o kids) = Members(comm)'
  BY BeforeCommit DEF Members
<1>4. faults' = IF \A p \in DOMAIN proc \ Members(comm)' : FreeArrays(proc[p]) = {} /\ proc[p].own = {}
                THEN faults ELSE faults \cup {"leak"}
  BY <1>3, Zenon DEF StCompleted
<1> QED BY <1>2, <1>4

(* The commit.                                                              *)
LEMMA StCompletedStep ==
  ASSUME Inv, StCompleted
  PROVE  Inv'
<1>1. /\ Types /\ Groupings /\ Reconf /\ pc # "after" /\ Lead.grp < Groups - 1 /\ Groups > 1
      /\ wire = <<>> /\ (kids # <<>> => kpc = "commit")
      /\ state \in {"SPAWN_ADAPTED", "DIST_COMPLETED"}
      /\ pc' = "after" /\ state' = "NOT_STARTED" /\ kpc' = "none" /\ thread' = "none"
      /\ waiting' = waiting /\ UNCHANGED <<conf, kids, wire, printed>>
      /\ Work /\ Buffers /\ Records /\ Printed
  BY BeforeCommit DEF Inv
<1>2. /\ comm' \in Seq(Nat \X Nat) /\ Len(comm') = numC /\ numC \in Nat \ {0} /\ DOMAIN comm' = 1 .. numC
      /\ Members(comm)' \subseteq DOMAIN proc /\ Members(kids)' \subseteq Members(comm)'
      /\ \A p \in Members(comm)' : IF IsKid(p) THEN p \in Members(kids) ELSE p \in Members(comm) /\ ~Zombie(p)
      /\ comm'[1] \in Members(comm)'
  BY MembersNext
<1>3. ~Reconf' /\ \A p : IsKid(p)' <=> IsKid(p)
  BY <1>1 DEF Reconf, IsKid, Members
<1>4. proc' = [p \in Members(comm)' |-> [proc[p] EXCEPT !.times = CommitTimes(p, proc[p])]]
  BY DEF StCompleted, Members
<1>5. ASSUME NEW p \in Members(comm)'
      PROVE  Committed(p, proc[p], proc'[p]) /\ proc[p] \in Process /\ p \in DOMAIN proc
  <2>1. p \in DOMAIN proc /\ proc[p] \in Process
    BY <1>1, <1>2, <1>5, GroupIs
  <2>2. proc'[p] = [proc[p] EXCEPT !.times = CommitTimes(p, proc[p])]
    BY <1>4, <1>5
  <2> QED BY <1>1, <2>1, <2>2, CommitIs
<1>6. ASSUME NEW p \in Members(comm)'
      PROVE  /\ proc'[p] \in Process /\ WorkIs(proc[p], proc'[p]) /\ BuffersAre(proc[p], proc'[p])
             /\ proc'[p].final = proc[p].final
  BY <1>5, <1>6 DEF Committed
<1>7. Lead' = proc'[comm'[1]]
  BY DEF Lead
<1>8. ASSUME NEW p \in Members(comm)'
      PROVE  /\ AsLead(proc[p]) /\ \A x \in PhaseIds : x > Lead.phase => proc[p].idx[x] = 0
             /\ IsKid(p) => \A x \in PhaseIds : proc[p].idx[x] = 0
             /\ proc[p].start_phase <= Lead.phase
             /\ IsKid(p) => proc[p].final = Lead.final
  <2>1. CASE IsKid(p)
    <3>1. p \in Members(kids) /\ kids # <<>>
      BY <1>2, <1>8, <2>1 DEF Members
    <3>2. kpc \in Told
      BY <1>1, <3>1 DEF Told
    <3>3. /\ AsLead(proc[p]) /\ \A x \in PhaseIds : proc[p].idx[x] = 0
          /\ proc[p].start_phase = 0
      BY <1>1, <3>1, <3>2 DEF Work
    <3>4. proc[p].final = Lead.final
      BY <1>1, <3>1, <3>2 DEF Records, KidsRecord
    <3>5. 0 <= Lead.phase
      BY <1>1, LeadIs
    <3> QED BY <3>3, <3>4, <3>5
  <2>2. CASE ~IsKid(p)
    <3>1. p \in Members(comm)
      BY <1>2, <1>8, <2>2
    <3>2. Beside(proc[p])
      BY <1>1, <3>1 DEF Work
    <3>3. \A x \in PhaseIds : x > Lead.phase => x >= Lead.start_phase
      BY <1>1, LeadIs DEF Work
    <3>4. \A x \in PhaseIds : x > Lead.phase => proc[p].idx[x] = 0
      BY <1>1, <3>2, <3>3 DEF Work, Beside
    <3>5. AsLead(proc[p]) /\ proc[p].start_phase <= Lead.phase
      BY <1>1, <3>2 DEF Work, Beside
    <3> QED BY <2>2, <3>4, <3>5
  <2> QED BY <2>1, <2>2
<1>9. /\ Lead'.grp = Lead.grp /\ Lead'.phase = Lead.phase /\ Lead'.iter = Lead.iter
      /\ Lead'.final = Lead.final /\ Lead'.start_phase <= Lead.phase
  <2>1. WorkIs(proc[comm'[1]], Lead') /\ Lead'.final = proc[comm'[1]].final
    BY <1>2, <1>6, <1>7
  <2>2. /\ AsLead(proc[comm'[1]]) /\ proc[comm'[1]].start_phase <= Lead.phase
        /\ IsKid(comm'[1]) => proc[comm'[1]].final = Lead.final
    BY <1>2, <1>8
  <2>3. ~IsKid(comm'[1]) => comm'[1] = comm[1]
    BY <1>2, MembersNext DEF Zombie
  <2>4. proc[comm'[1]].final = Lead.final
    BY <2>2, <2>3 DEF Lead
  <2> QED BY <2>1, <2>2, <2>4 DEF WorkIs, AsLead
<1>10. Types'
  <2>1. Members(comm)' \cup Members(kids)' = Members(comm)'
    BY <1>2
  <2>2. proc' \in [Members(comm)' -> Process]
    BY <1>4, <1>6
  <2> QED BY <1>1, <1>2, <2>1, <2>2 DEF Types
<1>11. Groupings'
  <2>1. Resize'.procs = numC
    BY <1>1, <1>9 DEF Resize, numC
  <2>2. /\ \A x, y \in DOMAIN comm' : comm'[x] = comm'[y] => x = y
        /\ \A x \in DOMAIN comm' : comm'[x][1] <= Lead.grp + 1
    BY MembersNext
  <2>3. \A x \in DOMAIN kids : kids[x] = <<Lead.grp + 1, x>>
    BY <1>1 DEF Groupings
  <2>4. Lead.grp < Groups
    BY <1>1, Ahead
  <2> QED BY <1>1, <1>2, <1>3, <1>9, <2>1, <2>2, <2>3, <2>4 DEF Groupings
<1>12. Control' /\ Channel'
  BY <1>1, <1>3 DEF Control, Channel, NotSent
<1>13. Work'
  <2>1. QtyIters' = QtyIters /\ Working' = Working
    BY <1>1, <1>9 DEF QtyIters, Working
  <2>2. Lead'.iter <= IF Working' THEN QtyIters' ELSE 0
    BY <1>1, <1>9, <2>1 DEF Work
  <2>3. ASSUME NEW p \in Members(comm)'
        PROVE  /\ AsLead(proc[p])' /\ \A x \in PhaseIds : x > Lead'.phase => proc'[p].idx[x] = 0
               /\ IsKid(p)' => \A x \in PhaseIds : proc'[p].idx[x] = 0
    <3>1. WorkIs(proc[p], proc'[p])
      BY <1>6, <2>3
    <3>2. /\ AsLead(proc[p]) /\ \A x \in PhaseIds : x > Lead.phase => proc[p].idx[x] = 0
          /\ IsKid(p) => \A x \in PhaseIds : proc[p].idx[x] = 0
      BY <1>8, <2>3
    <3> QED BY <1>3, <1>9, <3>1, <3>2 DEF AsLead, WorkIs
  <2>4. Lead'.start_phase <= Lead'.phase
    BY <1>9
  <2> QED BY <1>1, <1>3, <2>2, <2>3, <2>4 DEF Work
<1>14. Printed'
  <2>1. state \in Shown
    BY <1>1 DEF Shown, Split
  <2>2. \A x \in PhaseIds : Unprinted(x) = 0 /\ Unprinted(x)' = 0 /\ Made(x)' = Made(x)
    BY <1>1, <1>9, <2>1 DEF Unprinted, Made
  <2> QED BY <1>1, <2>2 DEF Printed
<1>15. HeapsHold'
  <2>1. ASSUME NEW p \in Members(comm)' PROVE proc'[p].heap = Held(proc'[p])
    <3>1. p \in DOMAIN proc /\ BuffersAre(proc[p], proc'[p])
      BY <1>5, <1>6, <2>1
    <3>2. proc[p].heap = Held(proc[p])
      BY <1>1, <3>1 DEF Buffers, HeapsHold
    <3> QED BY <3>1, <3>2 DEF BuffersAre, Held
  <2> QED BY <1>4, <2>1 DEF HeapsHold
<1>16. GroupHolds'
  <2>1. ASSUME NEW p \in Members(comm)'
        PROVE  /\ proc[p].own = Structures
               /\ \A k \in Kinds : /\ proc[p].app[k] = (IF IsKid(p) THEN Null ELSE Buf(k, Lead.grp))
                                  /\ proc[p].reg[k].array = Buf(k, Lead.grp + 1)
    <3>1. CASE IsKid(p)
      <4>1. p \in Members(kids) /\ kids # <<>>
        BY <1>2, <2>1, <3>1 DEF Members
      <4>2. kpc \in Told /\ KidHasA /\ KidHasS
        BY <1>1, <4>1 DEF Told, KidHasA, KidHasS
      <4>3. KidHolds(proc[p], Lead.grp, kpc \in Told, KidHasA, KidHasS)
        BY <1>1, <4>1 DEF Buffers, KidsHold
      <4> QED BY <3>1, <4>2, <4>3 DEF KidHolds, Kinds
    <3>2. CASE ~IsKid(p)
      <4>1. p \in Members(comm) /\ ~Zombie(p)
        BY <1>2, <2>1, <3>2
      <4>2. SourceHolds(proc[p], Lead.grp, Gone(p), MovedA /\ ~Zombie(p), MovedS /\ ~Zombie(p))
        BY <1>1, <4>1 DEF Buffers, SourcesHold, Reconf
      <4>3. ~Gone(p) /\ MovedS /\ ("a" \in conf.data => MovedA)
        BY <4>1, BeforeCommit
      <4>4. "a" \notin conf.data => Buf("a", Lead.grp) = Null /\ Buf("a", Lead.grp + 1) = Null
        BY DEF Buf
      <4> QED BY <1>1, <3>2, <4>1, <4>2, <4>3, <4>4 DEF SourceHolds, Kinds
    <3> QED BY <3>1, <3>2
  <2>2. ASSUME NEW p \in Members(comm)'
        PROVE  /\ proc'[p].own = Structures
               /\ \A k \in Kinds : /\ proc'[p].app[k] = (IF IsKid(p)' THEN Null ELSE Buf(k, Lead.grp)')
                                  /\ proc'[p].reg[k].array = Buf(k, Lead.grp + 1)'
    <3>1. BuffersAre(proc[p], proc'[p])
      BY <1>6, <2>2
    <3>2. \A k, g : Buf(k, g)' = Buf(k, g)
      BY <1>1 DEF Buf
    <3>3. Lead'.grp = Lead.grp
      BY <1>9
    <3> QED BY <1>1, <1>3, <2>1, <2>2, <3>1, <3>2, <3>3 DEF BuffersAre, Buf
  <2> QED BY <2>2, Zenon DEF GroupHolds
<1>17. faults' \subseteq Faults
  BY <1>1, CommitLeaks DEF Buffers
<1>18. Buffers'
  BY <1>1, <1>3, <1>15, <1>16, <1>17 DEF Buffers, SourcesHold, KidsHold, EndHolds
<1>19. Requests'
  BY <1>3 DEF Requests
<1>20. Records'
  <2>1. Taken(Lead'.times, Lead'.grp + 1)
    <3>1. Committed(comm'[1], proc[comm'[1]], Lead')
      BY <1>2, <1>5, <1>7
    <3>2. Taken(Lead'.times, Lead.grp + 1)
      BY <3>1, LeadTimes
    <3> QED BY <1>9, <3>2
  <2>2. Recorded(Lead'.final, Lead'.grp)
    BY <1>1, <1>9 DEF Records, GroupRecords, Recorded, Reconf
  <2>3. GroupRecords'
    BY <1>1, <2>1, <2>2, Zenon DEF GroupRecords
  <2> QED BY <1>3, <2>3 DEF Records, RootTimes, KidsRecord
<1> QED BY <1>10, <1>11, <1>12, <1>13, <1>14, <1>18, <1>19, <1>20 DEF Inv

(* A process of the next group when it is back in main.                     *)
Updated(p, q, r) ==
  /\ r \in Process /\ r.grp = q.grp + 1 /\ r.phase = q.phase /\ r.start_phase = q.phase
  /\ r.iter = q.iter /\ r.exec = 0 /\ r.idx = (IF IsKid(p) THEN q.idx ELSE Reset(q))
  /\ r.own = q.own /\ r.reg = q.reg /\ r.final = q.final /\ r.times = q.times
  /\ r.heap = q.heap \ {q.app[k] : k \in conf.data}
  /\ r.app = [k \in Kinds |-> IF k \in conf.data THEN q.reg[k].array ELSE Null]

(* What a process has after update_targets.                                 *)
LEMMA UpdatedIs ==
  ASSUME NEW p, NEW q \in Process, NEW r,
         r = UpdateTargets(IF IsKid(p) THEN q ELSE [q EXCEPT !.idx = Reset(q)])
  PROVE  Updated(p, q, r)
<1> DEFINE idx == IF IsKid(p) THEN q.idx ELSE Reset(q)
           u == IF IsKid(p) THEN q ELSE [q EXCEPT !.idx = Reset(q)]
           grp == q.grp + 1
           phase == q.phase
           heap == q.heap \ {q.app[k] : k \in conf.data}
           app == [k \in Kinds |-> IF k \in conf.data THEN q.reg[k].array ELSE Null]
<1>1. Reset(q) \in [PhaseIds -> Nat]
  <2>1. q.idx \in [PhaseIds -> Nat]
    BY ProcessIs
  <2> QED BY <2>1 DEF Reset
<1>2. u = [q EXCEPT !.idx = idx]
  <2>1. CASE IsKid(p)
    <3>1. idx = q.idx /\ u = q
      BY <2>1
    <3> HIDE DEF idx, u
    <3>2. q = [q EXCEPT !.idx = q.idx]
      BY ZenonT(40) DEF Process
    <3> QED BY <3>1, <3>2
  <2>2. CASE ~IsKid(p)
    BY <2>2
  <2> QED BY <2>1, <2>2
<1>3. /\ idx \in [PhaseIds -> Nat] /\ grp \in Nat /\ phase \in 0 .. Phases /\ 0 \in Nat
      /\ heap \in SUBSET (Kinds \X Nat) /\ app \in [Kinds -> Buffer]
  <2>1. idx \in [PhaseIds -> Nat] /\ grp \in Nat /\ phase \in 0 .. Phases /\ heap \in SUBSET (Kinds \X Nat)
    BY <1>1, ProcessIs
  <2>2. app \in [Kinds -> Buffer]
    <3>1. \A k \in Kinds : q.reg[k].array \in Buffer
      BY RegistryIs
    <3> QED BY <3>1 DEF Buffer
  <2> QED BY <2>1, <2>2
<1> HIDE DEF idx, u
<1>4. /\ u \in Process /\ u.grp = q.grp /\ u.phase = phase /\ u.iter = q.iter /\ u.idx = idx
      /\ u.own = q.own /\ u.reg = q.reg /\ u.final = q.final /\ u.times = q.times
      /\ u.heap = q.heap /\ u.app = q.app
  <2> HIDE DEF heap, app
  <2> QED BY <1>2, <1>3, ZenonT(40) DEF Process
<1>5. r = [u EXCEPT !.grp = grp, !.start_phase = phase, !.exec = 0, !.heap = heap, !.app = app]
  <2>1. r = UpdateTargets(u)
    BY DEF u
  <2>2. r = [u EXCEPT !.grp = u.grp + 1, !.start_phase = u.phase, !.exec = 0,
                      !.heap = u.heap \ {u.app[k] : k \in conf.data},
                      !.app = [k \in Kinds |-> IF k \in conf.data THEN u.reg[k].array ELSE Null]]
    BY <2>1, Zenon DEF UpdateTargets, GetPointer
  <2> QED BY <1>4, <2>2
<1> HIDE DEF grp, phase, heap, app
<1> DEFINE z == [u EXCEPT !.grp = grp, !.start_phase = phase, !.exec = 0]
<1>6. /\ z \in Process /\ z.grp = grp /\ z.phase = u.phase /\ z.start_phase = phase
      /\ z.iter = u.iter /\ z.exec = 0 /\ z.idx = u.idx
      /\ z.own = u.own /\ z.reg = u.reg /\ z.final = u.final /\ z.times = u.times
  BY <1>3, <1>4, ZenonT(40) DEF Process
<1>7. r = [z EXCEPT !.heap = heap, !.app = app]
  BY <1>5, ZenonT(40) DEF Process
<1> HIDE DEF z
<1>8. /\ r \in Process /\ r.grp = z.grp /\ r.phase = z.phase /\ r.start_phase = z.start_phase
      /\ r.iter = z.iter /\ r.exec = z.exec /\ r.idx = z.idx
      /\ r.own = z.own /\ r.reg = z.reg /\ r.final = z.final /\ r.times = z.times
      /\ r.heap = heap /\ r.app = app
  BY <1>3, <1>6, <1>7, ZenonT(40) DEF Process
<1> QED BY <1>4, <1>6, <1>8 DEF grp, phase, heap, app, idx, Updated

(* The row that the survivors reset.                                        *)
LEMMA AfterAccesses ==
  ASSUME Types, Groupings, After
  PROVE  Accessed
<1> DEFINE rows == IF \A p \in Members(comm) : IsKid(p) THEN {} ELSE {Lead.phase}
<1>1. Lead.phase \in Nat
  BY LeadIs
<1>2. \A x \in rows : x \in Nat /\ x <= Lead.phase
  BY <1>1
<1>3. Access(rows)
  BY DEF After
<1> HIDE DEF rows
<1> QED BY <1>2, <1>3, AccessIs

(* The group that starts.                                                   *)
LEMMA AfterStep ==
  ASSUME Inv, After
  PROVE  Inv'
<1>1. /\ pc = "after" /\ pc' = "top" /\ ~Reconf /\ ~Reconf' /\ kids' = <<>>
      /\ UNCHANGED <<conf, manager, comm, kpc, wire, thread, printed>>
      /\ UNCHANGED <<state, out, waiting>>
      /\ Types /\ Groupings /\ Control /\ Work /\ Buffers /\ Records /\ Printed
  BY DEF Inv, After, Reconf, manager
<1>2. /\ Members(kids) \subseteq Members(comm) /\ DOMAIN proc = Members(comm) /\ Len(comm) = Resize.procs
      /\ \A x \in DOMAIN comm : comm[x][1] <= Lead.grp + 1
      /\ Lead.grp < Groups - 1
      /\ comm[1] \in Members(comm) /\ \A p \in Members(comm) : proc[p] \in Process
  <2>1. Members(kids) \subseteq Members(comm)
    BY <1>1 DEF Groupings
  <2>2. DOMAIN proc = Members(comm) \cup Members(kids)
    BY <1>1, GroupIs
  <2>3. DOMAIN proc = Members(comm)
    BY <2>1, <2>2
  <2>4. Len(comm) = Resize.procs /\ Lead.grp < Groups - 1 /\ \A x \in DOMAIN comm : comm[x][1] <= Lead.grp + 1
    BY <1>1 DEF Groupings
  <2> QED BY <1>1, <2>1, <2>3, <2>4, GroupIs
<1>3. state = "NOT_STARTED" /\ kpc = "none" /\ wire = <<>> /\ thread = "none"
  BY <1>1 DEF Control
<1>4. Members(kids)' = {} /\ Members(comm)' = Members(comm) /\ \A p : ~IsKid(p)'
  BY <1>1 DEF Members, IsKid
<1>5. /\ DOMAIN proc' = Members(comm) /\ proc' = [p \in Members(comm) |-> proc'[p]]
      /\ \A p \in Members(comm) :
           proc'[p] = UpdateTargets(IF IsKid(p) THEN proc[p] ELSE [proc[p] EXCEPT !.idx = Reset(proc[p])])
  BY <1>2 DEF After
<1>6. ASSUME NEW p \in Members(comm) PROVE Updated(p, proc[p], proc'[p])
  BY <1>2, <1>5, <1>6, UpdatedIs
<1>7. ASSUME NEW p \in Members(comm)
      PROVE  /\ proc'[p] \in Process /\ proc'[p].grp = Lead.grp + 1 /\ proc'[p].phase = Lead.phase
             /\ proc'[p].start_phase = Lead.phase /\ proc'[p].iter = Lead.iter /\ proc'[p].exec = 0
             /\ \A x \in PhaseIds : x >= Lead.phase => proc'[p].idx[x] = 0
             /\ proc'[p].final = proc[p].final /\ proc'[p].times = proc[p].times
  <2>1. Updated(p, proc[p], proc'[p])
    BY <1>6, <1>7
  <2>2. /\ AsLead(proc[p]) /\ \A x \in PhaseIds : x > Lead.phase => proc[p].idx[x] = 0
        /\ IsKid(p) => \A x \in PhaseIds : proc[p].idx[x] = 0
    BY <1>1, <1>7 DEF Work
  <2>3. /\ proc'[p] \in Process /\ proc'[p].grp = Lead.grp + 1 /\ proc'[p].phase = Lead.phase
        /\ proc'[p].start_phase = Lead.phase /\ proc'[p].iter = Lead.iter /\ proc'[p].exec = 0
        /\ proc'[p].final = proc[p].final /\ proc'[p].times = proc[p].times
        /\ proc'[p].idx = (IF IsKid(p) THEN proc[p].idx ELSE Reset(proc[p])) /\ proc[p].phase = Lead.phase
    BY <2>1, <2>2 DEF Updated, AsLead
  <2>4. \A x \in PhaseIds : x >= Lead.phase => proc'[p].idx[x] = 0
    <3>1. CASE IsKid(p)
      BY <2>2, <2>3, <3>1
    <3>2. CASE ~IsKid(p)
      <4>1. \A x \in PhaseIds : proc'[p].idx[x] = IF x = Lead.phase THEN 0 ELSE proc[p].idx[x]
        BY <2>3, <3>2 DEF Reset
      <4>2. \A x \in PhaseIds : x >= Lead.phase => x = Lead.phase \/ x > Lead.phase
        BY <1>1, LeadIs
      <4> QED BY <2>2, <4>1, <4>2
    <3> QED BY <3>1, <3>2
  <2> QED BY <2>3, <2>4
<1>8. Lead' = proc'[comm[1]] /\ Lead = proc[comm[1]] /\ comm[1] \in Members(comm)
  BY <1>1, <1>2 DEF Lead
<1>9. /\ Lead'.grp = Lead.grp + 1 /\ Lead'.phase = Lead.phase /\ Lead'.start_phase = Lead.phase
      /\ Lead'.iter = Lead.iter /\ Lead'.exec = 0 /\ \A x \in PhaseIds : x >= Lead.phase => Lead'.idx[x] = 0
      /\ Lead'.final = Lead.final /\ Lead'.times = Lead.times /\ Lead.grp \in Nat /\ Lead.phase \in Nat
      /\ Groups \in Nat /\ Groups > 1
  <2>1. /\ Lead'.grp = Lead.grp + 1 /\ Lead'.phase = Lead.phase /\ Lead'.start_phase = Lead.phase
        /\ Lead'.iter = Lead.iter /\ Lead'.exec = 0 /\ \A x \in PhaseIds : x >= Lead.phase => Lead'.idx[x] = 0
    BY <1>7, <1>8
  <2>2. Lead'.final = Lead.final /\ Lead'.times = Lead.times
    BY <1>7, <1>8
  <2>3. Lead.grp \in Nat /\ Lead.phase \in Nat /\ Groups \in Nat
    BY <1>1, LeadIs, ConfIs DEF Types
  <2> QED BY <1>2, <2>1, <2>2, <2>3
<1>10. Types'
  <2>1. \A p \in Members(comm) : proc'[p] \in Process
    BY <1>7
  <2>2. proc' \in [Members(comm) -> Process]
    BY <1>5, <2>1
  <2>3. kids' \in Seq(Nat \X Nat)
    BY <1>1
  <2> QED BY <1>1, <1>4, <2>2, <2>3 DEF Types
<1>11. Groupings'
  <2>1. Len(comm) >= 1 /\ \A x, y \in DOMAIN comm : comm[x] = comm[y] => x = y
    BY <1>1 DEF Groupings
  <2>2. Lead'.grp # 0 /\ Lead'.grp < Groups /\ conf.resizes[Lead'.grp].procs = Len(comm)
    BY <1>2, <1>9 DEF Resize
  <2>3. DOMAIN kids' = {}
    BY <1>1
  <2> QED BY <1>1, <1>2, <1>9, <2>1, <2>2, <2>3 DEF Groupings
<1>12. Control' /\ Channel'
  BY <1>1, <1>3 DEF Control, Channel, NotSent
<1>13. Work'
  <2>1. QtyIters' = QtyIters /\ Working' = Working
    BY <1>1, <1>9 DEF QtyIters, Working
  <2>2. Lead'.iter <= (IF Working' THEN QtyIters' ELSE 0)
    BY <1>1, <1>9, <2>1 DEF Work
  <2>3. ASSUME NEW p \in Members(comm) PROVE Beside(proc[p])'
    BY <1>1, <1>7, <1>9, <2>3 DEF Beside, AsLead
  <2>4. Lead'.start_phase = Lead'.phase /\ \A x \in PhaseIds : x >= Lead'.phase => Lead'.idx[x] = 0
    BY <1>9
  <2>5. Lead'.start_phase <= Lead'.phase /\ \A x \in PhaseIds : x > Lead'.phase => Lead'.idx[x] = 0
    <3>1. \A x \in PhaseIds : x > Lead.phase => x >= Lead.phase
      BY <1>1, LeadIs
    <3> QED BY <1>9, <3>1
  <2> QED BY <1>1, <1>4, <2>2, <2>3, <2>4, <2>5 DEF Work
<1>14. Printed'
  <2>1. ASSUME NEW x \in PhaseIds PROVE printed'[x] + Unprinted(x)' = Made(x)'
    <3>1. printed[x] + Unprinted(x) = Made(x)
      BY <1>1, <2>1 DEF Printed
    <3>2. Unprinted(x) = 0 /\ Made(x)' = Made(x)
      BY <1>1, <1>9 DEF Unprinted, Made
    <3>3. Unprinted(x)' = 0
      BY <1>1, <1>3, <1>9, <2>1 DEF Unprinted, Shown, Split
    <3> QED BY <1>1, <3>1, <3>2, <3>3
  <2> QED BY <2>1 DEF Printed
<1>15. ASSUME NEW p \in Members(comm)
       PROVE  /\ proc'[p].heap = Held(proc'[p]) /\ proc'[p].own = Structures
              /\ \A k \in Kinds : /\ proc'[p].app[k] = Buf(k, Lead.grp + 1)
                                  /\ proc'[p].reg[k].array = Buf(k, Lead.grp + 1)
  <2>1. /\ proc[p].own = Structures
        /\ \A k \in Kinds : /\ proc[p].app[k] = (IF IsKid(p) THEN Null ELSE Buf(k, Lead.grp))
                            /\ proc[p].reg[k].array = Buf(k, Lead.grp + 1)
        /\ proc[p].heap = Held(proc[p])
    BY <1>1, <1>2, <1>15 DEF Buffers, HeapsHold, GroupHolds
  <2>2. /\ proc'[p].own = proc[p].own /\ proc'[p].reg = proc[p].reg
        /\ proc'[p].heap = proc[p].heap \ {proc[p].app[k] : k \in conf.data}
        /\ \A k \in Kinds : proc'[p].app[k] = IF k \in conf.data THEN proc[p].reg[k].array ELSE Null
    <3>1. Updated(p, proc[p], proc'[p])
      BY <1>6, <1>15
    <3> QED BY <3>1 DEF Updated
  <2>3. \A k \in Kinds : k \notin conf.data => Buf(k, Lead.grp + 1) = Null /\ Buf(k, Lead.grp) = Null
    BY DEF Buf
  <2>4. \A k \in Kinds : /\ proc'[p].app[k] = Buf(k, Lead.grp + 1)
                         /\ proc'[p].reg[k].array = Buf(k, Lead.grp + 1)
    BY <2>1, <2>2, <2>3
  <2>5. proc'[p].heap = Held(proc'[p])
    <3>1. conf.data \subseteq Kinds
      BY <1>1, ConfIs DEF Types
    <3>2. \A k, j \in Kinds : k \in conf.data => Buf(k, Lead.grp + 1) # Null /\ Buf(k, Lead.grp + 1) # Buf(j, Lead.grp)
      BY <1>9 DEF Buf, Null
    <3>3. Held(proc'[p]) = {Buf(k, Lead.grp + 1) : k \in Kinds} \ {Null}
      BY <2>4 DEF Held
    <3>4. Held(proc[p]) = ({proc[p].app[k] : k \in Kinds} \cup {Buf(k, Lead.grp + 1) : k \in Kinds}) \ {Null}
      BY <2>1 DEF Held
    <3>5. {proc[p].app[k] : k \in Kinds} \ {Null} \subseteq {proc[p].app[k] : k \in conf.data}
      BY <2>1, <2>3
    <3>6. \A k \in Kinds, j \in conf.data : Buf(k, Lead.grp + 1) # Null => Buf(k, Lead.grp + 1) # proc[p].app[j]
      BY <2>1, <2>3, <3>1, <3>2
    <3>7. (({proc[p].app[k] : k \in Kinds} \cup {Buf(k, Lead.grp + 1) : k \in Kinds})
             \ {Null}) \ {proc[p].app[k] : k \in conf.data} = {Buf(k, Lead.grp + 1) : k \in Kinds} \ {Null}
      BY <3>5, <3>6
    <3> QED BY <2>1, <2>2, <3>3, <3>4, <3>7
  <2> QED BY <2>1, <2>2, <2>4, <2>5
<1>16. Buffers'
  <2>1. HeapsHold'
    BY <1>5, <1>15 DEF HeapsHold
  <2>2. ASSUME NEW p \in Members(comm)
        PROVE  SourceHolds(proc[p], Lead.grp, Gone(p), MovedA /\ ~Zombie(p), MovedS /\ ~Zombie(p))'
    <3>1. ~Gone(p)' /\ ~MovedA' /\ ~MovedS'
      BY <1>1 DEF Gone, MovedA, MovedS
    <3>2. \A k, g : Buf(k, g)' = Buf(k, g)
      BY <1>1 DEF Buf
    <3> QED BY <1>9, <1>15, <2>2, <3>1, <3>2 DEF SourceHolds, Buf
  <2>3. SourcesHold'
    BY <1>4, <2>2, Zenon DEF SourcesHold
  <2>4. faults' \subseteq Faults
    BY <1>1, AfterAccesses, AccessedFaults
  <2> QED BY <1>1, <2>1, <2>3, <2>4 DEF Buffers, KidsHold, GroupHolds, EndHolds
<1>17. Requests'
  BY <1>1 DEF Requests
<1>18. Records'
  <2>1. Recorded(Lead.final, Lead.grp) /\ Taken(Lead.times, Lead.grp + 1)
    BY <1>1 DEF Records, GroupRecords
  <2>2. Lead'.grp - 1 = Lead.grp
    BY <1>9
  <2>3. Recorded(Lead'.final, Lead'.grp - 1) /\ Taken(Lead'.times, Lead'.grp)
    BY <1>9, <2>1, <2>2
  <2>4. GroupRecords'
    BY <1>1, <2>3 DEF GroupRecords
  <2> QED BY <1>1, <2>4 DEF Records, RootTimes, KidsRecord
<1> QED BY <1>10, <1>11, <1>12, <1>13, <1>14, <1>16, <1>17, <1>18 DEF Inv

-----------------------------------------------------------------------------
(* The start.                                                               *)

(* A process at the start.                                                  *)
LEMMA OriginalIs ==
  ASSUME conf \in Confs, NEW q, q = InitOriginals(Original(conf.data))
  PROVE  /\ q \in Process /\ q.grp = 0 /\ q.phase = 0 /\ q.start_phase = 0 /\ q.iter = 0 /\ q.exec = 0
         /\ q.from = 0 /\ q.own = Structures /\ \A x \in PhaseIds : q.idx[x] = 0
         /\ q.heap = {<<k, 0>> : k \in conf.data}
         /\ \A k \in Kinds : /\ q.app[k] = Buf(k, 0)
                             /\ q.reg[k].array = IF Groups > 1 THEN Buf(k, 0) ELSE Null
<1> DEFINE idx == Results.idx
           final == Results.final
           null == [k \in Kinds |-> Null]
           none == [k \in Kinds |-> NoEntry]
           heap == {<<k, 0>> : k \in conf.data}
           app == [k \in Kinds |-> IF k \in conf.data THEN <<k, 0>> ELSE Null]
           reg == [k \in Kinds |-> IF Groups > 1 /\ app[k] # Null THEN AddData(app[k], k) ELSE NoEntry]
           f == [grp |-> 0, phase |-> 0, start_phase |-> 0, iter |-> 0, exec |-> 0, from |-> 0,
                 idx |-> idx, final |-> final, own |-> {"group"},
                 reg |-> none, app |-> null, heap |-> {}, times |-> NoTimes]
           o == [f EXCEPT !.own = Structures, !.heap = heap, !.app = app]
<1>1. /\ Phases \in Nat \ {0} /\ conf.data \in SUBSET Kinds /\ Groups \in Nat
  BY ConfIs
<1>2. /\ idx \in [PhaseIds -> Nat] /\ final \in Finals /\ \A x \in PhaseIds : idx[x] = 0
  BY DEF Results, Finals
<1>3. NoTimes \in [TimeFields -> Nat]
  BY DEF NoTimes
<1>4. /\ null \in [Kinds -> Buffer] /\ none \in Registry /\ app \in [Kinds -> Buffer]
      /\ heap \in SUBSET (Kinds \X Nat) /\ Structures \in SUBSET Structures /\ {"group"} \in SUBSET Structures
      /\ 0 \in 0 .. Phases /\ 0 \in Nat
  BY <1>1 DEF Buffer, Registry, NoEntry, Structures
<1>5. \A k \in Kinds : app[k] = Buf(k, 0) /\ (app[k] # Null <=> k \in conf.data)
  BY DEF Buf, Null
<1>6. reg \in Registry
  <2>1. \A k \in Kinds : app[k] \in Buffer /\ (IF k = "a" THEN 1 ELSE 0) \in Nat
    BY <1>4
  <2>2. \A k \in Kinds : reg[k] \in [array : Buffer, slots : Nat]
    BY <2>1 DEF AddData, Entry, NoEntry, Buffer
  <2> QED BY <2>2 DEF Registry
<1>7. \A k \in Kinds : reg[k].array = IF Groups > 1 THEN Buf(k, 0) ELSE Null
  BY <1>5 DEF AddData, Entry, NoEntry
<1>8. q = [o EXCEPT !.reg = reg]
  <2>1. Fresh = f
    BY DEF Fresh
  <2>2. Original(conf.data) = o
    BY <2>1, Zenon DEF Original
  <2>3. o.app = app
    OBVIOUS
  <2> HIDE DEF o, f, app
  <2> QED BY <2>2, <2>3, Zenon DEF InitOriginals
<1> HIDE DEF idx, final, null, none, heap, app, reg
<1>9. /\ f \in Process /\ f.grp = 0 /\ f.phase = 0 /\ f.start_phase = 0 /\ f.iter = 0 /\ f.exec = 0
      /\ f.from = 0 /\ f.idx = idx
  BY <1>2, <1>3, <1>4, ZenonT(40) DEF Process
<1> HIDE DEF f
<1>10. /\ o \in Process /\ o.grp = 0 /\ o.phase = 0 /\ o.start_phase = 0 /\ o.iter = 0 /\ o.exec = 0
       /\ o.from = 0 /\ o.idx = idx /\ o.own = Structures /\ o.heap = heap /\ o.app = app
  BY <1>4, <1>9, ZenonT(40) DEF Process
<1> HIDE DEF o
<1>11. /\ q \in Process /\ q.grp = 0 /\ q.phase = 0 /\ q.start_phase = 0 /\ q.iter = 0 /\ q.exec = 0
       /\ q.from = 0 /\ q.idx = idx /\ q.own = Structures /\ q.heap = heap /\ q.app = app /\ q.reg = reg
  BY <1>6, <1>8, <1>10, ZenonT(40) DEF Process
<1> QED BY <1>2, <1>5, <1>7, <1>11 DEF heap

(* The invariant holds at the start.                                        *)
LEMMA InitInv == Init => Inv
<1> SUFFICES ASSUME Init PROVE Inv
  OBVIOUS
<1> DEFINE q == InitOriginals(Original(conf.data))
<1>1. /\ conf \in Confs /\ pc = "top" /\ state = "NOT_STARTED" /\ out = "NOT_STARTED" /\ waiting = FALSE
      /\ comm = [r \in 1 .. conf.procs |-> <<0, r>>]
      /\ kids = <<>> /\ kpc = "none" /\ wire = <<>> /\ thread = "none"
      /\ proc = [p \in Members(comm) |-> q]
      /\ printed = [x \in PhaseIds |-> 0] /\ faults = {}
  BY DEF Init
<1>2. /\ conf.procs \in Nat \ {0} /\ Groups \in Nat \ {0} /\ Phases \in Nat \ {0}
      /\ conf.qty_iters \in [PhaseIds -> Nat \ {0}]
  BY <1>1, ConfIs
<1>3. /\ q \in Process /\ q.grp = 0 /\ q.phase = 0 /\ q.start_phase = 0 /\ q.iter = 0 /\ q.exec = 0
      /\ q.from = 0 /\ q.own = Structures /\ \A x \in PhaseIds : q.idx[x] = 0
      /\ q.heap = {<<k, 0>> : k \in conf.data}
      /\ \A k \in Kinds : /\ q.app[k] = Buf(k, 0)
                          /\ q.reg[k].array = IF Groups > 1 THEN Buf(k, 0) ELSE Null
  BY <1>1, OriginalIs
<1> HIDE DEF q
<1>4. /\ DOMAIN comm = 1 .. conf.procs /\ \A x \in 1 .. conf.procs : comm[x] = <<0, x>>
      /\ comm \in Seq(Nat \X Nat) /\ Len(comm) = conf.procs
  <2>1. PICK n \in Nat : n = conf.procs
    BY <1>2
  <2>2. comm = [r \in 1 .. n |-> <<0, r>>]
    BY <1>1, <2>1
  <2>3. /\ DOMAIN comm = 1 .. n /\ \A x \in 1 .. n : comm[x] = <<0, x>> /\ comm[x] \in Nat \X Nat
    BY <2>2
  <2>4. comm \in Seq(Nat \X Nat) /\ Len(comm) = n
    BY <2>2, <2>3
  <2> QED BY <2>1, <2>3, <2>4
<1>5. /\ comm[1] \in Members(comm) /\ DOMAIN proc = Members(comm) /\ \A p \in Members(comm) : proc[p] = q
      /\ Members(kids) = {} /\ \A p : ~IsKid(p)
  <2>1. 1 \in DOMAIN comm /\ comm[1] \in Members(comm)
    BY <1>2, <1>4 DEF Members
  <2>2. DOMAIN proc = Members(comm) /\ \A p \in Members(comm) : proc[p] = q
    BY <1>1
  <2>3. DOMAIN kids = {}
    BY <1>1
  <2>4. Members(kids) = {} /\ \A p : ~IsKid(p)
    BY <2>3 DEF Members, IsKid
  <2> QED BY <2>1, <2>2, <2>4
<1>6. Lead = q
  BY <1>5 DEF Lead
<1>7. Types
  <2>1. proc \in [Members(comm) -> Process]
    BY <1>1, <1>3
  <2>2. kids \in Seq(Nat \X Nat) /\ printed \in [PhaseIds -> Nat]
    BY <1>1
  <2> QED BY <1>1, <1>4, <1>5, <2>1, <2>2 DEF Types
<1>8. Groupings
  <2>1. \A x, y \in DOMAIN comm : comm[x] = comm[y] => x = y
    BY <1>4
  <2>2. \A x \in DOMAIN comm : comm[x][1] <= 0
    BY <1>4
  <2>3. DOMAIN kids = {} /\ ~Reconf /\ pc # "after"
    BY <1>1 DEF Reconf
  <2> QED BY <1>2, <1>3, <1>4, <1>6, <2>1, <2>2, <2>3 DEF Groupings
<1>9. Control /\ Channel
  BY <1>1 DEF Control, Channel, Reconf, NotSent
<1>10. Work
  <2>1. 0 \in PhaseIds /\ conf.qty_iters[0] \in Nat
    BY <1>2 DEF PhaseIds
  <2>2. Lead.iter <= IF Working THEN QtyIters ELSE 0
    BY <1>3, <1>6, <2>1 DEF Working, QtyIters
  <2>3. \A p \in Members(comm) : Beside(proc[p])
    BY <1>1, <1>3, <1>5, <1>6 DEF Beside, AsLead
  <2>4. ~Reconf
    BY <1>1 DEF Reconf
  <2> QED BY <1>1, <1>3, <1>6, <2>2, <2>3, <2>4 DEF Work
<1>11. Printed
  <2>1. ASSUME NEW x \in PhaseIds PROVE printed[x] + Unprinted(x) = Made(x)
    <3>1. printed[x] = 0 /\ x \in Nat
      BY <1>1, <2>1 DEF PhaseIds
    <3>2. Unprinted(x) = 0
      BY <1>1, <1>3, <1>6, <2>1 DEF Unprinted
    <3>3. Made(x) = 0
      BY <1>3, <1>6, <3>1 DEF Made
    <3> QED BY <3>1, <3>2, <3>3
  <2> QED BY <2>1 DEF Printed
<1>12. Buffers
  <2>1. conf.data \subseteq Kinds
    BY <1>1, ConfIs
  <2>2. Held(q) = {<<k, 0>> : k \in conf.data}
    <3>1. Held(q) = {Buf(k, 0) : k \in Kinds} \ {Null}
      BY <1>3 DEF Held
    <3>2. {Buf(k, 0) : k \in Kinds} \ {Null} = {<<k, 0>> : k \in conf.data}
      BY <2>1 DEF Buf, Null
    <3> QED BY <3>1, <3>2
  <2>3. HeapsHold
    BY <1>3, <1>5, <2>2 DEF HeapsHold
  <2>4. SourceHolds(q, 0, FALSE, FALSE, FALSE)
    BY <1>3 DEF SourceHolds
  <2>5. ~MovedA /\ ~MovedS /\ \A p : ~Gone(p)
    BY <1>1 DEF MovedA, MovedS, Gone, Reconf
  <2>6. SourcesHold
    <3>1. ASSUME NEW p \in Members(comm)
          PROVE SourceHolds(proc[p], Lead.grp, Gone(p), MovedA /\ ~Zombie(p), MovedS /\ ~Zombie(p))
      BY <1>3, <1>5, <1>6, <2>4, <2>5, <3>1 DEF SourceHolds
    <3> QED BY <3>1 DEF SourcesHold
  <2> QED BY <1>1, <2>3, <2>6 DEF Buffers, KidsHold, GroupHolds, EndHolds, Reconf
<1>13. Requests
  BY <1>1 DEF Requests, Reconf
<1>14. Records
  <2>1. Recorded(Lead.final, Lead.grp - 1)
    BY <1>3, <1>6 DEF Recorded
  <2> QED BY <1>1, <1>3, <1>6, <2>1 DEF Records, GroupRecords, RootTimes, KidsRecord, Reconf
<1> QED BY <1>7, <1>8, <1>9, <1>10, <1>11, <1>12, <1>13, <1>14 DEF Inv

(* Nothing happens.                                                         *)
LEMMA StutterStep ==
  ASSUME Inv, UNCHANGED vars
  PROVE  Inv'
<1>1. /\ UNCHANGED <<conf, pc, state, out, waiting, comm, kids, kpc, wire, thread, proc, printed, faults>>
  BY DEF vars, manager, children
<1>2. /\ Lead' = Lead /\ Members(comm)' = Members(comm) /\ Members(kids)' = Members(kids)
      /\ \A p : IsKid(p)' <=> IsKid(p)
  BY <1>1 DEF Lead, Members, IsKid
<1>3. /\ Resize' = Resize /\ numC' = numC /\ numP' = numP /\ LastGroup' = LastGroup
      /\ Merge' = Merge /\ Shrinks' = Shrinks /\ Blocking' = Blocking
      /\ \A p : Zombie(p)' = Zombie(p)
      /\ NewKids' = NewKids
  BY <1>1, <1>2, ResizeStays
<1>4. Types /\ Groupings /\ Control /\ Channel /\ Work /\ Printed /\ Buffers /\ Requests /\ Records
  BY DEF Inv
<1>5. Types' /\ Groupings'
  BY <1>1, <1>2, <1>3, <1>4 DEF Types, Groupings, Reconf
<1>6. Control'
  BY <1>1, <1>2, <1>3, <1>4 DEF Control, Reconf, NoKids
<1>7. Channel'
  <2>1. UserMsg' = UserMsg /\ \A k, n : Entries(k, n)' = Entries(k, n)
    BY <1>1, <1>2 DEF UserMsg, Entries, Info, DataSent
  <2> QED BY <1>1, <1>4, <2>1 DEF Channel, Reconf, Arriving, DataSent
<1>8. Work'
  BY <1>1, <1>2, <1>3, <1>4 DEF Work, Beside, AsLead, Working, QtyIters, Reconf
<1>9. Printed'
  BY <1>1, <1>2, <1>4 DEF Printed, Unprinted, Made
<1>10. Buffers'
  BY <1>1, <1>2, <1>3, <1>4
     DEF Buffers, HeapsHold, SourcesHold, KidsHold, GroupHolds, EndHolds, SourceHolds, KidHolds,
         Gone, MovedA, MovedS, KidHasA, KidHasS, Buf, Reconf
<1>11. Requests'
  <2>1. Stays
    BY <1>1, <1>2 DEF Stays
  <2>2. \A p : Fits(p)' <=> Fits(p)
    BY <1>1, <1>4, <2>1, PostedStays DEF Fits
  <2> QED BY <1>1, <1>2, <1>3, <1>4, <2>2 DEF Requests, Reconf, KidHasA
<1>12. Records'
  BY <1>1, <1>2, <1>3, <1>4
     DEF Records, GroupRecords, RootTimes, KidsRecord, SourceTimes, KidTimes, Set, Reconf, KidHasA, KidHasS
<1> QED BY <1>5, <1>6, <1>7, <1>8, <1>9, <1>10, <1>11, <1>12 DEF Inv

(* Every action preserves the invariant.                                    *)
LEMMA NextInv ==
  ASSUME Inv, [Next]_vars
  PROVE  Inv'
<1>1. CASE Top
  BY <1>1, TopStep
<1>2. CASE NormalIter
  BY <1>2, NormalIterStep
<1>3. CASE NormalStop
  BY <1>3, NormalStopStep
<1>4. CASE NormalPhase
  BY <1>4, NormalPhaseStep
<1>5. CASE NormalEnd
  BY <1>5, NormalEndStep
<1>6. CASE Decide
  BY <1>6, DecideStep
<1>7. CASE Finish
  BY <1>7, FinishStep
<1>8. CASE ReconfIter
  BY <1>8, ReconfIterStep
<1>9. CASE ReconfPhase
  BY <1>9, ReconfPhaseStep
<1>10. CASE ReconfWait
  BY <1>10, ReconfWaitStep
<1>11. CASE After
  BY <1>11, AfterStep
<1>12. CASE StRms
  BY <1>12, StRmsStep
<1>13. CASE StSpawnStart
  BY <1>13, StSpawnStartStep
<1>14. CASE StSpawnPending
  BY <1>14, StSpawnPendingStep
<1>15. CASE StRedStart
  BY <1>15, StRedStartStep
<1>16. CASE StRedPending
  BY <1>16, StRedPendingStep
<1>17. CASE StUserStart
  BY <1>17, StUserStartStep
<1>18. CASE StUserPending
  BY <1>18, StUserPendingStep
<1>19. CASE StUserCompleted
  BY <1>19, StUserCompletedStep
<1>20. CASE StSpawnAdaptPending
  BY <1>20, StSpawnAdaptPendingStep
<1>21. CASE StCompleted
  BY <1>21, StCompletedStep
<1>22. CASE ThreadWork
  BY <1>22, ThreadWorkStep
<1>23. CASE ChildrenInit
  BY <1>23, KidInfoAStep, KidDataAStep, KidUserStep, KidInfoSStep, KidDataSStep DEF ChildrenInit
<1>24. CASE UNCHANGED vars
  BY <1>24, StutterStep
<1>25. Main => \/ Top \/ NormalIter \/ NormalStop \/ NormalPhase \/ NormalEnd \/ Decide \/ Finish
               \/ ReconfIter \/ ReconfPhase \/ ReconfWait \/ After
  BY DEF Main
<1>26. Checkpoint => \/ StRms \/ StSpawnStart \/ StSpawnPending \/ StRedStart \/ StRedPending
                     \/ StUserStart \/ StUserPending \/ StUserCompleted \/ StSpawnAdaptPending \/ StCompleted
  BY DEF Checkpoint
<1>27. Main \/ Checkpoint \/ ThreadWork \/ ChildrenInit \/ UNCHANGED vars
  BY DEF Next, Step, Done
<1>28. CASE Main
  BY <1>1, <1>2, <1>3, <1>4, <1>5, <1>6, <1>7, <1>8, <1>9, <1>10, <1>11, <1>25, <1>28, Zenon
<1>29. CASE Checkpoint
  BY <1>12, <1>13, <1>14, <1>15, <1>16, <1>17, <1>18, <1>19, <1>20, <1>21, <1>26, <1>29, Zenon
<1> QED BY <1>22, <1>23, <1>24, <1>27, <1>28, <1>29, Zenon

-----------------------------------------------------------------------------
(* What the invariant says of the application.                              *)

(* The invariant holds in every behaviour.                                  *)
THEOREM InvHolds == Spec => []Inv
<1>1. Init => Inv
  BY InitInv
<1>2. Inv /\ [Next]_vars => Inv'
  BY NextInv
<1> QED BY <1>1, <1>2, PTL DEF Spec

(* Survivors and children alike are at the same point of the work, with the *)
(* same iterations to be printed.                                           *)
THEOREM SameProgressHolds == Spec => []SameProgress
<1>1. ASSUME Inv PROVE SameProgress
  <2>1. ASSUME pc # "after", NEW p \in Members(comm)
        PROVE  LET q == proc[p]
               IN  /\ \A f \in {"grp", "phase", "iter", "exec", "start_phase"} : q[f] = Lead[f]
                   /\ \A x \in PhaseIds : x >= Lead.start_phase => q.idx[x] = Lead.idx[x]
    <3>1. Beside(proc[p])
      BY <1>1, <2>1 DEF Inv, Work
    <3> QED BY <3>1 DEF Beside, AsLead
  <2> QED BY <2>1 DEF SameProgress
<1> QED BY <1>1, InvHolds, PTL

(* No process loses a buffer or keeps a pointer to a freed one.             *)
THEOREM BuffersOwnedHolds == Spec => []BuffersOwned
<1>1. ASSUME Inv PROVE BuffersOwned
  <2>1. Types /\ Groupings /\ Control /\ Buffers
    BY <1>1 DEF Inv
  <2>2. \A p \in DOMAIN proc :
          proc[p].heap = ({proc[p].app[k] : k \in Kinds} \cup {proc[p].reg[k].array : k \in Kinds}) \ {Null}
    BY <2>1 DEF Buffers, HeapsHold, Held
  <2>3. ASSUME pc \notin {"checkpoint", "done"}, NEW p \in Members(comm) PROVE proc[p].own = Structures
    <3>1. CASE pc = "after"
      BY <2>1, <2>3, <3>1 DEF Buffers, GroupHolds
    <3>2. CASE pc # "after"
      <4>1. ~Gone(p)
        BY <2>1, <2>3 DEF Gone, Control, Reconf, Shown, Split
      <4>2. SourceHolds(proc[p], Lead.grp, Gone(p), MovedA /\ ~Zombie(p), MovedS /\ ~Zombie(p))
        BY <2>1, <2>3, <3>2 DEF Buffers, SourcesHold
      <4> QED BY <4>1, <4>2 DEF SourceHolds
    <3> QED BY <3>1, <3>2
  <2>4. ASSUME pc = "done", NEW p \in DOMAIN proc PROVE proc[p].own = {}
    <3>1. p \in Members(comm)
      BY <2>1, <2>4, GroupIs DEF Control, Reconf, Members
    <3> QED BY <2>1, <2>4, <3>1 DEF Buffers, EndHolds
  <2>5. "leak" \notin faults
    BY <2>1 DEF Buffers, Faults
  <2> QED BY <2>2, <2>3, <2>4, <2>5 DEF BuffersOwned
<1> QED BY <1>1, InvHolds, PTL

(* No process starts more requests than its entry has room for.             *)
THEOREM RequestsFitHolds == Spec => []RequestsFit
<1>1. ASSUME Inv PROVE RequestsFit
  <2>1. ASSUME state = "DIST_PENDING", ~Blocking, NEW p \in DOMAIN proc, IsKid(p) => kpc = "tmp"
        PROVE  Posted(p) <= proc[p].reg["a"].slots
    <3>1. Types /\ Groupings /\ Control /\ Requests
      BY <1>1 DEF Inv
    <3>2. Reconf /\ "a" \in conf.data
      BY <2>1, <3>1 DEF Control
    <3>3. p \in Members(comm) \/ (p \in Members(kids) /\ IsKid(p))
      BY <3>1, GroupIs
    <3> QED BY <2>1, <3>1, <3>2, <3>3 DEF Requests, Fits, NotSent, KidHasA
  <2> QED BY <2>1 DEF RequestsFit
<1> QED BY <1>1, InvHolds, PTL

(* The root holds the intervals of every resize so far, both ends taken in  *)
(* it.                                                                      *)
THEOREM MeasuredHolds == Spec => []Measured
<1>1. ASSUME Inv PROVE Measured
  BY <1>1 DEF Inv, Records, GroupRecords, Recorded, Measured
<1> QED BY <1>1, InvHolds, PTL

-----------------------------------------------------------------------------
(* SAM on MaM is a malleable application.                                   *)

(* The iterations of the phases before each phase.                          *)
LEMMA BeforeIs ==
  ASSUME conf \in Confs
  PROVE  /\ Before \in [0 .. Phases -> Nat] /\ Before[0] = 0
         /\ \A x \in PhaseIds : Before[x + 1] = Before[x] + conf.qty_iters[x]
<1> DEFINE qty == conf.qty_iters
           Adds(h, n) == h[0] = 0 /\ \A x \in 0 .. n - 1 : h[x + 1] = h[x] + qty[x]
           T == {n \in Nat : n <= Phases => \E h \in [0 .. n -> Nat] : Adds(h, n)}
<1>1. qty \in [PhaseIds -> Nat] /\ Phases \in Nat \ {0} /\ PhaseIds = 0 .. Phases - 1
  BY ConfIs DEF PhaseIds
<1> HIDE DEF qty
<1>2. 0 \in T
  <2> DEFINE h == [x \in 0 .. 0 |-> 0]
  <2>1. h \in [0 .. 0 -> Nat] /\ Adds(h, 0)
    OBVIOUS
  <2> QED BY <2>1
<1>3. ASSUME NEW n \in T PROVE n + 1 \in T
  <2>1. SUFFICES ASSUME n + 1 <= Phases PROVE \E h \in [0 .. n + 1 -> Nat] : Adds(h, n + 1)
    OBVIOUS
  <2>2. n \in Nat /\ n \in PhaseIds /\ qty[n] \in Nat
    BY <1>1, <2>1
  <2>3. PICK h \in [0 .. n -> Nat] : Adds(h, n)
    <3>1. n \in T /\ n <= Phases
      BY <1>1, <2>1, <2>2
    <3> HIDE DEF Adds
    <3> QED BY <3>1
  <2> DEFINE w == h[n] + qty[n]
             g == [x \in 0 .. n + 1 |-> IF x = n + 1 THEN w ELSE h[x]]
  <2>4. w \in Nat
    BY <2>2, <2>3
  <2>5. g \in [0 .. n + 1 -> Nat] /\ g[0] = 0 /\ g[n + 1] = w
    BY <2>2, <2>3, <2>4
  <2>6. ASSUME NEW x \in 0 .. (n + 1) - 1 PROVE g[x + 1] = g[x] + qty[x]
    <3>1. x \in 0 .. n /\ g[x] = h[x]
      BY <2>2
    <3>2. CASE x = n
      BY <2>5, <3>1, <3>2
    <3>3. CASE x # n
      <4>1. x \in 0 .. n - 1 /\ g[x + 1] = h[x + 1]
        BY <2>2, <3>1, <3>3
      <4> QED BY <2>3, <3>1, <4>1
    <3> QED BY <3>2, <3>3
  <2> QED BY <2>5, <2>6
<1>4. T = Nat
  <2>1. T \in SUBSET Nat
    OBVIOUS
  <2> HIDE DEF T
  <2> QED BY <1>2, <1>3, <2>1, Induct
<1>5. PICK w \in [0 .. Phases -> Nat] : Adds(w, Phases)
  <2>1. Phases \in Nat /\ Phases <= Phases
    BY <1>1
  <2>2. Phases \in T
    <3> HIDE DEF T
    <3> QED BY <1>4, <2>1
  <2> HIDE DEF Adds
  <2> QED BY <2>1, <2>2
<1> DEFINE Eq(s) == s = [x \in 0 .. Phases |-> IF x = 0 THEN 0 ELSE s[x - 1] + qty[x - 1]]
<1>6. Eq(w)
  <2>1. ASSUME NEW x \in 0 .. Phases PROVE w[x] = IF x = 0 THEN 0 ELSE w[x - 1] + qty[x - 1]
    <3>1. CASE x = 0
      BY <1>5, <3>1
    <3>2. CASE x # 0
      <4>1. x - 1 \in 0 .. Phases - 1 /\ (x - 1) + 1 = x
        BY <1>1, <3>2
      <4>2. w[(x - 1) + 1] = w[x - 1] + qty[x - 1]
        BY <1>5, <4>1
      <4> QED BY <3>2, <4>1, <4>2
    <3> QED BY <3>1, <3>2
  <2> QED BY <2>1
<1>7. Eq(Before)
  <2>1. Before = CHOOSE s : Eq(s)
    BY DEF Before, qty
  <2> HIDE DEF Eq
  <2> QED BY <1>6, <2>1, Zenon
<1>8. \A x \in 0 .. Phases : Before[x] = IF x = 0 THEN 0 ELSE Before[x - 1] + qty[x - 1]
  BY <1>7
<1>9. Before[0] = 0
  BY <1>1, <1>8
<1>10. ASSUME NEW x \in PhaseIds PROVE Before[x + 1] = Before[x] + qty[x]
  <2>1. x + 1 \in 0 .. Phases /\ x + 1 # 0 /\ (x + 1) - 1 = x
    BY <1>1
  <2> QED BY <1>8, <2>1
<1>11. Before \in [0 .. Phases -> Nat]
  <2>1. Before = [x \in 0 .. Phases |-> Before[x]]
    BY <1>7
  <2> DEFINE U == {n \in Nat : n <= Phases => Before[n] \in Nat}
  <2>2. 0 \in U
    BY <1>9
  <2>3. ASSUME NEW n \in U PROVE n + 1 \in U
    <3>1. ASSUME n + 1 <= Phases PROVE Before[n + 1] \in Nat
      <4>1. n \in PhaseIds /\ n <= Phases /\ n \in Nat
        BY <1>1, <3>1
      <4>2. Before[n] \in Nat /\ qty[n] \in Nat
        BY <1>1, <4>1
      <4>3. Before[n + 1] = Before[n] + qty[n]
        BY <1>10, <4>1
      <4> QED BY <4>2, <4>3
    <3> QED BY <3>1
  <2>4. U = Nat
    <3>1. U \in SUBSET Nat
      OBVIOUS
    <3> HIDE DEF U
    <3> QED BY <2>2, <2>3, <3>1, Induct
  <2>5. ASSUME NEW n \in 0 .. Phases PROVE Before[n] \in Nat
    <3>1. n \in Nat /\ n <= Phases
      BY <1>1
    <3>2. n \in U
      BY <2>4, <3>1
    <3> QED BY <3>1, <3>2
  <2> QED BY <2>1, <2>5
<1> QED BY <1>9, <1>10, <1>11 DEF qty

(* What is ahead of a phase does not shrink.                                *)
LEMMA WorkAhead ==
  ASSUME conf \in Confs, NEW x \in 0 .. Phases
  PROVE  Before[x] <= Before[Phases]
<1>1. /\ Before \in [0 .. Phases -> Nat]
      /\ \A y \in PhaseIds : Before[y + 1] = Before[y] + conf.qty_iters[y] /\ conf.qty_iters[y] \in Nat
      /\ Phases \in Nat /\ PhaseIds = 0 .. Phases - 1
  BY BeforeIs, ConfIs DEF PhaseIds
<1> DEFINE T == {n \in Nat : x + n <= Phases => Before[x] <= Before[x + n]}
<1>2. 0 \in T
  BY <1>1
<1>3. ASSUME NEW n \in T PROVE n + 1 \in T
  <2>1. ASSUME x + (n + 1) <= Phases PROVE Before[x] <= Before[x + (n + 1)]
    <3>1. x + n \in PhaseIds /\ x + n <= Phases /\ x + (n + 1) = (x + n) + 1 /\ x + n \in 0 .. Phases
      BY <1>1, <2>1
    <3>2. Before[x] <= Before[x + n] /\ Before[x] \in Nat /\ Before[x + n] \in Nat
      BY <1>1, <3>1
    <3>3. Before[(x + n) + 1] = Before[x + n] + conf.qty_iters[x + n] /\ conf.qty_iters[x + n] \in Nat
      BY <1>1, <3>1
    <3> QED BY <3>1, <3>2, <3>3
  <2> QED BY <2>1
<1>4. T = Nat
  <2>1. T \in SUBSET Nat
    OBVIOUS
  <2> HIDE DEF T
  <2> QED BY <1>2, <1>3, <2>1, Induct
<1>5. Phases - x \in Nat /\ x + (Phases - x) = Phases
  BY <1>1
<1>6. Phases - x \in T
  BY <1>4, <1>5
<1>7. Before[x] <= Before[x + (Phases - x)]
  BY <1>5, <1>6
<1> QED BY <1>5, <1>7

(* The group has moved neither in the work nor in the plan.                 *)
Kept ==
  /\ UNCHANGED <<conf, comm>> /\ pc # "after" /\ pc' # "after"
  /\ Lead'.grp = Lead.grp /\ Lead'.phase = Lead.phase /\ Lead'.iter = Lead.iter

(* The lead before the children join the group.                             *)
LEMMA LeadThere ==
  ASSUME Inv, pc # "after"
  PROVE  comm[1] \in Members(comm) /\ comm[1] \in DOMAIN proc /\ ~IsKid(comm[1]) /\ Lead = proc[comm[1]]
         /\ Lead \in Process
<1>1. comm[1] \in Members(comm) /\ comm[1] \in DOMAIN proc /\ Lead \in Process
  BY GroupIs DEF Inv
<1>2. ~IsKid(comm[1])
  BY <1>1, Apart DEF Inv
<1> QED BY <1>1, <1>2 DEF Lead

(* The steps of main that do not iterate.                                   *)
LEMMA MainKeeps ==
  ASSUME Inv, Top \/ NormalStop \/ NormalEnd \/ Decide \/ Finish \/ ReconfWait
  PROVE  Kept
<1>1. /\ pc # "after" /\ pc' # "after" /\ UNCHANGED <<conf, comm>>
  BY DEF Top, NormalStop, NormalEnd, Decide, Finish, ReconfWait
<1>2. /\ comm[1] \in DOMAIN proc /\ ~IsKid(comm[1]) /\ Lead = proc[comm[1]] /\ Lead \in Process
      /\ Lead' = proc'[comm[1]]
  BY <1>1, LeadThere DEF Lead
<1>3. CASE Top
  <2> DEFINE from == Lead.iter
             final == IF Lead.grp = 0 THEN Lead.final ELSE [Lead.final EXCEPT ![Lead.grp] = RetrieveTimes(Lead.times)]
  <2>1. Lead' = [Lead EXCEPT !.from = from, !.final = final]
    BY <1>2, <1>3 DEF Top, Sources
  <2> HIDE DEF from, final
  <2>2. Lead'.grp = Lead.grp /\ Lead'.phase = Lead.phase /\ Lead'.iter = Lead.iter
    BY <1>2, <2>1, ZenonT(40) DEF Process
  <2> QED BY <1>1, <2>2 DEF Kept
<1>4. CASE NormalStop
  <2> DEFINE idx == Captured(Lead)
  <2>1. Lead' = [Lead EXCEPT !.idx = idx]
    BY <1>2, <1>4 DEF NormalStop, Sources
  <2> HIDE DEF idx
  <2>2. Lead'.grp = Lead.grp /\ Lead'.phase = Lead.phase /\ Lead'.iter = Lead.iter
    BY <1>2, <2>1, ZenonT(40) DEF Process
  <2> QED BY <1>1, <2>2 DEF Kept
<1>5. CASE Finish
  <2> DEFINE own == (Lead.own \ {"results"}) \ {"config", "group"}
             heap == Lead.heap \ {Lead.app[k] : k \in Kinds}
             app == [k \in Kinds |-> Null]
             reg == [k \in Kinds |-> NoEntry]
             r == FreeZombie(Lead)
  <2>1. Lead' = [r EXCEPT !.heap = @ \ {Lead.app[k] : k \in Kinds}, !.reg = reg]
    BY <1>2, <1>5 DEF Finish, Sources
  <2>2. Lead' = [Lead EXCEPT !.own = own, !.app = app, !.heap = heap, !.reg = reg]
    BY <1>2, <2>1, Zenon DEF FreeZombie, FreeResults, Process
  <2> HIDE DEF own, heap, app, reg
  <2>3. Lead'.grp = Lead.grp /\ Lead'.phase = Lead.phase /\ Lead'.iter = Lead.iter
    BY <1>2, <2>2, ZenonT(40) DEF Process
  <2> QED BY <1>1, <2>3 DEF Kept
<1>6. CASE NormalEnd \/ Decide \/ ReconfWait
  <2>1. proc' = proc
    BY <1>6 DEF NormalEnd, Decide, ReconfWait
  <2> QED BY <1>1, <1>2, <2>1 DEF Kept
<1> QED BY <1>3, <1>4, <1>5, <1>6

(* The stages before the last one, on the sources.                          *)
LEMMA StagesKeep ==
  ASSUME Inv, \/ StRms \/ StSpawnStart \/ StSpawnPending \/ StRedStart \/ StRedPending
              \/ StUserStart \/ StUserPending \/ StUserCompleted \/ StSpawnAdaptPending \/ ThreadWork
  PROVE  Kept
<1>1. /\ pc # "after" /\ Reconf /\ UNCHANGED <<conf, comm>> /\ Types /\ Groupings /\ Control
  <2>1. ThreadWork => Reconf /\ UNCHANGED <<conf, comm>>
    BY DEF Inv, Control, ThreadWork
  <2> QED BY <2>1 DEF Inv, Reconf, StRms, StSpawnStart, StSpawnPending, StRedStart, StRedPending,
                      StUserStart, StUserPending, StUserCompleted, StSpawnAdaptPending, At
<1>2. pc' # "after"
  <2>1. CASE StSpawnStart
    <3>1. ~waiting
      BY <1>1, <2>1 DEF StSpawnStart, At, Control
    <3> QED BY <1>1, <2>1, <3>1 DEF StSpawnStart, GoOn, Return, At
  <2> QED BY <1>1, <2>1 DEF StRms, StSpawnPending, StRedStart, StRedPending,
                      StUserStart, StUserPending, Resume, StUserCompleted, StSpawnAdaptPending, At, GoOn, Return,
                      ThreadWork
<1>3. /\ comm[1] \in Members(comm) /\ comm[1] \in DOMAIN proc /\ ~IsKid(comm[1]) /\ Lead = proc[comm[1]] /\ Lead \in Process
      /\ Lead' = proc'[comm[1]]
  BY <1>1, LeadThere DEF Lead
<1>4. ASSUME NEW t, Lead' = [Lead EXCEPT !.times = t] PROVE Kept
  <2>1. Lead'.grp = Lead.grp /\ Lead'.phase = Lead.phase /\ Lead'.iter = Lead.iter
    BY <1>3, <1>4, ZenonT(40) DEF Process
  <2> QED BY <1>1, <1>2, <2>1 DEF Kept
<1>5. ASSUME proc' = proc PROVE Kept
  BY <1>1, <1>2, <1>3, <1>5 DEF Kept
<1>6. ASSUME NEW q \in Process, NEW t, WorkIs(Lead, q), Lead' = [q EXCEPT !.times = t] PROVE Kept
  <2>1. Lead'.grp = q.grp /\ Lead'.phase = q.phase /\ Lead'.iter = q.iter
    BY <1>6, ZenonT(40) DEF Process
  <2>2. q.grp = Lead.grp /\ q.phase = Lead.phase /\ q.iter = Lead.iter
    BY <1>6 DEF WorkIs
  <2> QED BY <1>1, <1>2, <2>1, <2>2 DEF Kept
<1>7. CASE StRms \/ StUserStart \/ StSpawnAdaptPending
  <2>1. \E t : Lead' = [Lead EXCEPT !.times = t]
    BY <1>3, <1>7 DEF StRms, StUserStart, StSpawnAdaptPending, Sources
  <2> QED BY <1>4, <2>1
<1>8. CASE StSpawnStart \/ StSpawnPending
  <2>1. Spawned \/ proc' = proc
    BY <1>8 DEF StSpawnStart, StSpawnPending
  <2>2. ASSUME Spawned PROVE Kept
    <3>1. Lead' = [Lead EXCEPT !.times = Now(Lead, {Spawn})]
      BY <1>3, <2>2 DEF Spawned
    <3> QED BY <1>4, <3>1
  <2> QED BY <1>5, <2>1, <2>2
<1>9. CASE StRedPending
  <2>1. proc' = proc \/ \E t : Lead' = [Lead EXCEPT !.times = t]
    BY <1>3, <1>9 DEF StRedPending, Sources
  <2> QED BY <1>4, <1>5, <2>1
<1>10. CASE StRedStart
  <2>1. CASE "a" \notin conf.data
    BY <1>5, <1>10, <2>1 DEF StRedStart
  <2>2. CASE "a" \in conf.data
    <3> DEFINE q == IF Blocking THEN Lead ELSE Transfer(comm[1], Lead, "a")
    <3>1. Lead' = [q EXCEPT !.times = Now(Lead, {<<"async", "start">>})]
      BY <1>3, <1>10, <2>2 DEF StRedStart, Sources
    <3>2. Moved(comm[1], Lead, Transfer(comm[1], Lead, "a"), "a")
      BY <1>1, <1>3, <1>10, SourceTransfers DEF StRedStart
    <3>3. q \in Process /\ WorkIs(Lead, q)
      BY <1>3, <3>2 DEF Moved, WorkIs
    <3> HIDE DEF q
    <3> QED BY <1>6, <3>1, <3>3
  <2> QED BY <2>1, <2>2
<1>11. CASE ThreadWork
  <2>1. Lead' = Transfer(comm[1], Lead, "a")
    BY <1>3, <1>11 DEF ThreadWork, Sources
  <2>2. state = "DIST_PENDING"
    BY <1>1, <1>11 DEF ThreadWork, Control
  <2>3. Moved(comm[1], Lead, Lead', "a")
    BY <1>1, <1>3, <2>1, <2>2, SourceTransfers
  <2> QED BY <1>1, <1>2, <2>3 DEF Moved, WorkIs, Kept
<1>12. CASE StUserPending
  <2> DEFINE t == [UserRedistribution(comm[1], Lead) EXCEPT !.times = IF Merge THEN Now(Lead, {<<"user", "end">>}) ELSE @]
  <2>1. Lead' = t
    BY <1>3, <1>12 DEF StUserPending, Sources
  <2>2. CalledBack(comm[1], Lead, {<<"user", "end">>}, t)
    BY <1>1, <1>3, UserIs
  <2> HIDE DEF t
  <2> QED BY <1>1, <1>2, <2>1, <2>2 DEF CalledBack, WorkIs, Kept
<1>13. CASE StUserCompleted
  <2>1. CASE "s" \notin conf.data
    BY <1>5, <1>13, <2>1 DEF StUserCompleted
  <2>2. CASE "s" \in conf.data
    <3> DEFINE q == Transfer(comm[1], Lead, "s")
    <3>1. \E t : Lead' = [q EXCEPT !.times = t]
      BY <1>3, <1>13, <2>2 DEF StUserCompleted, Sources
    <3>2. Moved(comm[1], Lead, q, "s")
      BY <1>1, <1>3, TransferIs DEF Kinds
    <3> HIDE DEF q
    <3> QED BY <1>6, <3>1, <3>2 DEF Moved
  <2> QED BY <2>1, <2>2
<1> QED BY <1>7, <1>8, <1>9, <1>10, <1>11, <1>12, <1>13

(* The children.                                                            *)
LEMMA KidsKeep ==
  ASSUME Inv, ChildrenInit
  PROVE  Kept
<1>1. kpc # "none" /\ UNCHANGED <<conf, pc, comm>>
  BY DEF ChildrenInit, KidInfo, KidData, KidUser, Receives, manager
<1>2. pc # "after"
  BY <1>1 DEF Inv, Control, Reconf
<1>3. /\ comm[1] \in DOMAIN proc /\ ~IsKid(comm[1]) /\ Lead = proc[comm[1]] /\ Lead' = proc'[comm[1]]
  BY <1>1, <1>2, LeadThere DEF Lead
<1>4. Lead' = Lead
  BY <1>3 DEF ChildrenInit, KidInfo, KidData, KidUser, Children
<1> QED BY <1>1, <1>2, <1>4 DEF Kept

(* The processes of each group.                                             *)
Plan == <<conf.procs>> \o [x \in 1 .. Groups - 1 |-> conf.resizes[x].procs]

(* The processes of the first group, and of those that follow it.           *)
LEMMA PlanIs ==
  ASSUME conf \in Confs
  PROVE  /\ Len(Plan) = Groups /\ Plan[1] = conf.procs
         /\ \A x \in 1 .. Groups - 1 : Plan[x + 1] = conf.resizes[x].procs
<1> DEFINE t == [x \in 1 .. Groups - 1 |-> conf.resizes[x].procs]
           s == <<conf.procs>>
<1>1. Groups \in Nat \ {0} /\ conf.procs \in Nat /\ \A x \in 1 .. Groups - 1 : conf.resizes[x].procs \in Nat
  BY ConfIs
<1>2. PICK n \in Nat : n = Groups - 1
  BY <1>1
<1>3. t = [x \in 1 .. n |-> conf.resizes[x].procs]
  BY <1>2
<1>4. t \in Seq(Nat) /\ Len(t) = n /\ \A x \in 1 .. n : t[x] = conf.resizes[x].procs
  BY <1>1, <1>2, <1>3
<1>5. s \in Seq(Nat) /\ Len(s) = 1 /\ s[1] = conf.procs
  BY <1>1
<1> HIDE DEF t, s
<1>6. /\ Len(s \o t) = Len(s) + Len(t)
      /\ \A i \in 1 .. Len(s) + Len(t) : (s \o t)[i] = IF i <= Len(s) THEN s[i] ELSE t[i - Len(s)]
  BY <1>4, <1>5, ConcatProperties
<1>7. Len(s \o t) = Groups /\ (s \o t)[1] = conf.procs
  BY <1>1, <1>2, <1>4, <1>5, <1>6
<1>8. ASSUME NEW x \in 1 .. Groups - 1 PROVE (s \o t)[x + 1] = conf.resizes[x].procs
  <2>1. x \in 1 .. n /\ x + 1 \in 1 .. Len(s) + Len(t) /\ ~(x + 1 <= Len(s)) /\ (x + 1) - Len(s) = x
    BY <1>1, <1>2, <1>4, <1>5
  <2> QED BY <1>4, <1>6, <2>1
<1>9. Plan = s \o t
  BY DEF Plan, s, t
<1> QED BY <1>7, <1>8, <1>9

(* Where the work is.                                                       *)
LEMMA PositionIs ==
  ASSUME Types, Groupings, Work
  PROVE  /\ Position(Lead) \in Nat /\ Before[Phases] \in Nat /\ Position(Lead) = Lead.iter + Before[Lead.phase]
         /\ Before[Lead.phase] \in Nat
         /\ Working => /\ Before[Lead.phase + 1] = Before[Lead.phase] + QtyIters
                       /\ Before[Lead.phase + 1] <= Before[Phases]
<1>1. /\ Lead.phase \in 0 .. Phases /\ Lead.iter \in Nat /\ Phases \in Nat /\ conf \in Confs
      /\ Working => Lead.phase \in PhaseIds
  BY LeadIs DEF Types
<1>2. Before \in [0 .. Phases -> Nat] /\ \A x \in PhaseIds : Before[x + 1] = Before[x] + conf.qty_iters[x]
  BY <1>1, BeforeIs
<1>3. Before[Lead.phase] \in Nat /\ Before[Phases] \in Nat
  BY <1>1, <1>2
<1>4. ASSUME Working
      PROVE  Before[Lead.phase + 1] = Before[Lead.phase] + QtyIters /\ Before[Lead.phase + 1] <= Before[Phases]
  <2>1. Lead.phase + 1 \in 0 .. Phases
    BY <1>1, <1>4 DEF PhaseIds
  <2> QED BY <1>1, <1>2, <1>4, <2>1, WorkAhead DEF QtyIters
<1> QED BY <1>1, <1>3, <1>4 DEF Position

(* The group at work, from 1: that of the plan.                             *)
GroupNow == Lead.grp + (IF pc = "after" THEN 2 ELSE 1)

(* The plan does not change.                                                *)
LEMMA PlanStays ==
  ASSUME conf' = conf
  PROVE  Plan' = Plan /\ Before' = Before /\ \A q : Position(q)' = q.iter + Before[q.phase]
BY DEF Plan, Before, Position

(* The steps of Malleable in the words of the application.                  *)
LEMMA StutterIs ==
  ASSUME conf' = conf, GroupNow' = GroupNow, Len(comm)' = Len(comm), Position(Lead)' = Position(Lead),
         Lost' = Lost
  PROVE  UNCHANGED M!vars
BY PlanStays DEF M!vars, Plan, GroupNow

(* An iteration of Malleable in the words of the application.               *)
LEMMA IterateIs ==
  ASSUME conf' = conf, GroupNow' = GroupNow, Len(comm)' = Len(comm),
         Position(Lead) < Before[Phases], Position(Lead)' = Position(Lead) + 1, ~Lost, ~Lost'
  PROVE  M!Iterate
BY PlanStays DEF M!Iterate, Plan, GroupNow, Lost

(* A resize of Malleable in the words of the application.                   *)
LEMMA ResizesIs ==
  ASSUME conf' = conf, GroupNow < Len(Plan), GroupNow' = GroupNow + 1,
         Len(comm)' = Plan[GroupNow + 1], Position(Lead)' = Position(Lead), ~Lost, ~Lost'
  PROVE  M!Resize
<1>1. Plan' = Plan /\ Before' = Before /\ Lost' = Lost
  BY PlanStays DEF Lost
<1> QED BY <1>1 DEF M!Resize, Plan, GroupNow

(* A job lost, in the words of the application.                             *)
LEMMA LoseIs ==
  ASSUME conf' = conf, GroupNow' = GroupNow, Len(comm)' = Len(comm), Position(Lead)' = Position(Lead),
         Position(Lead) = Before[Phases], ~Lost, Lost'
  PROVE  M!Lose
BY PlanStays DEF M!Lose, Plan, GroupNow, Lost

(* A step that moves nothing stutters, or loses a job without work.         *)
LEMMA AccessLoses ==
  ASSUME Inv, Accessed, ~Lost,
         conf' = conf, GroupNow' = GroupNow, Len(comm)' = Len(comm), Position(Lead)' = Position(Lead)
  PROVE  [M!Next]_(M!vars)
<1>1. CASE Lost' = Lost
  BY <1>1, StutterIs
<1>2. CASE Lost' # Lost
  <2>1. Lost' /\ Lead.phase = Phases
    BY <1>2 DEF Accessed, Lost
  <2>2. Types /\ Groupings /\ Work
    BY DEF Inv
  <2>3. Phases \in Nat /\ Lead.iter \in Nat
    BY <2>2, LeadIs
  <2>4. Lead.iter = 0
    BY <2>1, <2>2, <2>3 DEF Work, Working
  <2>5. Position(Lead) = Before[Phases]
    BY <2>1, <2>2, <2>4, PositionIs
  <2>6. M!Lose
    BY <2>1, <2>5, LoseIs
  <2> QED BY <2>6 DEF M!Next
<1> QED BY <1>1, <1>2

-----------------------------------------------------------------------------
(* Every step of the application is one of Malleable, or none.              *)

(* A step that keeps the group where it is.                                 *)
LEMMA KeptStutters ==
  ASSUME Inv, Kept, Accessed, ~Lost
  PROVE  [M!Next]_(M!vars)
<1>1. conf' = conf /\ comm' = comm /\ GroupNow' = GroupNow
  BY DEF Kept, GroupNow
<1>2. Position(Lead)' = Position(Lead)
  BY <1>1, PlanStays DEF Kept, Position
<1> QED BY <1>1, <1>2, AccessLoses

(* An iteration, whichever loop makes it.                                   *)
LEMMA IterationIterates ==
  ASSUME Inv, NormalIter \/ ReconfIter, ~Lost
  PROVE  M!Iterate
<1>1. /\ pc \in {"normal", "reconf"} /\ pc' # "after" /\ Working /\ Lead.iter < QtyIters
      /\ UNCHANGED <<conf, comm>> /\ Types /\ Groupings /\ Work
  BY DEF Inv, NormalIter, ReconfIter
<1>2. /\ comm[1] \in DOMAIN proc /\ ~IsKid(comm[1]) /\ Lead = proc[comm[1]] /\ Lead \in Process
      /\ Lead' = proc'[comm[1]]
  BY <1>1, LeadThere DEF Lead
<1>3. Lead'.grp = Lead.grp /\ Lead'.phase = Lead.phase /\ Lead'.iter = Lead.iter + 1
  <2>1. CASE NormalIter
    <3> DEFINE i == Lead.iter + 1
               e == Lead.exec + 1
    <3>1. Lead' = [Lead EXCEPT !.iter = i, !.exec = e]
      BY <1>2, <2>1 DEF NormalIter, Sources
    <3> HIDE DEF i, e
    <3>2. Lead'.grp = Lead.grp /\ Lead'.phase = Lead.phase /\ Lead'.iter = i
      BY <1>2, <3>1, ZenonT(40) DEF Process
    <3> QED BY <3>2 DEF i
  <2>2. CASE ReconfIter
    <3> DEFINE i == Lead.iter + 1
               x == CaptureIteration(Lead.idx, Lead.phase)
    <3>1. Lead' = [Lead EXCEPT !.idx = x, !.iter = i]
      BY <1>2, <2>2 DEF ReconfIter, Sources
    <3> HIDE DEF i, x
    <3>2. Lead'.grp = Lead.grp /\ Lead'.phase = Lead.phase /\ Lead'.iter = i
      BY <1>2, <3>1, ZenonT(40) DEF Process
    <3> QED BY <3>2 DEF i
  <2> QED BY <1>1, <2>1, <2>2
<1>4. Lead.iter \in Nat /\ QtyIters \in Nat
  BY <1>1, LeadIs
<1>5. Position(Lead) < Before[Phases] /\ Position(Lead)' = Position(Lead) + 1
  <2>1. /\ Position(Lead) = Lead.iter + Before[Lead.phase] /\ Before[Lead.phase] \in Nat
        /\ Before[Lead.phase] + QtyIters <= Before[Phases] /\ Before[Phases] \in Nat
    BY <1>1, PositionIs
  <2>2. Position(Lead)' = Lead'.iter + Before[Lead'.phase]
    BY <1>1, PlanStays DEF Position
  <2> QED BY <1>1, <1>3, <1>4, <2>1, <2>2
<1>6. GroupNow' = GroupNow
  BY <1>1, <1>3 DEF GroupNow
<1>7. ~Lost'
  BY DEF NormalIter, ReconfIter, Lost
<1> QED BY <1>1, <1>5, <1>6, <1>7, IterateIs

(* The next phase starts where this one ends.                               *)
LEMMA PhaseStutters ==
  ASSUME Inv, NormalPhase \/ ReconfPhase
  PROVE  UNCHANGED M!vars
<1>1. /\ pc \in {"normal", "reconf"} /\ pc' # "after" /\ Working /\ Lead.iter >= QtyIters
      /\ UNCHANGED <<conf, comm>> /\ Types /\ Groupings /\ Work
  BY DEF Inv, NormalPhase, ReconfPhase
<1>2. /\ comm[1] \in DOMAIN proc /\ ~IsKid(comm[1]) /\ Lead = proc[comm[1]] /\ Lead \in Process
      /\ Lead' = proc'[comm[1]]
  BY <1>1, LeadThere DEF Lead
<1>3. Lead'.grp = Lead.grp /\ Lead'.phase = Lead.phase + 1 /\ Lead'.iter = 0
  <2> DEFINE n == Lead.phase + 1
             x == Captured(Lead)
  <2>1. CASE NormalPhase
    <3>1. Lead' = [Lead EXCEPT !.idx = x, !.iter = 0, !.from = 0, !.phase = n]
      BY <1>2, <2>1 DEF NormalPhase, Sources
    <3> HIDE DEF n, x
    <3>2. Lead'.grp = Lead.grp /\ Lead'.phase = n /\ Lead'.iter = 0
      BY <1>2, <3>1, ZenonT(40) DEF Process
    <3> QED BY <3>2 DEF n
  <2>2. CASE ReconfPhase
    <3>1. Lead' = [Lead EXCEPT !.iter = 0, !.phase = n]
      BY <1>2, <2>2 DEF ReconfPhase, Sources
    <3> HIDE DEF n
    <3>2. Lead'.grp = Lead.grp /\ Lead'.phase = n /\ Lead'.iter = 0
      BY <1>2, <3>1, ZenonT(40) DEF Process
    <3> QED BY <3>2 DEF n
  <2> QED BY <1>1, <2>1, <2>2
<1>4. Lead.iter \in Nat /\ QtyIters \in Nat /\ Lead.iter <= QtyIters
  BY <1>1, LeadIs DEF Work
<1>5. Position(Lead)' = Position(Lead)
  <2>1. /\ Position(Lead) = Lead.iter + Before[Lead.phase] /\ Before[Lead.phase] \in Nat
        /\ Before[Lead.phase + 1] = Before[Lead.phase] + QtyIters
    BY <1>1, PositionIs
  <2>2. Position(Lead)' = 0 + Before[Lead.phase + 1]
    BY <1>1, <1>3, PlanStays DEF Position
  <2> QED BY <1>1, <1>4, <2>1, <2>2
<1>6. GroupNow' = GroupNow
  BY <1>1, <1>3 DEF GroupNow
<1>7. Lost' = Lost
  BY DEF NormalPhase, ReconfPhase, Lost
<1> QED BY <1>1, <1>5, <1>6, <1>7, StutterIs

(* The commit is the resize: the next group, of the planned size, is where  *)
(* the group was.                                                           *)
LEMMA CommitResizes ==
  ASSUME Inv, StCompleted
  PROVE  /\ ~Lost => M!Resize
         /\ Lead'.phase = Lead.phase
<1>1. /\ Types /\ Groupings /\ Work /\ Reconf /\ pc # "after" /\ pc' = "after" /\ Lead.grp < Groups - 1
      /\ conf' = conf /\ (kids # <<>> => kpc = "commit") /\ conf \in Confs
  BY BeforeCommit DEF Inv, Types
<1>2. /\ Len(comm') = numC /\ comm'[1] \in Members(comm)'
      /\ \A p \in Members(comm)' : IF IsKid(p) THEN p \in Members(kids) ELSE p \in Members(comm) /\ ~Zombie(p)
      /\ Members(comm)' \subseteq DOMAIN proc
  BY MembersNext
<1> DEFINE q == proc[comm'[1]]
<1>3. AsLead(q) /\ q \in Process
  <2>1. CASE IsKid(comm'[1])
    <3>1. comm'[1] \in Members(kids) /\ kids # <<>>
      BY <1>2, <2>1 DEF Members
    <3> QED BY <1>1, <1>2, <3>1, GroupIs DEF Work, Told
  <2>2. CASE ~IsKid(comm'[1])
    <3>1. comm'[1] \in Members(comm)
      BY <1>2, <2>2
    <3> QED BY <1>1, <1>2, <3>1, GroupIs DEF Work, Beside
  <2> QED BY <2>1, <2>2
<1>4. Lead' = [q EXCEPT !.times = CommitTimes(comm'[1], q)]
  <2>1. proc' = [p \in Members(comm)' |-> [proc[p] EXCEPT !.times = CommitTimes(p, proc[p])]]
    BY DEF StCompleted, Members
  <2> QED BY <1>2, <2>1 DEF Lead
<1> HIDE DEF q
<1>5. Committed(comm'[1], q, Lead')
  BY <1>1, <1>3, <1>4, CommitIs
<1>6. Lead'.grp = Lead.grp /\ Lead'.phase = Lead.phase /\ Lead'.iter = Lead.iter
  BY <1>3, <1>5 DEF Committed, WorkIs, AsLead
<1>7. Position(Lead)' = Position(Lead)
  BY <1>1, <1>6, PlanStays DEF Position
<1>8. GroupNow = Lead.grp + 1 /\ GroupNow' = Lead.grp + 2 /\ Lead.grp \in Nat /\ Groups \in Nat
  BY <1>1, <1>6, LeadIs, ConfIs DEF GroupNow
<1>9. GroupNow < Len(Plan) /\ Plan[GroupNow + 1] = numC
  <2>1. Lead.grp + 1 \in 1 .. Groups - 1 /\ Len(Plan) = Groups
    BY <1>1, <1>8, PlanIs
  <2>2. Plan[(Lead.grp + 1) + 1] = conf.resizes[Lead.grp + 1].procs
    BY <1>1, <2>1, PlanIs
  <2> QED BY <1>8, <2>1, <2>2 DEF numC, Resize
<1>10. GroupNow' = GroupNow + 1
  BY <1>8
<1>11. Len(comm)' = Plan[GroupNow + 1]
  BY <1>2, <1>9
<1>12. Lost' = Lost
  BY CommitLeaks DEF Lost
<1> QED BY <1>1, <1>6, <1>7, <1>9, <1>10, <1>11, <1>12, ResizesIs

(* Back in main, the group is the one that was committed.                   *)
LEMMA AfterStutters ==
  ASSUME Inv, After
  PROVE  /\ ~Lost => [M!Next]_(M!vars)
         /\ Lead'.phase = Lead.phase
<1>1. pc = "after" /\ pc' = "top" /\ conf' = conf /\ comm' = comm /\ Types /\ Groupings
  BY DEF Inv, After
<1>2. comm[1] \in DOMAIN proc /\ Lead \in Process /\ Lead = proc[comm[1]] /\ Lead' = proc'[comm[1]] /\ Lead.grp \in Nat
  BY <1>1, GroupIs DEF Lead
<1>3. Lead' = UpdateTargets(IF IsKid(comm[1]) THEN Lead ELSE [Lead EXCEPT !.idx = Reset(Lead)])
  BY <1>2 DEF After
<1>4. Updated(comm[1], Lead, Lead')
  BY <1>2, <1>3, UpdatedIs
<1>5. Lead'.grp = Lead.grp + 1 /\ Lead'.phase = Lead.phase /\ Lead'.iter = Lead.iter
  BY <1>4 DEF Updated
<1>6. GroupNow' = GroupNow
  BY <1>1, <1>2, <1>5 DEF GroupNow
<1>7. Position(Lead)' = Position(Lead)
  BY <1>1, <1>5, PlanStays DEF Position
<1>8. Accessed
  BY <1>1, AfterAccesses
<1> QED BY <1>1, <1>5, <1>6, <1>7, <1>8, AccessLoses

(* Whatever is accessed past the results, the work is over.                 *)
LEMMA FaultsAre ==
  ASSUME Inv, Main \/ Checkpoint \/ ThreadWork \/ ChildrenInit
  PROVE  Accessed
<1>1. Types /\ Groupings
  BY DEF Inv
<1>2. CASE Finish
  BY <1>1, <1>2, PrintIs DEF Finish
<1>3. CASE StUserPending
  BY <1>1, <1>3, PrintIs DEF StUserPending, ShownPhase
<1>4. CASE After
  BY <1>1, <1>4, AfterAccesses
<1>5. CASE StCompleted
  BY <1>5, CommitLeaks DEF Accessed
<1>6. CASE \/ Top \/ NormalIter \/ NormalStop \/ NormalPhase \/ NormalEnd \/ Decide
           \/ ReconfIter \/ ReconfPhase \/ ReconfWait
  BY <1>6 DEF Accessed, Top, NormalIter, NormalStop, NormalPhase, NormalEnd, Decide,
              ReconfIter, ReconfPhase, ReconfWait
<1>7. CASE \/ StRms \/ StSpawnStart \/ StSpawnPending \/ StRedStart \/ StRedPending
           \/ StUserStart \/ StUserCompleted \/ StSpawnAdaptPending \/ ThreadWork
  BY <1>7 DEF Accessed, StRms, StSpawnStart, StSpawnPending, Spawned, StRedStart, StRedPending,
              StUserStart, StUserCompleted, StSpawnAdaptPending, ThreadWork
<1>8. CASE ChildrenInit
  BY <1>8 DEF Accessed, ChildrenInit, KidInfo, KidData, KidUser
<1> QED BY <1>2, <1>3, <1>4, <1>5, <1>6, <1>7, <1>8, Zenon DEF Main, Checkpoint

(* An access past the results has been made when the work was over.         *)
Past == faults # {} => Lead.phase = Phases

(* It stays over.                                                           *)
LEMMA PastNext ==
  ASSUME Inv, Past, [Next]_vars
  PROVE  Past'
<1>1. Phases' = Phases /\ (Lead'.phase = Lead.phase /\ Accessed => Past')
  BY DEF Accessed, Past
<1>2. CASE Kept /\ Accessed
  BY <1>1, <1>2 DEF Kept
<1>3. CASE NormalIter \/ ReconfIter \/ NormalPhase \/ ReconfPhase
  <2>1. Working /\ faults' = faults
    BY <1>3 DEF NormalIter, ReconfIter, NormalPhase, ReconfPhase
  <2>2. Types /\ Groupings
    BY DEF Inv
  <2>3. Lead.phase # Phases
    BY <2>1, <2>2, LeadIs DEF Working
  <2> QED BY <2>1, <2>3 DEF Past
<1>4. CASE After
  BY <1>1, <1>4, AfterStutters, FaultsAre DEF Main
<1>5. CASE StCompleted
  BY <1>1, <1>5, CommitResizes, FaultsAre DEF Checkpoint
<1>6. CASE UNCHANGED vars
  BY <1>6 DEF vars, Past, Lead
<1>7. Main \/ Checkpoint \/ ThreadWork \/ ChildrenInit \/ UNCHANGED vars
  BY DEF Next, Step, Done
<1>8. CASE Main
  <2>1. CASE Top \/ NormalStop \/ NormalEnd \/ Decide \/ Finish \/ ReconfWait
    BY <1>2, <1>8, <2>1, MainKeeps, FaultsAre
  <2> QED BY <1>3, <1>4, <1>8, <2>1, Zenon DEF Main
<1>9. CASE Checkpoint /\ ~StCompleted
  <2>1. Kept
    BY <1>9, StagesKeep, Zenon DEF Checkpoint
  <2> QED BY <1>2, <1>9, <2>1, FaultsAre
<1>10. CASE ThreadWork \/ ChildrenInit
  BY <1>2, <1>10, StagesKeep, KidsKeep, FaultsAre
<1> QED BY <1>5, <1>6, <1>7, <1>8, <1>9, <1>10

(* It is so in every behaviour.                                             *)
LEMMA PastHolds == Spec => []Past
<1>1. Init => Past
  BY DEF Init, Past
<1>2. Inv /\ Past /\ [Next]_vars => Past'
  BY PastNext
<1> QED BY <1>1, <1>2, InvHolds, PTL DEF Spec

(* Each iteration is in the files of the groups once when a group starts    *)
(* and at the end, and no access goes past the results before the end of    *)
(* the work.                                                                *)
THEOREM ReportedOnceHolds == Spec => []ReportedOnce
<1>1. ASSUME Inv, Past PROVE ReportedOnce
  <2>1. ASSUME pc \in {"top", "done"}, NEW x \in PhaseIds
        PROVE  printed[x] = CASE x < Lead.phase -> conf.qty_iters[x]
                              [] x = Lead.phase -> Lead.iter
                              [] x > Lead.phase -> 0
    <3>1. Types /\ Groupings /\ Control /\ Work /\ printed[x] + Unprinted(x) = Made(x)
      BY <1>1, <2>1 DEF Inv, Printed
    <3>2. x \in Nat /\ Lead.phase \in Nat /\ printed[x] \in Nat /\ Lead.idx[x] \in Nat /\ Lead.start_phase \in Nat
      BY <2>1, <3>1, LeadIs
    <3>3. Unprinted(x) = 0
      <4>1. pc = "top" => (x >= Lead.start_phase => Lead.idx[x] = 0)
        BY <2>1, <3>1 DEF Work
      <4> QED BY <2>1, <3>2, <4>1 DEF Unprinted
    <3>4. printed[x] = Made(x)
      BY <3>1, <3>2, <3>3
    <3>5. CASE x < Lead.phase
      BY <3>2, <3>4, <3>5 DEF Made
    <3>6. CASE x = Lead.phase
      BY <3>2, <3>4, <3>6 DEF Made
    <3>7. CASE x > Lead.phase
      BY <3>2, <3>4, <3>7 DEF Made
    <3> QED BY <3>2, <3>5, <3>6, <3>7
  <2> QED BY <1>1, <2>1 DEF ReportedOnce, Past
<1> QED BY <1>1, InvHolds, PastHolds, PTL

(* The start.                                                               *)
LEMMA InitStarts == Init => M!Init
<1> SUFFICES ASSUME Init PROVE M!Init
  OBVIOUS
<1>1. Inv /\ conf \in Confs /\ pc = "top"
  BY InitInv DEF Init
<1>2. comm[1] \in Members(comm) /\ proc = [p \in Members(comm) |-> InitOriginals(Original(conf.data))]
  BY <1>1, GroupIs DEF Inv, Init
<1>3. Lead = InitOriginals(Original(conf.data))
  BY <1>2 DEF Lead
<1>4. Lead.grp = 0 /\ Lead.phase = 0 /\ Lead.iter = 0
  BY <1>1, <1>3, OriginalIs
<1>5. Before[0] = 0
  BY <1>1, BeforeIs
<1>6. Len(comm) = Plan[1]
  BY <1>1, <1>4, PlanIs DEF Inv, Groupings
<1>7. ~Lost
  BY DEF Init, Lost
<1> QED BY <1>1, <1>4, <1>5, <1>6, <1>7 DEF M!Init, Position, Plan

(* SAM on MaM loses, repeats and reorders no iteration, whatever the        *)
(* configuration, every group has its planned size, and no job is lost      *)
(* before all its work is done: the safety part of Malleability.            *)
THEOREM MalleabilitySafe == Spec => M!Init /\ [][M!Next]_(M!vars)
<1>1. Init => M!Init
  BY InitStarts
<1>2. Inv /\ [Next]_vars => [M!Next]_(M!vars)
  <2> SUFFICES ASSUME Inv, [Next]_vars PROVE [M!Next]_(M!vars)
    OBVIOUS
  <2>1. CASE UNCHANGED vars
    <3>1. UNCHANGED <<conf, comm, proc, pc, faults>>
      BY <2>1 DEF vars
    <3>2. GroupNow' = GroupNow /\ Position(Lead)' = Position(Lead) /\ Lost' = Lost
      BY <3>1, PlanStays DEF GroupNow, Position, Lead, Lost
    <3> QED BY <3>1, <3>2, StutterIs
  <2>2. CASE Step
    <3>1. ~Lost /\ (Main \/ Checkpoint \/ ThreadWork \/ ChildrenInit)
      BY <2>2 DEF Step
    <3>2. Accessed
      BY <3>1, FaultsAre
    <3>3. Kept => [M!Next]_(M!vars)
      BY <3>1, <3>2, KeptStutters
    <3>4. CASE Main
      <4>1. CASE Top \/ NormalStop \/ NormalEnd \/ Decide \/ Finish \/ ReconfWait
        BY <3>3, <4>1, MainKeeps
      <4>2. CASE NormalIter \/ ReconfIter
        BY <3>1, <4>2, IterationIterates DEF M!Next
      <4>3. CASE NormalPhase \/ ReconfPhase
        BY <4>3, PhaseStutters
      <4>4. CASE After
        BY <3>1, <4>4, AfterStutters
      <4> QED BY <3>4, <4>1, <4>2, <4>3, <4>4, Zenon DEF Main
    <3>5. CASE Checkpoint
      <4>1. CASE StCompleted
        BY <3>1, <4>1, CommitResizes DEF M!Next
      <4>2. CASE ~StCompleted
        <5>1. Kept
          BY <3>5, <4>2, StagesKeep, Zenon DEF Checkpoint
        <5> QED BY <3>3, <5>1
      <4> QED BY <4>1, <4>2
    <3>6. CASE ThreadWork \/ ChildrenInit
      BY <3>3, <3>6, StagesKeep, KidsKeep
    <3> QED BY <3>1, <3>4, <3>5, <3>6
  <2> QED BY <2>1, <2>2 DEF Next, Done
<1> QED BY <1>1, <1>2, InvHolds, PTL DEF Spec
=============================================================================
