------------------------------ MODULE Zombies ------------------------------
(***************************************************************************)
(* The zombie service of MaM (MAM_Zombies.c).  A rank that is not a target *)
(* of a reconfiguration cannot end while others of its MPI_COMM_WORLD go   *)
(* on, so it sleeps in sigsuspend, and rank 0 of its world, which keeps    *)
(* the process ids of the sleepers in a table, wakes them with SIGUSR2     *)
(* when it ends itself.  A world that leaves as a whole just ends.         *)
(*                                                                         *)
(* A world is a group of ranks started together: the first one, or one     *)
(* spawn.  Ranks are ordered by world and by rank, the order of mall->comm *)
(* with the Merge method, and it is the last ones that leave.              *)
(***************************************************************************)
EXTENDS Integers, Sequences, FiniteSets

CONSTANTS
  WorldSizes,     \* sizes a spawn may have
  MaxWorlds,      \* bound on the number of worlds
  Slots           \* entries of the pid table (PIDS_QTY)

ASSUME ZombiesAssumption ==
  /\ WorldSizes \subseteq Nat \ {0} /\ IsFiniteSet(WorldSizes)
  /\ MaxWorlds \in Nat \ {0}
  /\ Slots \in Nat

VARIABLES
  at,         \* at[w][r]: what rank r - 1 of world w is doing
  members,    \* members[w]: size of mall->original_comm of world w
  pids,       \* pids[w]: the table of rank 0 of world w; 0 is an unused entry
  qty,        \* qty[w]: zombies_qty of rank 0 of world w
  internode,  \* internode[w]: world w spans several nodes
  over,       \* the application has called MAM_Finalize
  gapped      \* history: worlds that lost several ranks at once when they had zombies

zombieVars == <<at, members, pids, qty, internode, over, gapped>>

Worlds == 1 .. Len(at)
RanksOf(w) == 1 .. Len(at[w])
Pid(r) == r                       \* distinct and not 0
NoPids == [i \in 0 .. Slots - 1 |-> 0]

\* MAM_Is_internode_group: whether a rank of the world is on another node than
\* its root.
InternodeGroup(n) == IF n = 1 THEN {FALSE} ELSE BOOLEAN

NewWorld(n) ==
  /\ at' = Append(at, [r \in 1 .. n |-> "active"])
  /\ members' = Append(members, n)
  /\ pids' = Append(pids, NoPids)
  /\ qty' = Append(qty, 0)
  /\ \E b \in InternodeGroup(n) : internode' = Append(internode, b)

ZombiesInit ==
  \E n \in WorldSizes : \E b \in InternodeGroup(n) :
    /\ at = <<[r \in 1 .. n |-> "active"]>>
    /\ members = <<n>> /\ pids = <<NoPids>> /\ qty = <<0>>
    /\ internode = <<b>>
    /\ over = FALSE /\ gapped = {}

Running == ~over /\ \E w \in Worlds : members[w] > 0

-----------------------------------------------------------------------------
(* MAM_Zombies_update, called by every rank of a world in MAM_Commit. *)

\* Mutant: the new zombies are written over the earlier ones.
MutDispl(found, j) == j

\* MAM_I_zombies_collect: where the pid of the j-th new zombie goes.  Each
\* displacement adds zombies_qty to the previous one, so that several new zombies
\* after earlier ones leave unused entries between them.
Displ(found, j) == j + (j + 1) * found

Collect(w, new) ==
  [i \in DOMAIN pids[w] |->
     IF \E j \in 0 .. new - 1 : i = Displ(qty[w], j)
       THEN Pid(members[w] - new + 1 + (CHOOSE j \in 0 .. new - 1 : i = Displ(qty[w], j)))
       ELSE pids[w][i]]

\* How many ranks of world w are targets when the last target is rank r of world v:
\* mall->comm has the worlds one after another.
Kept(w, v, r) == IF w < v THEN members[w] ELSE IF w = v THEN r ELSE 0

\* What happens in world w when only its first `kept` ranks go on.
Fate(w, kept) ==
  [r \in RanksOf(w) |->
     IF r > members[w] \/ r <= kept THEN at[w][r]
     ELSE IF kept = 0 THEN "ending" ELSE "leaving"]

New(w, kept) == IF kept > 0 THEN members[w] - kept ELSE 0

Leave(v, r) ==
  /\ at' = [w \in Worlds |-> Fate(w, Kept(w, v, r))]
  /\ pids' = [w \in Worlds |-> Collect(w, New(w, Kept(w, v, r)))]
  /\ qty' = [w \in Worlds |-> qty[w] + New(w, Kept(w, v, r))]
  /\ members' = [w \in Worlds |-> Kept(w, v, r)]
  /\ gapped' = gapped \cup {w \in Worlds : qty[w] > 0 /\ New(w, Kept(w, v, r)) > 1}
  /\ UNCHANGED internode

-----------------------------------------------------------------------------
(* The reconfigurations: Merge expand, Merge shrink, Baseline. *)

Expand ==
  /\ Running /\ Len(at) < MaxWorlds
  /\ \E n \in WorldSizes : NewWorld(n)
  /\ UNCHANGED <<over, gapped>>

Shrink ==
  /\ Running
  /\ \E v \in Worlds : \E r \in 1 .. members[v] :
       /\ r < members[v] \/ \E w \in Worlds : w > v /\ members[w] > 0
       /\ Leave(v, r)
  /\ UNCHANGED over

\* Every source becomes a zombie; the children are the new application.
Replace ==
  /\ Running /\ Len(at) < MaxWorlds
  /\ \E n \in WorldSizes :
       /\ at' = Append([w \in Worlds |-> Fate(w, 0)], [r \in 1 .. n |-> "active"])
       /\ members' = Append([w \in Worlds |-> 0], n)
       /\ pids' = Append(pids, NoPids)
       /\ qty' = Append(qty, 0)
       /\ \E b \in InternodeGroup(n) : internode' = Append(internode, b)
  /\ UNCHANGED <<over, gapped>>

\* The application ends: every rank that is left calls MAM_Finalize.
Finish ==
  /\ Running
  /\ at' = [w \in Worlds |-> Fate(w, 0)]
  /\ members' = [w \in Worlds |-> 0]
  /\ over' = TRUE
  /\ UNCHANGED <<pids, qty, internode, gapped>>

-----------------------------------------------------------------------------
(* MAM_I_zombies_suspend and MAM_I_zombies_awake. *)

Move(w, r, from, to) ==
  /\ at[w][r] = from
  /\ at' = [at EXCEPT ![w][r] = to]
  /\ UNCHANGED <<members, pids, qty, internode, over, gapped>>

Arm(w, r) == Move(w, r, "leaving", "armed")         \* sigaction(SIGUSR2)
Suspend(w, r) == Move(w, r, "armed", "suspended")   \* sigsuspend

\* A rank whose zombies_qty is 0 ends without waking anybody.
Exit(w, r) == (r # 1 \/ qty[w] = 0) /\ Move(w, r, "ending", "gone")

\* SIGUSR2 kills a process that has no handler, and is lost on one that is not
\* suspended yet.
Signalled(s) ==
  CASE s = "suspended" -> "ending"
    [] s \in {"active", "leaving", "ending"} -> "killed"
    [] OTHER -> s

\* The entries rank 0 signals.  kill(0) reaches its whole process group.
Listed(w) == {pids[w][i] : i \in 0 .. qty[w] - 1}
\* Mutant: the first entry of the table is skipped.
MutHit(w, r) == Pid(r) \in Listed(w) \ {pids[w][0]}

Hit(w, r) == Pid(r) \in Listed(w) \/ 0 \in Listed(w)

Awake(w) ==
  /\ at[w][1] = "ending" /\ qty[w] > 0
  /\ at' = [at EXCEPT ![w] =
       [r \in RanksOf(w) |->
          CASE internode[w] /\ at[w][r] # "gone" -> "aborted"     \* MPI_Abort
            [] ~internode[w] /\ Hit(w, r) -> Signalled(at[w][r])
            [] ~internode[w] /\ ~Hit(w, r) /\ r = 1 -> "gone"
            [] OTHER -> at[w][r]]]
  /\ qty' = [qty EXCEPT ![w] = 0]
  /\ UNCHANGED <<members, pids, internode, over, gapped>>

Step(w) ==
  \/ Awake(w)
  \/ \E r \in RanksOf(w) : Arm(w, r) \/ Suspend(w, r) \/ Exit(w, r)

ZombiesNext == Expand \/ Shrink \/ Replace \/ Finish \/ \E w \in Worlds : Step(w)

ZombiesSpec == ZombiesInit /\ [][ZombiesNext]_zombieVars

-----------------------------------------------------------------------------
(* Properties. *)

Asleep(w) == {r \in RanksOf(w) : at[w][r] \in {"leaving", "armed", "suspended"}}

\* The worlds the properties speak of.  The displacements of several new zombies
\* after earlier ones go wrong, and a world whose table has gaps signals its whole
\* process group.
Whole == Worlds \ gapped

(***************************************************************************)
(* The table of a world names its zombies, all of them and nobody else,    *)
(* however many reconfigurations they come from, unless several came at    *)
(* once when there were some already (MAM_I_zombies_collect).              *)
(***************************************************************************)
ZombiesRecorded ==
  \A w \in Whole : qty[w] > 0 => Listed(w) = {Pid(r) : r \in Asleep(w)}

(***************************************************************************)
(* SIGUSR2 never reaches a rank that is not a zombie: it has no handler    *)
(* and would be killed.  Worlds with gaps in the table are excepted.       *)
(***************************************************************************)
OnlyZombiesSignalled ==
  [][\A w \in Whole : \A r \in RanksOf(w) :
       at[w][r] \in {"active", "ending"} => at'[w][r] # "killed"]_zombieVars

(***************************************************************************)
(* When rank 0 of a world ends, no zombie of that world is left suspended: *)
(* it is the last one to go, after every reconfiguration that made some.   *)
(* Worlds with gaps in the table are excepted.                             *)
(***************************************************************************)
SuspendedWoken ==
  [][\A w \in Whole :
       at[w][1] # at'[w][1] /\ at'[w][1] \in {"gone", "killed", "aborted"} =>
         \A r \in RanksOf(w) : at'[w][r] # "suspended"]_zombieVars

-----------------------------------------------------------------------------
(* The inductive invariant behind the properties. *)

Sleeping == {"leaving", "armed", "suspended"}
Places == Sleeping \cup {"active", "ending", "gone", "killed", "aborted"}
Tables == [0 .. Slots - 1 -> Nat]

Rows == UNION {[1 .. n -> Places] : n \in WorldSizes}

\* Every variable keeps its type.
ZombiesTypeOK ==
  /\ at \in Seq(Rows) /\ members \in Seq(Nat) /\ qty \in Seq(Nat) /\ pids \in Seq(Tables)
  /\ internode \in Seq(BOOLEAN) /\ over \in BOOLEAN
  /\ Len(members) = Len(at) /\ Len(qty) = Len(at) /\ Len(pids) = Len(at)
  /\ Len(internode) = Len(at) /\ gapped \subseteq Worlds

Names(table, n, q) == {table[i] : i \in 0 .. q - 1} = {Pid(r) : r \in n - q + 1 .. n}

Working(row, n, m) ==
  /\ \A r \in 1 .. m : row[r] = "active"
  /\ \A r \in m + 1 .. n : row[r] \in Sleeping

Waiting(row, n, q) ==
  /\ row[1] = "ending"
  /\ \A r \in 1 .. n - q : row[r] \in {"ending", "gone"}
  /\ \A r \in n - q + 1 .. n : row[r] \in Sleeping

Going(row, n) == \A r \in 1 .. n : row[r] \in {"ending", "gone"}

(***************************************************************************)
(* A world of n ranks, m of them at work, has its last q asleep and in the *)
(* table.  While some work, these are all the others; once none does, the  *)
(* rest is ending, and rank 0 stays until it has signalled.                *)
(***************************************************************************)
WorldOK(row, n, m, q, table) ==
  /\ m <= n /\ q < n
  /\ q > 0 => Names(table, n, q)
  /\ m > 0 => q = n - m /\ Working(row, n, m)
  /\ m = 0 /\ q > 0 => Waiting(row, n, q)
  /\ m = 0 /\ q = 0 /\ row[1] \notin {"gone", "aborted"} => Going(row, n)

WorldsOK == \A w \in Whole : WorldOK(at[w], Len(at[w]), members[w], qty[w], pids[w])

ZInv == ZombiesTypeOK /\ WorldsOK
=============================================================================
