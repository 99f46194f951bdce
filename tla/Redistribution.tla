--------------------------- MODULE Redistribution ---------------------------
(***************************************************************************)
(* The asynchronous data redistribution of a reconfiguration: the stages   *)
(* of MAM_Manager.c from start_redistribution to MAM_St_user_start on the  *)
(* sources, and the part of Children_init that answers them.               *)
(*                                                                         *)
(* What is sent is left out.  A rank has started when it has made its      *)
(* nonblocking calls (or the blocking ones of the thread) and is complete  *)
(* when all its requests are; a rank that receives cannot be complete      *)
(* before every source has started.  Under RMA every rank frees the window *)
(* with the others, a collective call.                                     *)
(***************************************************************************)
EXTENDS Naturals, FiniteSets

CONSTANTS
  Sources,        \* ranks of mall->comm
  Children,       \* ranks that a reconfiguration may spawn
  MaxPolls        \* calls made with MAM_CHECK_COMPLETION before the waiting ones

RanksOK ==
  /\ Sources # {}
  /\ Sources \cap Children = {}
  /\ MaxPolls \in Nat

ASSUME RedistributionAssumption == RanksOK

(***************************************************************************)
(* A reconfiguration: the ranks it spawns, the sources that end with it    *)
(* and receive nothing, the redistribution strategy, whether               *)
(* mall->intercomm is an intercommunicator, whether a window is used (LOCK *)
(* or LOCKALL), and whether the application calls MAM_Checkpoint with      *)
(* MAM_WAIT_COMPLETION after MaxPolls calls.                               *)
(*                                                                         *)
(* Baseline spawns all the targets; Merge keeps the sources and spawns, or *)
(* shrinks and spawns nothing, always over an intracommunicator.           *)
(* MAM_Check_configuration keeps windows from intercommunicators and gives *)
(* them WAIT_TARGETS or PTHREAD; the window of PTHREAD is part of its      *)
(* blocking calls.  WAIT_SOURCES is "none": nothing reads it.              *)
(***************************************************************************)
Baseline(c) == c.children # {} /\ c.zombies = Sources
Expand(c)   == c.children # {} /\ c.zombies = {} /\ ~c.intercomm
Shrink(c)   == c.children = {} /\ c.zombies # {} /\ c.zombies # Sources /\ ~c.intercomm

Reconfs ==
  {c \in [children: {{}, Children}, zombies: SUBSET Sources,
          strategy: {"none", "wait_targets", "pthread"},
          intercomm: BOOLEAN, rma: BOOLEAN, waits: BOOLEAN] :
     /\ Baseline(c) \/ Expand(c) \/ Shrink(c)
     /\ c.rma => ~c.intercomm /\ c.strategy = "wait_targets"}

VARIABLES
  reconf,       \* the reconfiguration, as above
  entries,    \* TRUE: some data was registered for asynchronous redistribution
  pc,         \* where each rank is
  tpc,        \* the thread of thread_async_work of each source
  started,    \* ranks that have made their communication calls
  complete,   \* ranks all of whose requests are complete
  arrived,    \* ranks that have called MPI_Ibarrier (wait_targets_posted)
  polls,      \* calls made with MAM_CHECK_COMPLETION by each source
  contrib,    \* what each source gives to MPI_Allreduce
  decision    \* what MPI_Allreduce returned to a source, until it is used

redistVars == <<reconf, entries, pc, tpc, started, complete, arrived, polls, contrib, decision>>

Ranks == Sources \cup reconf.children
Receivers == Ranks \ reconf.zombies

Answers == {"none", "no", "yes"}
Answer(b) == IF b THEN "yes" ELSE "no"

RedistInit ==
  /\ reconf \in Reconfs
  /\ entries \in BOOLEAN
  /\ pc = [r \in Ranks |-> "start"]
  /\ tpc = [p \in Sources |-> "none"]
  /\ started = {}
  /\ complete = {}
  /\ arrived = {}
  /\ polls = [p \in Sources |-> 0]
  /\ contrib = [p \in Sources |-> "none"]
  /\ decision = [p \in Sources |-> "none"]

-----------------------------------------------------------------------------
(* MPI. *)

Goto(r, from, to) == pc[r] = from /\ pc' = [pc EXCEPT ![r] = to]

\* MPI_Ibarrier over an intercommunicator waits for the other group only.
BarrierPeers(r) ==
  IF ~reconf.intercomm THEN Ranks ELSE IF r \in Sources THEN reconf.children ELSE Sources

BarrierDone(r, present) == BarrierPeers(r) \subseteq present

\* The requests of a rank become complete.
Complete(r) ==
  /\ r \in started \ complete
  /\ r \in Receivers => Sources \subseteq started
  /\ complete' = complete \cup {r}
  /\ UNCHANGED <<reconf, entries, pc, tpc, started, arrived, polls, contrib, decision>>

\* The reduction of check_redistribution is MPI_MIN and that of thread_check MPI_MAX.
Reduced ==
  IF reconf.strategy = "pthread" THEN \E p \in Sources : contrib[p] = "yes"
                          ELSE \A p \in Sources : contrib[p] = "yes"

Allreduce ==
  /\ \A p \in Sources : contrib[p] # "none"
  /\ decision' = [p \in Sources |-> Answer(Reduced)]
  /\ contrib' = [p \in Sources |-> "none"]
  /\ UNCHANGED <<reconf, entries, pc, tpc, started, complete, arrived, polls>>

\* A collective call of every rank: nobody leaves before all have come.
AllReached(place, after) == \A r \in Ranks : pc[r] \in {place} \cup after

WinFree(r) ==
  /\ Goto(r, "win_free", "user_start")
  /\ AllReached("win_free", {"user_start", "user"})
  /\ UNCHANGED <<reconf, entries, tpc, started, complete, arrived, polls, contrib, decision>>

\* MAM_St_user_start and Children_init: MPI_Intercomm_merge or MPI_Comm_dup.
UserStart(r) ==
  /\ Goto(r, "user_start", "user")
  /\ AllReached("user_start", {"user"})
  /\ UNCHANGED <<reconf, entries, tpc, started, complete, arrived, polls, contrib, decision>>

-----------------------------------------------------------------------------
(* The sources. *)

Waits(p) == reconf.waits /\ polls[p] = MaxPolls

\* start_redistribution; a zombie joins the barrier of WAIT_TARGETS at once.
StartRedistribution(p) ==
  /\ Goto(p, "start", IF entries THEN "pending" ELSE "user_start")
  /\ IF entries /\ reconf.strategy = "pthread"
       THEN tpc' = [tpc EXCEPT ![p] = "created"] ELSE UNCHANGED tpc
  /\ started' = IF entries /\ reconf.strategy # "pthread" THEN started \cup {p} ELSE started
  /\ arrived' = IF entries /\ reconf.strategy = "wait_targets" /\ p \in reconf.zombies
                  THEN arrived \cup {p} ELSE arrived
  /\ UNCHANGED <<reconf, entries, complete, polls, contrib, decision>>

\* check_redistribution with MAM_CHECK_COMPLETION, up to MPI_Allreduce.
TestRequests(p) ==
  /\ reconf.strategy # "pthread" /\ ~Waits(p)
  /\ Goto(p, "pending", "reducing")
  /\ arrived' = IF reconf.strategy = "wait_targets" /\ p \in complete
                  THEN arrived \cup {p} ELSE arrived
  /\ contrib' = [contrib EXCEPT ![p] =
                   Answer(IF p \in arrived' THEN BarrierDone(p, arrived') ELSE p \in complete)]
  /\ UNCHANGED <<reconf, entries, tpc, started, complete, polls, decision>>

\* thread_check with MAM_CHECK_COMPLETION: what is reduced is comm_state.
TestThread(p) ==
  /\ reconf.strategy = "pthread" /\ ~Waits(p)
  /\ Goto(p, "pending", "reducing")
  /\ contrib' = [contrib EXCEPT ![p] = Answer(tpc[p] = "done")]
  /\ UNCHANGED <<reconf, entries, tpc, started, complete, arrived, polls, decision>>

\* Mutant: the answer of the source itself is used and not the reduced one.
MutDecide(p) ==
  /\ decision[p] # "none"
  /\ Goto(p, "reducing", CASE p \notin complete -> "pending"
                           [] p \in complete /\ reconf.strategy = "pthread" -> "joining"
                           [] OTHER -> "ending")
  /\ decision' = [decision EXCEPT ![p] = "none"]
  /\ polls' = [polls EXCEPT ![p] = IF @ < MaxPolls THEN @ + 1 ELSE @]
  /\ UNCHANGED <<reconf, entries, tpc, started, complete, arrived, contrib>>

\* The end of MPI_Allreduce and what each source does with its result.
Decide(p) ==
  /\ decision[p] # "none"
  /\ Goto(p, "reducing", CASE decision[p] = "no" -> "pending"
                           [] decision[p] = "yes" /\ reconf.strategy = "pthread" -> "joining"
                           [] OTHER -> "ending")
  /\ decision' = [decision EXCEPT ![p] = "none"]
  /\ polls' = [polls EXCEPT ![p] = IF @ < MaxPolls THEN @ + 1 ELSE @]
  /\ UNCHANGED <<reconf, entries, tpc, started, complete, arrived, contrib>>

\* check_redistribution or thread_check with MAM_WAIT_COMPLETION.
WaitRequests(p) ==
  /\ Waits(p)
  /\ Goto(p, "pending", IF reconf.strategy = "pthread" THEN "joining" ELSE "waiting")
  /\ arrived' = IF reconf.strategy = "wait_targets" THEN arrived \cup {p} ELSE arrived
  /\ UNCHANGED <<reconf, entries, tpc, started, complete, polls, contrib, decision>>

\* async_communication_wait
WaitData(p) ==
  /\ p \in Sources /\ p \in complete
  /\ Goto(p, "waiting", IF reconf.strategy = "wait_targets" THEN "wait_barrier" ELSE "ending")
  /\ UNCHANGED <<reconf, entries, tpc, started, complete, arrived, polls, contrib, decision>>

\* MPI_Wait on wait_targets, of a source or of a child.
WaitBarrier(r) ==
  /\ BarrierDone(r, arrived)
  /\ Goto(r, "wait_barrier", "ending")
  /\ UNCHANGED <<reconf, entries, tpc, started, complete, arrived, polls, contrib, decision>>

\* Mutant: no MPI_Waitall.
MutEndAsync(r) ==
  /\ Goto(r, "ending", IF reconf.rma THEN "win_free" ELSE "user_start")
  /\ UNCHANGED <<reconf, entries, tpc, started, complete, arrived, polls, contrib, decision>>

\* async_communication_end: MPI_Waitall under WAIT_TARGETS, then the window.
EndAsync(r) ==
  /\ reconf.strategy = "wait_targets" => r \in complete
  /\ Goto(r, "ending", IF reconf.rma THEN "win_free" ELSE "user_start")
  /\ UNCHANGED <<reconf, entries, tpc, started, complete, arrived, polls, contrib, decision>>

\* thread_async_work: the blocking calls, then comm_state.
ThreadSend(p) ==
  /\ tpc[p] = "created"
  /\ tpc' = [tpc EXCEPT ![p] = "sending"]
  /\ started' = started \cup {p}
  /\ UNCHANGED <<reconf, entries, pc, complete, arrived, polls, contrib, decision>>

ThreadDone(p) ==
  /\ tpc[p] = "sending" /\ p \in complete
  /\ tpc' = [tpc EXCEPT ![p] = "done"]
  /\ UNCHANGED <<reconf, entries, pc, started, complete, arrived, polls, contrib, decision>>

\* pthread_join
Join(p) ==
  /\ tpc[p] = "done"
  /\ Goto(p, "joining", "user_start")
  /\ UNCHANGED <<reconf, entries, tpc, started, complete, arrived, polls, contrib, decision>>

-----------------------------------------------------------------------------
(* The children: Children_init. *)

\* Mutant: the child joins the barrier before it waits for the data.
MutChildStart(c) ==
  /\ Goto(c, "start", IF entries THEN "waiting" ELSE "user_start")
  /\ started' = IF entries THEN started \cup {c} ELSE started
  /\ arrived' = IF entries THEN arrived \cup {c} ELSE arrived
  /\ UNCHANGED <<reconf, entries, tpc, complete, polls, contrib, decision>>

ChildStart(c) ==
  /\ Goto(c, "start", IF entries THEN "waiting" ELSE "user_start")
  /\ started' = IF entries THEN started \cup {c} ELSE started
  /\ UNCHANGED <<reconf, entries, tpc, complete, arrived, polls, contrib, decision>>

\* Mutant: the child waits for the barrier whatever the strategy, and does not join it.
MutChildReceived(c) ==
  /\ c \in complete
  /\ Goto(c, "waiting", "wait_barrier")
  /\ UNCHANGED <<reconf, entries, tpc, started, complete, arrived, polls, contrib, decision>>

\* The data is there: join the barrier of WAIT_TARGETS.
ChildReceived(c) ==
  /\ c \in complete
  /\ Goto(c, "waiting", CASE reconf.strategy = "wait_targets" -> "wait_barrier"
                          [] reconf.strategy = "pthread" -> "user_start"
                          [] OTHER -> "ending")
  /\ arrived' = IF reconf.strategy = "wait_targets" THEN arrived \cup {c} ELSE arrived
  /\ UNCHANGED <<reconf, entries, tpc, started, complete, polls, contrib, decision>>

-----------------------------------------------------------------------------
SourceStep(p) ==
  \/ StartRedistribution(p) \/ TestRequests(p) \/ TestThread(p) \/ Decide(p)
  \/ WaitRequests(p) \/ WaitData(p) \/ Join(p)

ThreadStep(p) == ThreadSend(p) \/ ThreadDone(p)

ChildStep(c) == ChildStart(c) \/ ChildReceived(c)

\* The steps a source and a child have in common.
CommonStep(r) == WaitBarrier(r) \/ EndAsync(r) \/ WinFree(r) \/ UserStart(r)

RedistNext ==
  \/ \E p \in Sources : SourceStep(p) \/ ThreadStep(p)
  \/ \E c \in reconf.children : ChildStep(c)
  \/ \E r \in Ranks : CommonStep(r) \/ Complete(r)
  \/ Allreduce

RedistSpec == RedistInit /\ [][RedistNext]_redistVars

(***************************************************************************)
(* Every thread runs, the application keeps calling MAM_Checkpoint and MPI *)
(* makes progress; a request must complete once every rank has started     *)
(* (before that, a send may or may not be buffered).                       *)
(***************************************************************************)
Fairness ==
  /\ \A p \in Sources : WF_redistVars(SourceStep(p)) /\ WF_redistVars(ThreadStep(p))
  /\ \A c \in Children : WF_redistVars(c \in Ranks /\ ChildStep(c))
  /\ \A r \in Sources \cup Children :
       WF_redistVars(r \in Ranks /\ CommonStep(r)) /\ WF_redistVars(started = Ranks /\ Complete(r))
  /\ WF_redistVars(Allreduce)

FairSpec == RedistSpec /\ Fairness

-----------------------------------------------------------------------------
(* Properties. *)

Places == {"start", "pending", "reducing", "waiting", "wait_barrier", "ending", "joining",
           "win_free", "user_start", "user"}

\* Every variable keeps its type.
TypeOK ==
  /\ reconf \in Reconfs
  /\ entries \in BOOLEAN
  /\ pc \in [Ranks -> Places]
  /\ tpc \in [Sources -> {"none", "created", "sending", "done"}]
  /\ started \subseteq Ranks
  /\ complete \subseteq started
  /\ arrived \subseteq Ranks
  /\ polls \in [Sources -> 0..MaxPolls]
  /\ contrib \in [Sources -> Answers]
  /\ decision \in [Sources -> Answers]

Left == {r \in Ranks : pc[r] \in {"win_free", "user_start", "user"}}

(***************************************************************************)
(* WAIT_TARGETS: a source leaves the redistribution only when every child  *)
(* has its data, although a zombie joins the barrier before its own sends  *)
(* are complete and a source that polls leaves through MPI_Allreduce.      *)
(***************************************************************************)
WaitTargets ==
  entries /\ reconf.strategy = "wait_targets" /\ Left \cap Sources # {}
    => reconf.children \subseteq complete

(***************************************************************************)
(* No rank leaves with a request of its own pending: it may free or reuse  *)
(* the arrays, and a zombie disconnects.                                   *)
(***************************************************************************)
OwnRequestsComplete == entries => Left \subseteq complete

(***************************************************************************)
(* The sources that poll leave in the same call: none goes on to the user  *)
(* stage, or blocks in a wait, while another makes one more MPI_Allreduce. *)
(***************************************************************************)
LeaveTogether ==
  \A p, q \in Sources :
    contrib[p] # "none" => pc[q] \in {"start", "pending", "reducing"}

\* Every source and every child gets to the user stage.
EventuallyUser == <>(\A r \in Ranks : pc[r] = "user")

-----------------------------------------------------------------------------
(* The inductive invariant behind WaitTargets and OwnRequestsComplete. *)

\* Only WAIT_TARGETS uses the barrier, and the threads only complete requests.
PlaceOK ==
  /\ reconf.strategy # "wait_targets" =>
       arrived = {} /\ \A r \in Ranks : pc[r] # "wait_barrier"
  /\ \A r \in Ranks : pc[r] = "joining" => reconf.strategy = "pthread"
  /\ \A p \in Sources : tpc[p] = "done" => p \in complete

\* A child joins the barrier with its data, and whatever lets a source leave (its answer,
\* the result of the reduction, the end of its wait) means that its barrier is complete.
BarrierOK ==
  reconf.strategy = "wait_targets" =>
    /\ reconf.children \cap arrived \subseteq complete
    /\ \A p \in Sources :
         /\ contrib[p] = "yes" => BarrierDone(p, arrived)
         /\ decision[p] = "yes" => BarrierDone(p, arrived)
         /\ entries /\ pc[p] \in {"ending", "win_free", "user_start", "user"}
              => BarrierDone(p, arrived)

\* Without WAIT_TARGETS what lets a rank leave is that its own requests are complete.
LeaveOK ==
  /\ reconf.strategy = "none" =>
       \A p \in Sources : contrib[p] = "yes" \/ decision[p] = "yes" => p \in complete
  /\ reconf.strategy # "wait_targets" => \A r \in Ranks : pc[r] = "ending" => r \in complete
  /\ entries => Left \subseteq complete

IInv == TypeOK /\ PlaceOK /\ BarrierOK /\ LeaveOK
-----------------------------------------------------------------------------
(* The inductive invariant behind LeaveTogether. *)

\* A source that has left the calls that poll.
Out(p) == pc[p] \notin {"start", "pending", "reducing"}

\* The reductions whose result a source has, up to the bound.
Rounds(p) == IF decision[p] # "none" /\ polls[p] < MaxPolls THEN polls[p] + 1 ELSE polls[p]

\* Everybody has had the answer that lets the sources leave.
Agreed == \A p \in Sources : Out(p) \/ decision[p] = "yes"

\* A source is in a reduction, or has its result, while it reduces, and never both; all
\* have had as many results; whoever is out has waited, or all leave with it.
RoundOK ==
  /\ \A p \in Sources :
       /\ pc[p] = "reducing" <=> contrib[p] # "none" \/ decision[p] # "none"
       /\ contrib[p] = "none" \/ decision[p] = "none"
       /\ contrib[p] # "none" /\ reconf.waits => polls[p] < MaxPolls
       /\ entries \/ pc[p] \in {"start", "user_start", "user"}
       /\ decision[p] = "yes" => Agreed
       /\ entries /\ Out(p) => Agreed \/ (reconf.waits /\ polls[p] = MaxPolls)
  /\ \A p, q \in Sources : Rounds(p) = Rounds(q)
=============================================================================
