----------------------------- MODULE AsyncSpawn -----------------------------
(***************************************************************************)
(* The asynchronous spawn of MaM (strategy PTHREAD): GenericSpawn.c,       *)
(* Spawn_state.c, Strategy_Single.c, Merge.c and the handlers of           *)
(* MAM_Manager.c that drive them.                                          *)
(*                                                                         *)
(* Every source runs two threads: the master, which calls MAM_Checkpoint,  *)
(* and the detached auxiliary thread of thread_work, which creates the     *)
(* processes.  The two share spawn_state, a mutex and two condition        *)
(* variables; the masters agree with collectives on mall->comm and the     *)
(* auxiliary threads with collectives on mall->thread_comm.                *)
(*                                                                         *)
(* A step is one critical section of spawn_mutex, one MPI call, or a run   *)
(* of local instructions no other thread can observe.                      *)
(***************************************************************************)
EXTENDS MaMStates, FiniteSets

CONSTANTS
  Sources,         \* ranks of the group that reconfigures
  Root,            \* mall->root
  Explored,        \* what is spawned: modes to start from, see below
  MaxPolls,        \* calls made with MAM_CHECK_COMPLETION before LastWait rules
  LastWait,        \* TRUE: the later calls use MAM_WAIT_COMPLETION
  Leftovers,       \* sets of sources that may start with waiting_redistribution set
  Spurious,        \* modes in which pthread_cond_wait may return without a signal
  MaxRedist        \* bound on the redistributions a source may run

(***************************************************************************)
(* "generic": Baseline or Merge expand, every source has a thread.         *)
(* "single" : strategy SINGLE, the root spawns alone and the others join.  *)
(* "shrink" : Merge shrink, the threads wait for the data redistribution.  *)
(* MAM_Check_configuration removes SINGLE from a Merge shrink.             *)
(***************************************************************************)
Modes == {"generic", "single", "shrink"}

ASSUME SpawnAssumption ==
  /\ IsFiniteSet(Sources)
  /\ Root \in Sources
  /\ Explored \subseteq Modes
  /\ MaxPolls \in Nat
  /\ LastWait \in BOOLEAN
  /\ Leftovers \subseteq SUBSET Sources
  /\ Spurious \subseteq Modes
  /\ MaxRedist \in Nat

NoValue == UNRESERVED   \* an empty slot: no call ever carries this state

VARIABLES
  spawn_state,             \* Spawn_state.c: the state shared by the two threads
  waiting_completion,      \* Spawn_state.c: flag of completion_cond
  waiting_redistribution,  \* Spawn_state.c: flag of spawn_cond
  freed,                   \* spawn_data == NULL and the mutex destroyed
  state,                   \* MAM_Manager.c: state of the rank
  mpc, mlocal,             \* master: where it is, and its local_state
  tpc, tlocal, taux,       \* thread: where it is, its local_state and aux_state
  polls,                   \* calls of MAM_Checkpoint made with MAM_CHECK_COMPLETION
  bcast,                   \* value of MPI_Bcast on its way to a source
  contrib, reduced,        \* MPI_Allreduce: value given, result not yet taken
  children,                \* the spawned group, as the root sees it
  linked,                  \* sources whose io_child is the new communicator
  redist,                  \* redistributions each source has been through
  mode,                    \* what this reconfiguration spawns, see above
  stale,                   \* history: sources that start with waiting_redistribution set
  fault                    \* a rank used spawn_data after it was freed, or aborted

masterVars == <<mpc, mlocal, polls>>
threadVars == <<tpc, tlocal, taux>>
mpiVars    == <<bcast, contrib, reduced>>
flagVars   == <<waiting_completion, waiting_redistribution>>
vars == <<spawn_state, flagVars, freed, state, masterVars, threadVars, mpiVars,
          children, linked, redist, fault, mode, stale>>

(***************************************************************************)
(* Both flags start with either value: a wake-up leaves its flag set when  *)
(* nobody waits, and init_spawn_state does not reset it.  So does, for     *)
(* waiting_redistribution, the second unset_spawn_postpone_flag of a Merge *)
(* shrink whose PENDING generic_spawn had replaced.  Only a Merge shrink   *)
(* is explored with that flag set: no other thread is meant to read it.    *)
(***************************************************************************)
Init ==
  /\ mode \in Explored
  /\ spawn_state = [p \in Sources |-> NOT_STARTED]
  /\ waiting_completion \in [Sources -> BOOLEAN]
  /\ stale \in Leftovers \cup {{}}
  /\ mode # "shrink" => stale = {}
  /\ waiting_redistribution = [p \in Sources |-> p \in stale]
  /\ freed = [p \in Sources |-> TRUE]
  /\ state = [p \in Sources |-> RMS_COMPLETED]
  /\ mpc = [p \in Sources |-> "spawn_start"]
  /\ mlocal = [p \in Sources |-> NoValue]
  /\ tpc = [p \in Sources |-> "none"]
  /\ tlocal = [p \in Sources |-> NoValue]
  /\ taux = [p \in Sources |-> NoValue]
  /\ polls = [p \in Sources |-> 0]
  /\ bcast = [p \in Sources |-> NoValue]
  /\ contrib = [p \in Sources |-> NoValue]
  /\ reduced = [p \in Sources |-> NoValue]
  /\ children = "none"
  /\ linked = {}
  /\ redist = [p \in Sources |-> 0]
  /\ fault = FALSE

-----------------------------------------------------------------------------
(* Spawn_state.c and local moves. *)

\* A fault of one rank ends the job: nothing moves any more.
Master(p, from, to) == ~fault /\ mpc[p] = from /\ mpc' = [mpc EXCEPT ![p] = to]

Thread(p, from, to) == ~fault /\ tpc[p] = from /\ tpc' = [tpc EXCEPT ![p] = to]

SetSpawnState(p, v) == spawn_state' = [spawn_state EXCEPT ![p] = v]

\* i_wait_completed of the call the master of p is in.
Waits(p) == mode = "shrink" \/ (LastWait /\ polls[p] = MaxPolls)

\* Mutant: a wake-up that finds nobody waiting leaves no trace.
MutWakeupCompletion(p) ==
  /\ mpc' = IF waiting_completion[p] /\ mpc[p] = "blocked"
              THEN [mpc EXCEPT ![p] = "signalled"] ELSE mpc
  /\ UNCHANGED waiting_completion

\* wakeup_completion: the flag is set whether somebody waits or not.
WakeupCompletion(p) ==
  /\ mpc' = IF waiting_completion[p] /\ mpc[p] = "blocked"
              THEN [mpc EXCEPT ![p] = "signalled"] ELSE mpc
  /\ waiting_completion' = [waiting_completion EXCEPT ![p] = TRUE]

-----------------------------------------------------------------------------
(* The master: init_spawn. *)

InitialState(p) ==
  CASE mode = "shrink"  -> SPAWN_ADAPT_POSTPONE
    [] mode = "single"  -> SPAWN_SINGLE_PENDING
    [] mode = "generic" -> SPAWN_PENDING

\* MAM_St_spawn_start and init_spawn: publish the state, then create the thread.
InitSpawn(p) ==
  /\ Master(p, "spawn_start", IF mode = "shrink" THEN "redistribute" ELSE "checkpoint")
  /\ SetSpawnState(p, InitialState(p))
  /\ state' = [state EXCEPT ![p] = InitialState(p)]
  /\ freed' = [freed EXCEPT ![p] = FALSE]
  /\ tpc' = IF mode # "single" \/ p = Root THEN [tpc EXCEPT ![p] = "spawn"] ELSE tpc
  /\ UNCHANGED <<flagVars, mlocal, polls, tlocal, taux, mpiVars, children, linked, redist, fault, mode, stale>>

-----------------------------------------------------------------------------
(* The master: check_spawn_state. *)

\* The state that MAM_Checkpoint keeps; a final one frees spawn_data.
Return(p, v) ==
  /\ state' = [state EXCEPT ![p] = v]
  /\ freed' = [freed EXCEPT ![p] = v \in SpawnFinished]
  /\ polls' = [polls EXCEPT ![p] = IF @ < MaxPolls THEN @ + 1 ELSE @]
  /\ mpc' = [mpc EXCEPT ![p] = CASE v \in SpawnFinished -> "finished"
                                 [] v = SPAWN_ADAPT_POSTPONE -> "redistribute"
                                 [] OTHER -> "checkpoint"]

\* get_spawn_state and the choice of the path: Single, generic or postponed.  Any other
\* state aborts the job: NeverInvalid says that there is none.
CheckSpawnState(p) ==
  LET s == spawn_state[p] IN
  /\ ~fault /\ mpc[p] = "checkpoint"
  /\ mlocal' = [mlocal EXCEPT ![p] = s]
  /\ \/ /\ s \in {SPAWN_SINGLE_PENDING, SPAWN_SINGLE_COMPLETED}
        /\ Master(p, "checkpoint",
                  CASE p # Root -> "bcast_recv"
                    [] p = Root /\ Waits(p) /\ s = SPAWN_SINGLE_PENDING -> "wait"
                    [] OTHER -> "bcast_send")
        /\ UNCHANGED <<state, freed, polls>>
     \/ /\ s \in {SPAWN_PENDING} \cup SpawnFinished
        /\ Master(p, "checkpoint", IF Waits(p) /\ s = SPAWN_PENDING THEN "wait" ELSE "allreduce")
        /\ UNCHANGED <<state, freed, polls>>
     \/ /\ s = SPAWN_ADAPT_POSTPONE
        /\ Return(p, s)
  /\ UNCHANGED <<spawn_state, flagVars, threadVars, mpiVars, children, linked, redist, fault, mode, stale>>

\* wait_completion: block unless a wake-up has been left in the flag.
WaitCompletion(p) ==
  /\ Master(p, "wait", IF waiting_completion[p] THEN "reread" ELSE "blocked")
  /\ waiting_completion' = [waiting_completion EXCEPT ![p] = ~@]
  /\ UNCHANGED <<spawn_state, waiting_redistribution, freed, state, mlocal, polls, threadVars,
                 mpiVars, children, linked, redist, fault, mode, stale>>

\* pthread_cond_wait returns with the mutex held and the flag is cleared.
WokenCompletion(p) ==
  /\ \/ Master(p, "signalled", "reread")
     \/ mode \in Spurious /\ Master(p, "blocked", "reread")
  /\ waiting_completion' = [waiting_completion EXCEPT ![p] = FALSE]
  /\ UNCHANGED <<spawn_state, waiting_redistribution, freed, state, mlocal, polls, threadVars,
                 mpiVars, children, linked, redist, fault, mode, stale>>

\* Mutant: the loops around wait_completion test their condition once.
MutRereadState(p) ==
  LET s == spawn_state[p] IN
  /\ Master(p, "reread", IF mlocal[p] = SPAWN_SINGLE_PENDING THEN "bcast_send" ELSE "allreduce")
  /\ mlocal' = [mlocal EXCEPT ![p] = s]
  /\ UNCHANGED <<spawn_state, flagVars, freed, state, polls, threadVars, mpiVars,
                 children, linked, redist, fault, mode, stale>>

\* The get_spawn_state at the end of wait_completion and the loop of its caller.
RereadState(p) ==
  LET s == spawn_state[p] IN
  /\ Master(p, "reread", CASE s = mlocal[p] -> "wait"
                           [] mlocal[p] = SPAWN_SINGLE_PENDING -> "bcast_send"
                           [] OTHER -> "allreduce")
  /\ mlocal' = [mlocal EXCEPT ![p] = s]
  /\ UNCHANGED <<spawn_state, flagVars, freed, state, polls, threadVars, mpiVars,
                 children, linked, redist, fault, mode, stale>>

(***************************************************************************)
(* check_single_state.  The root of MPI_Bcast returns before the others    *)
(* have received; it is at most one broadcast ahead of each of them.       *)
(***************************************************************************)
BcastSend(p) ==
  /\ p = Root
  /\ Master(p, "bcast_send", "single_apply")
  /\ \A q \in Sources \ {p} : bcast[q] = NoValue
  /\ bcast' = [q \in Sources |-> IF q = p THEN NoValue ELSE mlocal[p]]
  /\ UNCHANGED <<spawn_state, flagVars, freed, state, mlocal, polls, threadVars, contrib, reduced,
                 children, linked, redist, fault, mode, stale>>

BcastRecv(p) ==
  /\ Master(p, "bcast_recv", "single_apply")
  /\ bcast[p] # NoValue
  /\ mlocal' = [mlocal EXCEPT ![p] = bcast[p]]
  /\ bcast' = [bcast EXCEPT ![p] = NoValue]
  /\ UNCHANGED <<spawn_state, flagVars, freed, state, polls, threadVars, contrib, reduced,
                 children, linked, redist, fault, mode, stale>>

\* Mutant: only the root advances its own state.
MutSingleApply(p) ==
  /\ ~fault /\ mpc[p] = "single_apply"
  /\ IF mlocal[p] = SPAWN_SINGLE_COMPLETED
       THEN /\ IF p = Root THEN SetSpawnState(p, SPAWN_PENDING) ELSE UNCHANGED spawn_state
            /\ tpc' = IF p # Root THEN [tpc EXCEPT ![p] = "connect"] ELSE tpc
            /\ Return(p, SPAWN_PENDING)
       ELSE Return(p, mlocal[p]) /\ UNCHANGED <<spawn_state, tpc>>
  /\ UNCHANGED <<flagVars, mlocal, tlocal, taux, mpiVars, children, linked, redist, fault, mode, stale>>

\* What every source does with the broadcast value: the port is known, so join.
SingleApply(p) ==
  /\ ~fault /\ mpc[p] = "single_apply"
  /\ IF mlocal[p] = SPAWN_SINGLE_COMPLETED
       THEN /\ SetSpawnState(p, SPAWN_PENDING)
            /\ tpc' = IF p # Root THEN [tpc EXCEPT ![p] = "connect"] ELSE tpc
            /\ Return(p, SPAWN_PENDING)
       ELSE Return(p, mlocal[p]) /\ UNCHANGED <<spawn_state, tpc>>
  /\ UNCHANGED <<flagVars, mlocal, tlocal, taux, mpiVars, children, linked, redist, fault, mode, stale>>

(***************************************************************************)
(* check_generic_state: MPI_Allreduce with MPI_MIN over the sources.       *)
(***************************************************************************)
\* Mutant: MPI_MAX.
MutMinimum(v, f) == (\E p \in Sources : v = f[p]) /\ (\A p \in Sources : v >= f[p])

Minimum(v, f) == (\E p \in Sources : v = f[p]) /\ (\A p \in Sources : v <= f[p])

AllreduceEnter(p) ==
  /\ Master(p, "allreduce", "reducing")
  /\ contrib' = [contrib EXCEPT ![p] = mlocal[p]]
  /\ UNCHANGED <<spawn_state, flagVars, freed, state, mlocal, polls, threadVars, bcast, reduced,
                 children, linked, redist, fault, mode, stale>>

AllreduceCombine ==
  /\ ~fault /\ \A p \in Sources : contrib[p] # NoValue
  /\ \E v \in InnerStates :
       Minimum(v, contrib) /\ reduced' = [p \in Sources |-> v]
  /\ contrib' = [p \in Sources |-> NoValue]
  /\ UNCHANGED <<spawn_state, flagVars, freed, state, masterVars, threadVars, bcast,
                 children, linked, redist, fault, mode, stale>>

\* Mutant: the source goes by its own state and not by the reduced one.
MutAllreduceLeave(p) ==
  /\ ~fault /\ mpc[p] = "reducing"
  /\ reduced[p] # NoValue
  /\ reduced' = [reduced EXCEPT ![p] = NoValue]
  /\ Return(p, mlocal[p])
  /\ UNCHANGED <<spawn_state, flagVars, mlocal, threadVars, bcast, contrib, children, linked,
                 redist, fault, mode, stale>>

AllreduceLeave(p) ==
  /\ ~fault /\ mpc[p] = "reducing"
  /\ reduced[p] # NoValue
  /\ reduced' = [reduced EXCEPT ![p] = NoValue]
  /\ IF reduced[p] \in SpawnFinished THEN SetSpawnState(p, reduced[p]) ELSE UNCHANGED spawn_state
  /\ Return(p, reduced[p])
  /\ UNCHANGED <<flagVars, mlocal, threadVars, bcast, contrib, children, linked, redist, fault, mode, stale>>

-----------------------------------------------------------------------------
(* The master of a Merge shrink: redistribution, then the postponed spawn. *)

\* From MAM_St_red_start to end_redistribution: collectives of all the sources.
Redistribute(p) ==
  /\ redist[p] < MaxRedist
  /\ \A q \in Sources : redist[q] > redist[p] \/ mpc[q] = "redistribute"
  /\ Master(p, "redistribute", "unset_read")
  /\ redist' = [redist EXCEPT ![p] = @ + 1]
  /\ state' = [state EXCEPT ![p] = SPAWN_ADAPT_PENDING]
  /\ UNCHANGED <<spawn_state, flagVars, freed, mlocal, polls, threadVars, mpiVars,
                 children, linked, fault, mode, stale>>

\* unset_spawn_postpone_flag: read, write and signal are three critical sections.
UnsetRead(p) ==
  /\ Master(p, "unset_read",
            IF spawn_state[p] = SPAWN_ADAPT_POSTPONE THEN "unset_write" ELSE "checkpoint")
  /\ UNCHANGED <<spawn_state, flagVars, freed, state, mlocal, polls, threadVars, mpiVars,
                 children, linked, redist, fault, mode, stale>>

UnsetWrite(p) ==
  /\ Master(p, "unset_write", "unset_wakeup")
  /\ SetSpawnState(p, SPAWN_PENDING)
  /\ UNCHANGED <<flagVars, freed, state, mlocal, polls, threadVars, mpiVars,
                 children, linked, redist, fault, mode, stale>>

\* Mutant: a wake-up that finds nobody waiting leaves no trace.
MutUnsetWakeup(p) ==
  /\ Master(p, "unset_wakeup", "checkpoint")
  /\ tpc' = IF waiting_redistribution[p] /\ tpc[p] = "blocked"
              THEN [tpc EXCEPT ![p] = "signalled"] ELSE tpc
  /\ UNCHANGED <<spawn_state, flagVars, freed, state, mlocal, polls, tlocal, taux,
                 mpiVars, children, linked, redist, fault, mode, stale>>

\* wakeup_redistribution
UnsetWakeup(p) ==
  /\ Master(p, "unset_wakeup", "checkpoint")
  /\ tpc' = IF waiting_redistribution[p] /\ tpc[p] = "blocked"
              THEN [tpc EXCEPT ![p] = "signalled"] ELSE tpc
  /\ waiting_redistribution' = [waiting_redistribution EXCEPT ![p] = TRUE]
  /\ UNCHANGED <<spawn_state, waiting_completion, freed, state, mlocal, polls, tlocal, taux,
                 mpiVars, children, linked, redist, fault, mode, stale>>

-----------------------------------------------------------------------------
(* The auxiliary thread: generic_spawn, first part. *)

\* A collective of the threads, which yields the communicator of the new group: no
\* thread leaves it before all have come to it.
Collective(at) == \A q \in Sources : tpc[q] = at \/ q \in linked

\* mam_spawn on thread_comm and, for Merge, MPI_Intercomm_merge; a shrink has nothing to do.
GenericSpawn(p) ==
  /\ mode # "single"
  /\ IF mode = "generic"
       THEN Collective("spawn") /\ linked' = linked \cup {p}
       ELSE UNCHANGED linked
  /\ Thread(p, "spawn", "report")
  /\ tlocal' = [tlocal EXCEPT ![p] = IF mode = "shrink" THEN SPAWN_ADAPT_POSTPONE
                                                        ELSE SPAWN_COMPLETED]
  /\ UNCHANGED <<spawn_state, flagVars, freed, state, masterVars, taux, mpiVars,
                 children, redist, fault, mode, stale>>

\* baseline_parents of the root under SINGLE: spawn over MPI_COMM_SELF.
SingleSpawn(p) ==
  /\ p = Root
  /\ mode = "single"
  /\ Thread(p, "spawn", "recv_port")
  /\ children' = "spawned"
  /\ UNCHANGED <<spawn_state, flagVars, freed, state, masterVars, tlocal, taux, mpiVars,
                 linked, redist, fault, mode, stale>>

\* single_strat_children: the root of the children opens a port and sends its name.
ChildrenSendPort ==
  /\ ~fault /\ children = "spawned"
  /\ children' = "port_sent"
  /\ UNCHANGED <<spawn_state, flagVars, freed, state, masterVars, threadVars, mpiVars,
                 linked, redist, fault, mode, stale>>

\* Mutant: the state is advanced without receiving the port.
MutSingleRecvPort(p) ==
  /\ p = Root
  /\ Thread(p, "recv_port", "single_set")
  /\ UNCHANGED <<spawn_state, flagVars, freed, state, masterVars, tlocal, taux, mpiVars,
                 children, linked, redist, fault, mode, stale>>

\* single_strat_parents of the root, up to the connection.
SingleRecvPort(p) ==
  /\ p = Root
  /\ children = "port_sent"
  /\ Thread(p, "recv_port", "single_set")
  /\ UNCHANGED <<spawn_state, flagVars, freed, state, masterVars, tlocal, taux, mpiVars,
                 children, linked, redist, fault, mode, stale>>

SingleSet(p) ==
  /\ p = Root
  /\ Thread(p, "single_set", "single_wakeup")
  /\ SetSpawnState(p, SPAWN_SINGLE_COMPLETED)
  /\ UNCHANGED <<flagVars, freed, state, masterVars, tlocal, taux, mpiVars,
                 children, linked, redist, fault, mode, stale>>

SingleWakeup(p) ==
  /\ p = Root
  /\ Thread(p, "single_wakeup", "connect")
  /\ WakeupCompletion(Root)
  /\ UNCHANGED <<spawn_state, waiting_redistribution, freed, state, mlocal, polls, tlocal, taux,
                 mpiVars, children, linked, redist, fault, mode, stale>>

\* MPI_Comm_connect of all the sources, answered by MPI_Comm_accept of the children.
SingleConnect(p) ==
  /\ Collective("connect")
  /\ Thread(p, "connect", "report")
  /\ linked' = linked \cup {p}
  /\ tlocal' = [tlocal EXCEPT ![p] = SPAWN_COMPLETED]
  /\ UNCHANGED <<spawn_state, flagVars, freed, state, masterVars, taux, mpiVars,
                 children, redist, fault, mode, stale>>

-----------------------------------------------------------------------------
(* The auxiliary thread: end of generic_spawn and thread_work. *)

\* aux_state = get_spawn_state(...)
ReadAux(p) ==
  /\ Thread(p, "report", "write")
  /\ taux' = [taux EXCEPT ![p] = spawn_state[p]]
  /\ UNCHANGED <<spawn_state, flagVars, freed, state, masterVars, tlocal, mpiVars,
                 children, linked, redist, fault, mode, stale>>

\* set_spawn_state, decided on the value read before.
WriteState(p) ==
  /\ Thread(p, "write", IF tlocal[p] = SPAWN_ADAPTED THEN "wakeup" ELSE "after_spawn")
  /\ IF taux[p] = SPAWN_PENDING /\ tlocal[p] = SPAWN_ADAPT_POSTPONE
       THEN UNCHANGED spawn_state
       ELSE SetSpawnState(p, tlocal[p])
  /\ UNCHANGED <<flagVars, freed, state, masterVars, tlocal, taux, mpiVars,
                 children, linked, redist, fault, mode, stale>>

\* The read of thread_work that decides whether the redistribution is awaited.
AfterSpawn(p) ==
  /\ Thread(p, "after_spawn",
            IF spawn_state[p] \in {SPAWN_ADAPT_POSTPONE, SPAWN_PENDING} THEN "wait" ELSE "wakeup")
  /\ UNCHANGED <<spawn_state, flagVars, freed, state, masterVars, tlocal, taux, mpiVars,
                 children, linked, redist, fault, mode, stale>>

\* Mutant: the flag is tested the other way round.
MutWaitRedistribution(p) ==
  /\ Thread(p, "wait", IF waiting_redistribution[p] THEN "blocked" ELSE "split")
  /\ waiting_redistribution' = [waiting_redistribution EXCEPT ![p] = ~@]
  /\ UNCHANGED <<spawn_state, waiting_completion, freed, state, masterVars, tlocal, taux, mpiVars,
                 children, linked, redist, fault, mode, stale>>

\* wait_redistribution: block unless the master has been here before.
WaitRedistribution(p) ==
  /\ Thread(p, "wait", IF waiting_redistribution[p] THEN "split" ELSE "blocked")
  /\ waiting_redistribution' = [waiting_redistribution EXCEPT ![p] = ~@]
  /\ UNCHANGED <<spawn_state, waiting_completion, freed, state, masterVars, tlocal, taux, mpiVars,
                 children, linked, redist, fault, mode, stale>>

\* wait_redistribution tests its condition once: any return goes on to the split.
WokenRedistribution(p) ==
  /\ \/ Thread(p, "signalled", "split")
     \/ mode \in Spurious /\ Thread(p, "blocked", "split")
  /\ waiting_redistribution' = [waiting_redistribution EXCEPT ![p] = FALSE]
  /\ UNCHANGED <<spawn_state, waiting_completion, freed, state, masterVars, tlocal, taux, mpiVars,
                 children, linked, redist, fault, mode, stale>>

\* The second generic_spawn: merge_adapt_shrink, a split of thread_comm.
ShrinkSplit(p) ==
  /\ mode = "shrink"
  /\ Collective("split")
  /\ Thread(p, "split", "report")
  /\ linked' = linked \cup {p}
  /\ tlocal' = [tlocal EXCEPT ![p] = SPAWN_ADAPTED]
  /\ UNCHANGED <<spawn_state, flagVars, freed, state, masterVars, taux, mpiVars,
                 children, redist, fault, mode, stale>>

\* wakeup_completion and the end of the thread.
ThreadEnd(p) ==
  /\ Thread(p, "wakeup", "done")
  /\ WakeupCompletion(p)
  /\ UNCHANGED <<spawn_state, waiting_redistribution, freed, state, mlocal, polls, tlocal, taux,
                 mpiVars, children, linked, redist, fault, mode, stale>>

(***************************************************************************)
(* The thread still has spawn_data and the mutex to use.  Once the master  *)
(* has freed them the build may survive the use (the two actions above) or *)
(* the rank dies, and MPI ends the job.                                    *)
(***************************************************************************)
UseAfterFree(p) ==
  /\ ~fault /\ freed[p]
  /\ tpc[p] \in {"after_spawn", "wakeup"}
  /\ fault' = TRUE
  /\ UNCHANGED <<spawn_state, flagVars, freed, state, masterVars, threadVars, mpiVars,
                 children, linked, redist, mode, stale>>

-----------------------------------------------------------------------------
MasterStep(p) ==
  \/ InitSpawn(p) \/ CheckSpawnState(p)
  \/ WaitCompletion(p) \/ WokenCompletion(p) \/ RereadState(p)
  \/ BcastSend(p) \/ BcastRecv(p) \/ SingleApply(p)
  \/ AllreduceEnter(p) \/ AllreduceLeave(p)
  \/ Redistribute(p) \/ UnsetRead(p) \/ UnsetWrite(p) \/ UnsetWakeup(p)

ThreadStep(p) ==
  \/ GenericSpawn(p) \/ SingleConnect(p)
  \/ SingleSpawn(p) \/ SingleRecvPort(p) \/ SingleSet(p) \/ SingleWakeup(p)
  \/ ReadAux(p) \/ WriteState(p) \/ AfterSpawn(p)
  \/ WaitRedistribution(p) \/ WokenRedistribution(p) \/ ShrinkSplit(p)
  \/ ThreadEnd(p) \/ UseAfterFree(p)

\* MPI itself, and the children, move without the sources.
OtherStep == AllreduceCombine \/ ChildrenSendPort

Next == (\E p \in Sources : MasterStep(p) \/ ThreadStep(p)) \/ OtherStep

Spec == Init /\ [][Next]_vars

(***************************************************************************)
(* The operating system runs every thread, MPI makes progress and the      *)
(* application keeps calling MAM_Checkpoint.  Only meaningful without      *)
(* Spurious: nothing obliges pthread_cond_wait to return unsignalled.      *)
(***************************************************************************)
Fairness ==
  /\ \A p \in Sources : WF_vars(MasterStep(p)) /\ WF_vars(ThreadStep(p))
  /\ WF_vars(OtherStep)

FairSpec == Spec /\ Fairness

-----------------------------------------------------------------------------
(* Properties. *)

MasterPlaces == {"spawn_start", "checkpoint", "wait", "blocked", "signalled", "reread",
                 "bcast_send", "bcast_recv", "single_apply", "allreduce", "reducing",
                 "redistribute", "unset_read", "unset_write", "unset_wakeup", "finished"}

ThreadPlaces == {"none", "spawn", "recv_port", "single_set", "single_wakeup", "connect",
                 "report", "write", "after_spawn", "wait", "blocked", "signalled", "split",
                 "wakeup", "done"}

\* Every variable keeps its type.
TypeOK ==
  /\ mode \in Modes
  /\ spawn_state \in [Sources -> InnerStates]
  /\ waiting_completion \in [Sources -> BOOLEAN]
  /\ waiting_redistribution \in [Sources -> BOOLEAN]
  /\ freed \in [Sources -> BOOLEAN]
  /\ state \in [Sources -> InnerStates]
  /\ mpc \in [Sources -> MasterPlaces]
  /\ mlocal \in [Sources -> InnerStates]
  /\ tpc \in [Sources -> ThreadPlaces]
  /\ tlocal \in [Sources -> InnerStates]
  /\ taux \in [Sources -> InnerStates]
  /\ polls \in [Sources -> Nat]
  /\ bcast \in [Sources -> InnerStates]
  /\ contrib \in [Sources -> InnerStates]
  /\ reduced \in [Sources -> InnerStates]
  /\ children \in {"none", "spawned", "port_sent"}
  /\ linked \subseteq Sources
  /\ redist \in [Sources -> Nat]
  /\ fault \in BOOLEAN
  /\ stale \subseteq Sources

Told == {p \in Sources : state[p] \in SpawnFinished}

(***************************************************************************)
(* A source acts on a finished spawn (it starts the redistribution, or it  *)
(* commits) only when the thread of every source has produced the new      *)
(* communicator: the MPI_MIN of check_generic_state is the only barrier    *)
(* between the masters and the threads of the other sources.               *)
(***************************************************************************)
CompletedMeansConnected == Told # {} => linked = Sources

(***************************************************************************)
(* The asynchronous spawn keeps the promise of GroupSpawn to the rest of   *)
(* MaM, and in particular never takes a final answer back.                 *)
(***************************************************************************)
Abs == INSTANCE GroupSpawn WITH connected <- linked, told <- Told
AbsSpec == Abs!Spec

(***************************************************************************)
(* The sources never make different collective calls on mall->comm: nobody *)
(* waits in the MPI_Allreduce of check_generic_state while another source  *)
(* waits in the MPI_Bcast of check_single_state for a call that is not     *)
(* coming, although each picks its path from a state its own thread moves. *)
(***************************************************************************)
InAllreduce(p) == mpc[p] \in {"allreduce", "reducing"} /\ reduced[p] = NoValue
InBcast(p) == mpc[p] = "bcast_send" \/ (mpc[p] = "bcast_recv" /\ bcast[p] = NoValue)
CollectivesMatch == \A p, q \in Sources : ~(InAllreduce(p) /\ InBcast(q))

(***************************************************************************)
(* The sources that did not spawn join the connection only when the root   *)
(* has the port of the children: set_spawn_state(SINGLE_COMPLETED) must    *)
(* reach them through the broadcast and never before MPI_Recv.             *)
(***************************************************************************)
JoinAfterPort ==
  mode = "single" =>
    \A p \in Sources \ {Root} : tpc[p] # "none" => children = "port_sent"

(***************************************************************************)
(* check_spawn_state never finds a state it has no branch for, which would *)
(* abort the job: whoever wrote the state last, it is one of the six.      *)
(***************************************************************************)
NeverInvalid ==
  \A p \in Sources : mpc[p] = "checkpoint" =>
    spawn_state[p] \in {SPAWN_PENDING, SPAWN_SINGLE_PENDING, SPAWN_SINGLE_COMPLETED,
                        SPAWN_ADAPT_POSTPONE, SPAWN_COMPLETED, SPAWN_ADAPTED}

(***************************************************************************)
(* Merge shrink: no source splits the group before every source that began *)
(* with its flag clear has been through the redistribution of its data.  A *)
(* flag left by an earlier shrink lets its own thread go on at once, but   *)
(* the split is collective: one clear flag is enough for every source to   *)
(* have come to the redistribution.                                        *)
(***************************************************************************)
SplitAfterRedistribution ==
  mode = "shrink" /\ linked # {} =>
    /\ \A q \in Sources \ stale : redist[q] > 0
    /\ stale # Sources => \A q \in Sources : redist[q] > 0 \/ mpc[q] = "redistribute"

(***************************************************************************)
(* A call made with MAM_WAIT_COMPLETION comes back only with the spawn     *)
(* finished, whatever wakes it up.  Under SINGLE it does not: the waiting  *)
(* call of check_single_state ends with the single step.                   *)
(***************************************************************************)
WaitReturnsFinished ==
  [][\A p \in Sources :
       mode = "generic" /\ Waits(p)
       /\ mpc[p] \notin {"spawn_start", "checkpoint"} /\ mpc'[p] = "checkpoint"
         => state'[p] \in SpawnFinished]_vars

\* Every source ends up holding the communicator of the new group.
EventuallyConnected == <>(fault \/ linked = Sources)

\* Every source is eventually told that the spawn has finished.
SpawnEventuallyFinishes == <>(fault \/ Told = Sources)

\* The same without SINGLE, whose root may lose the final state, and without a shrink,
\* which may have to redistribute again: every wake-up gets to the master it is for.
GenericFinishes == mode = "generic" => SpawnEventuallyFinishes

-----------------------------------------------------------------------------
(* The inductive invariant behind CompletedMeansConnected and AbsSpec. *)

\* The states that travel in each mode.
ModeValues ==
  {NoValue, NOT_STARTED, SPAWN_PENDING} \cup
  CASE mode = "generic" -> {SPAWN_COMPLETED}
    [] mode = "single"  -> {SPAWN_SINGLE_PENDING, SPAWN_SINGLE_COMPLETED, SPAWN_COMPLETED}
    [] mode = "shrink"  -> {SPAWN_ADAPT_POSTPONE, SPAWN_ADAPTED}

ValuesOK ==
  /\ spawn_state \in [Sources -> ModeValues]
  /\ mlocal \in [Sources -> ModeValues]
  /\ tlocal \in [Sources -> ModeValues]
  /\ bcast \in [Sources -> ModeValues]
  /\ contrib \in [Sources -> ModeValues]
  /\ reduced \in [Sources -> ModeValues]
  /\ \A p \in Sources :
       tpc[p] \in {"recv_port", "single_set", "single_wakeup", "connect"} => mode = "single"

\* The states check_spawn_state knows what to do with.
Checkable == {SPAWN_PENDING, SPAWN_SINGLE_PENDING, SPAWN_SINGLE_COMPLETED,
              SPAWN_ADAPT_POSTPONE, SPAWN_COMPLETED, SPAWN_ADAPTED}

CheckOK ==
  \A p \in Sources :
    /\ mpc[p] # "spawn_start" => spawn_state[p] \in Checkable
    /\ tpc[p] # "none" => mpc[p] # "spawn_start"
    /\ tpc[p] \in {"report", "write"} => tlocal[p] \in Checkable

\* A source has been told exactly when its master is done with the spawn.
ToldOK == \A p \in Sources : state[p] \in SpawnFinished <=> mpc[p] = "finished"

\* A final state held by a source means that source is connected; one that has been
\* through a collective means that all are.
FinalOK ==
  /\ \A p \in Sources :
       /\ spawn_state[p] \in SpawnFinished => p \in linked
       /\ tlocal[p] \in SpawnFinished => p \in linked
       /\ mlocal[p] \in SpawnFinished => p \in linked
       /\ contrib[p] \in SpawnFinished => p \in linked
       /\ reduced[p] \in SpawnFinished => linked = Sources
       /\ bcast[p] \in SpawnFinished => linked = Sources
       /\ mlocal[p] \in SpawnFinished /\ mpc[p] \in {"bcast_send", "single_apply"}
            => linked = Sources
  /\ Told # {} => linked = Sources

\* SINGLE: the thread of the root has the port and has said so.
RootHasPort == tpc[Root] \notin {"none", "spawn", "recv_port", "single_set"}

\* SINGLE: the root has broadcast SINGLE_COMPLETED and is past that phase for good.
RootPast ==
  /\ RootHasPort
  /\ \/ mpc[Root] = "single_apply" /\ mlocal[Root] = SPAWN_SINGLE_COMPLETED
     \/ /\ spawn_state[Root] \in {SPAWN_PENDING, SPAWN_COMPLETED}
        /\ \/ mpc[Root] \in {"checkpoint", "allreduce", "reducing", "finished"}
           \/ /\ mpc[Root] \in {"wait", "blocked", "signalled", "reread"}
              /\ mlocal[Root] = SPAWN_PENDING

SingleOK ==
  mode = "single" =>
    /\ bcast[Root] = NoValue
    /\ mpc[Root] = "spawn_start" =>
         /\ spawn_state[Root] = NOT_STARTED /\ mlocal[Root] = NoValue /\ tpc[Root] = "none"
    /\ spawn_state[Root] = SPAWN_SINGLE_COMPLETED \/ mlocal[Root] = SPAWN_SINGLE_COMPLETED
         => RootHasPort
    /\ \A p \in Sources : tpc[p] \in {"report", "write"} => tlocal[p] = SPAWN_COMPLETED
    /\ \A p \in Sources \ {Root} :
         /\ bcast[p] = SPAWN_SINGLE_COMPLETED => RootPast
         /\ mpc[p] = "single_apply" /\ mlocal[p] = SPAWN_SINGLE_COMPLETED => RootPast
         /\ tpc[p] # "none" => RootPast
         /\ p \in linked => tpc[p] # "none"
         /\ mpc[p] \in {"wait", "blocked", "signalled", "reread"} => mlocal[p] = SPAWN_PENDING
    /\ Root \in linked => RootPast \/ Sources = {Root}

IInv == TypeOK /\ ValuesOK /\ CheckOK /\ ToldOK /\ FinalOK /\ SingleOK

-----------------------------------------------------------------------------
(* What JoinAfterPort, CollectivesMatch and SplitAfterRedistribution need besides IInv. *)

\* SINGLE: the root goes past MPI_Recv only when the children have sent the port.
PortOK ==
  mode = "single" /\ tpc[Root] \notin {"none", "spawn", "recv_port"} => children = "port_sent"

\* The states of the single step, and those after it.
SingleStates == {SPAWN_SINGLE_PENDING, SPAWN_SINGLE_COMPLETED}
JoinedStates == {SPAWN_PENDING, SPAWN_COMPLETED}

\* SINGLE: the last broadcast, SINGLE_COMPLETED, is on its way to q or q has it.
Announced(q) ==
  \/ tpc[q] # "none"
  \/ bcast[q] = SPAWN_SINGLE_COMPLETED
  \/ mpc[q] = "single_apply" /\ mlocal[q] = SPAWN_SINGLE_COMPLETED

\* SINGLE: a source is in the broadcasts until it joins, and in the reductions afterwards.
OtherMatches(q) ==
  /\ mpc[q] # "bcast_send"
  /\ bcast[q] \in SingleStates \cup {NoValue}
  /\ mpc[q] = "single_apply" => mlocal[q] \in SingleStates
  /\ tpc[q] = "none" => /\ spawn_state[q] \in {NOT_STARTED, SPAWN_SINGLE_PENDING}
                        /\ mpc[q] \in {"spawn_start", "checkpoint", "bcast_recv", "single_apply"}
  /\ tpc[q] # "none" => /\ spawn_state[q] \in JoinedStates
                        /\ mpc[q] \notin {"bcast_recv", "single_apply"}
  /\ RootPast => Announced(q)

\* SINGLE: the same for the root, whose own thread moves its state under it.
RootMatches ==
  /\ spawn_state[Root] \in JoinedStates => RootPast
  /\ mpc[Root] \in {"allreduce", "reducing"} => RootPast
  /\ mpc[Root] \in {"wait", "blocked", "signalled", "reread"} =>
       mlocal[Root] = SPAWN_SINGLE_PENDING \/ RootPast
  /\ mpc[Root] \in {"bcast_send", "single_apply"} => mlocal[Root] \in SingleStates

MatchOK ==
  /\ mode # "single" =>
       \A p \in Sources : mpc[p] \notin {"bcast_send", "bcast_recv", "single_apply"}
  /\ mode = "single" =>
       /\ mpc[Root] # "bcast_recv"
       /\ \A p \in Sources :
            mpc[p] \notin {"redistribute", "unset_read", "unset_write", "unset_wakeup"}
       /\ \A q \in Sources \ {Root} : OtherMatches(q)
       /\ Sources # {Root} => RootMatches

\* Merge shrink: the thread of a source whose flag was clear goes past
\* wait_redistribution only after the source's own redistribution, unless
\* pthread_cond_wait returns by itself; nobody leaves a redistribution alone.
SplitOK ==
  mode = "shrink" =>
    /\ \A p \in Sources :
         /\ mpc[p] \in {"unset_read", "unset_write", "unset_wakeup"} => redist[p] > 0
         /\ waiting_redistribution[p] /\ tpc[p] # "blocked" => redist[p] > 0 \/ p \in stale
         /\ tpc[p] \in {"signalled", "split"} => redist[p] > 0 \/ p \in stale
         /\ redist[p] > 0 => \A q \in Sources : redist[q] > 0 \/ mpc[q] = "redistribute"
    /\ linked # {} => \A q \in Sources : redist[q] > 0 \/ q \in stale

\* Generic: the reductions a source has had the results of, up to the last polling call.
Calls(p) == IF reduced[p] # NoValue /\ polls[p] < MaxPolls THEN polls[p] + 1 ELSE polls[p]

\* Generic: the sources make their calls together, so that in the reduction of a waiting
\* call everyone has waited and nobody contributes a pending state.
WaitOK ==
  mode = "generic" =>
    /\ \A p \in Sources :
         /\ polls[p] <= MaxPolls
         /\ mpc[p] \notin {"bcast_send", "bcast_recv", "single_apply",
                          "redistribute", "unset_read", "unset_write", "unset_wakeup"}
         /\ mpc[p] \in {"wait", "blocked", "signalled", "reread"} => mlocal[p] = SPAWN_PENDING
         /\ contrib[p] # NoValue => mpc[p] = "reducing" /\ reduced[p] = NoValue /\ contrib[p] = mlocal[p]
         /\ reduced[p] # NoValue => mpc[p] = "reducing"
         /\ Waits(p) /\ mpc[p] \in {"allreduce", "reducing"} => mlocal[p] \in SpawnFinished
         /\ Waits(p) /\ reduced[p] # NoValue => reduced[p] \in SpawnFinished
    /\ \A p, q \in Sources : Calls(p) = Calls(q)
=============================================================================
