----------------------------- MODULE Malleable -----------------------------
(* What a malleable application promises, whatever carries it out: the work *)
(* of its phases is a row of iterations, each executed once and in order,   *)
(* and the groups of processes of its plan succeed each other without       *)
(* losing, repeating or holding up any of it.  Only an application that has *)
(* done all its work may be lost, with the resizes still ahead of it.       *)
EXTENDS Naturals, Sequences

VARIABLES
  plan,      \* processes of each group, and iterations of all the phases
  group,     \* the group at work, from 1
  size,      \* its processes
  position,  \* iterations executed
  lost       \* whether the job has ended on its own

vars == <<plan, group, size, position, lost>>

Init ==
  /\ group = 1 /\ position = 0 /\ lost = FALSE
  /\ size = plan.procs[1]

Iterate ==
  /\ position < plan.work /\ ~lost
  /\ position' = position + 1
  /\ UNCHANGED <<plan, group, size, lost>>

Resize ==
  /\ group < Len(plan.procs) /\ ~lost
  /\ group' = group + 1
  /\ size' = plan.procs[group + 1]
  /\ UNCHANGED <<plan, position, lost>>

Lose ==
  /\ position = plan.work /\ ~lost
  /\ lost' = TRUE
  /\ UNCHANGED <<plan, group, size, position>>

Next == Iterate \/ Resize \/ Lose

\* Every iteration of the plan happens in the end, and every resize of a job that
\* is not lost.
Spec == Init /\ [][Next]_vars /\ WF_vars(Iterate \/ Resize)
=============================================================================
