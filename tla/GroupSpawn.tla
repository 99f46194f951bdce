----------------------------- MODULE GroupSpawn -----------------------------
(***************************************************************************)
(* What the spawn step promises to the rest of MaM, whatever the strategy  *)
(* that creates the processes: a source is told that the spawn has         *)
(* finished only when every source holds the communicator of the new       *)
(* group, and what it was told is never taken back.                        *)
(***************************************************************************)
CONSTANT Sources

VARIABLES
  connected,   \* sources that hold the communicator of the new group
  told         \* sources whose check_spawn_state has returned a final state

vars == <<connected, told>>

TypeOK == /\ connected \subseteq Sources
          /\ told \subseteq Sources

Init == connected = {} /\ told = {}

\* The communicator of one source becomes usable.
Connect(p) ==
  /\ p \notin connected
  /\ connected' = connected \cup {p}
  /\ UNCHANGED told

\* One source learns that the spawn has finished.
Tell(p) ==
  /\ connected = Sources
  /\ p \notin told
  /\ told' = told \cup {p}
  /\ UNCHANGED connected

Next == \E p \in Sources : Connect(p) \/ Tell(p)

Spec == Init /\ [][Next]_vars
=============================================================================
