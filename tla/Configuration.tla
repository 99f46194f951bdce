--------------------------- MODULE Configuration ---------------------------
(***************************************************************************)
(* The configuration of a reconfiguration (MAM_Configuration.c): the spawn *)
(* method and its strategies, the redistribution method and its            *)
(* strategies, and the number of targets.  The application sets them       *)
(* between reconfigurations, one key at a time or several at once, from    *)
(* ordinals; when a reconfiguration starts MAM_Check_configuration changes *)
(* what it cannot do, and the result stays in place for the next one.      *)
(*                                                                         *)
(* AsyncSpawn, Redistribution and DataMovement take the configurations     *)
(* they model from what Admissible says here.  The placement of the        *)
(* children over nodes and the Valgrind and Extrae wrappers are left out:  *)
(* nothing below reads them.                                               *)
(***************************************************************************)
EXTENDS Integers

CONSTANT MaxProcs     \* bound on the number of sources and of targets

ASSUME ConfigurationAssumption == MaxProcs \in Nat \ {0}

VARIABLES
  started,    \* state > MAM_I_NOT_STARTED
  numP,       \* processes of the application
  numC,       \* processes requested
  internode,  \* some group of the application spans several nodes
  method,     \* mall_conf->spawn_method
  spawn,      \* mall_conf->spawn_strategies
  redMethod,  \* mall_conf->red_method
  red         \* mall_conf->red_strategies

conf == <<method, spawn, redMethod, red>>
settings == <<started, numP, numC, internode, conf>>

Procs == 1 .. MaxProcs

\* The ordinals of each key; 0 clears the strategies.
Methods == <<"BASELINE", "MERGE">>
RedMethods == <<"BASELINE", "POINT", "RMA_LOCK", "RMA_LOCKALL">>
SpawnStrats == <<"PTHREAD", "SINGLE", "INTERCOMM", "MULTIPLE", "PARALLEL">>
RedStrats == <<"PTHREAD", "WAIT_SOURCES", "WAIT_TARGETS">>

SpawnNames == {SpawnStrats[i] : i \in 1 .. 5}
RedNames == {RedStrats[i] : i \in 1 .. 3}

-----------------------------------------------------------------------------
(* The setters. *)

\* What MAM_I_set_spawn_strat removes when it adds strategy s.
SpawnExcludes(s) ==
  CASE s \in {"SINGLE", "MULTIPLE"} -> {"PARALLEL"}
    [] s = "PARALLEL" -> {"SINGLE", "MULTIPLE"}
    [] OTHER -> {}

SetSpawnStrat(S, o) ==
  IF o = 0 THEN {}
  ELSE IF SpawnStrats[o] \in S THEN S
  ELSE (S \union {SpawnStrats[o]}) \ SpawnExcludes(SpawnStrats[o])

\* Adding a redistribution strategy removes the two others.
SetRedStrat(S, o) == IF o = 0 THEN {} ELSE {RedStrats[o]}

\* The value of a key after it is set to ordinal o; out of range is ignored.
NewMethod(o) == IF o \in 0 .. 1 THEN Methods[o + 1] ELSE method
NewRedMethod(o) == IF o \in 0 .. 3 THEN RedMethods[o + 1] ELSE redMethod
NewSpawn(o) == IF o \in 0 .. 5 THEN SetSpawnStrat(spawn, o) ELSE spawn
NewRed(o) == IF o \in 0 .. 3 THEN SetRedStrat(red, o) ELSE red

\* MAM_Set_configuration, the five keys in order.
SetConfiguration(m, s, rm, rs) ==
  /\ ~started
  /\ method' = NewMethod(m)
  /\ spawn' = NewSpawn(s)
  /\ redMethod' = NewRedMethod(rm)
  /\ red' = NewRed(rs)
  /\ UNCHANGED <<started, numP, numC, internode>>

\* MAM_Set_key_configuration: one key, the others as they are.
SetKey(o) ==
  /\ ~started
  /\ \/ method' = NewMethod(o) /\ UNCHANGED <<spawn, redMethod, red>>
     \/ spawn' = NewSpawn(o) /\ UNCHANGED <<method, redMethod, red>>
     \/ redMethod' = NewRedMethod(o) /\ UNCHANGED <<method, spawn, red>>
     \/ red' = NewRed(o) /\ UNCHANGED <<method, spawn, redMethod>>
  /\ UNCHANGED <<started, numP, numC, internode>>

\* MAM_I_set_target_number; 0 is denied.
SetTargetNumber(n) ==
  /\ ~started /\ n # 0
  /\ numC' = n
  /\ UNCHANGED <<started, numP, internode, conf>>

-----------------------------------------------------------------------------
(* MAM_Check_configuration, and the life of a reconfiguration around it. *)

\* A migration, and a shrink that would leave a group over several nodes.
CheckedMethod(inter) ==
  IF \/ numC = numP
     \/ spawn \intersect {"MULTIPLE", "PARALLEL"} # {} /\ inter /\ numP > numC
    THEN "BASELINE" ELSE method

\* Mutant: an intercommunicator is left to one-sided redistribution.
MutCheckedSpawn(inter) ==
  LET merge == CheckedMethod(inter) = "MERGE"
  IN  (spawn \ (IF merge THEN {"INTERCOMM"} ELSE {}))
             \ (IF merge /\ numP > numC THEN {"SINGLE"} ELSE {})

CheckedSpawn(inter) ==
  LET merge == CheckedMethod(inter) = "MERGE"
  IN  ((spawn \ (IF merge THEN {"INTERCOMM"} ELSE {}))
              \ (IF merge /\ numP > numC THEN {"SINGLE"} ELSE {}))
              \ (IF redMethod \in {"RMA_LOCK", "RMA_LOCKALL"} THEN {"INTERCOMM"} ELSE {})

CheckedRed ==
  IF redMethod \in {"RMA_LOCK", "RMA_LOCKALL"} /\ red \intersect {"WAIT_TARGETS", "PTHREAD"} = {}
    THEN SetRedStrat(red, 3) ELSE red

\* MAM_St_rms.
Start ==
  /\ ~started
  /\ started' = TRUE
  /\ \E inter \in BOOLEAN :
       /\ internode' = inter
       /\ method' = CheckedMethod(inter)
       /\ spawn' = CheckedSpawn(inter)
  /\ red' = CheckedRed
  /\ UNCHANGED <<numP, numC, redMethod>>

\* MAM_Commit: the targets are the application; the configuration stays.
Commit ==
  /\ started
  /\ started' = FALSE
  /\ numP' = numC
  /\ UNCHANGED <<numC, internode, conf>>

\* MAM_Init: every key from its environment variable or its default.
SettingsInit ==
  /\ started = FALSE /\ internode = FALSE
  /\ numP \in Procs /\ numC \in Procs
  /\ method \in {Methods[i] : i \in 1 .. 2}
  /\ spawn \in {SetSpawnStrat({}, o) : o \in 0 .. 5}
  /\ redMethod \in {RedMethods[i] : i \in 1 .. 4}
  /\ red \in {SetRedStrat({}, o) : o \in 0 .. 3}

\* One value beyond the longest key stands for every value out of range.
Arguments == 0 .. 6

SettingsNext ==
  \/ \E m, s, rm, rs \in Arguments : SetConfiguration(m, s, rm, rs)
  \/ \E o \in Arguments : SetKey(o)
  \/ \E n \in Procs : SetTargetNumber(n)
  \/ Start
  \/ Commit

SettingsSpec == SettingsInit /\ [][SettingsNext]_settings

-----------------------------------------------------------------------------
(* Properties. *)

\* The configuration keeps its type.
TypeOK ==
  /\ started \in BOOLEAN /\ internode \in BOOLEAN
  /\ numP \in Procs /\ numC \in Procs
  /\ method \in {"BASELINE", "MERGE"}
  /\ spawn \subseteq SpawnNames
  /\ redMethod \in {"BASELINE", "POINT", "RMA_LOCK", "RMA_LOCKALL"}
  /\ red \subseteq RedNames

(***************************************************************************)
(* No sequence of calls leaves two strategies that exclude each other.     *)
(***************************************************************************)
Exclusive ==
  /\ "PARALLEL" \in spawn => spawn \intersect {"SINGLE", "MULTIPLE"} = {}
  /\ \A a, b \in red : a = b

(***************************************************************************)
(* During a reconfiguration the configuration is one that its stages can   *)
(* carry out: a migration, and a shrink of groups over several nodes with  *)
(* a per-node strategy, use Baseline; Merge uses an intracommunicator and  *)
(* does not shrink with Single; one-sided redistribution uses an           *)
(* intracommunicator, and the sources wait for the targets or have a       *)
(* thread.                                                                 *)
(***************************************************************************)
Admissible ==
  started =>
    /\ numC = numP => method = "BASELINE"
    /\ internode /\ numP > numC /\ spawn \intersect {"MULTIPLE", "PARALLEL"} # {}
         => method = "BASELINE"
    /\ method = "MERGE" => "INTERCOMM" \notin spawn
    /\ method = "MERGE" /\ numP > numC => "SINGLE" \notin spawn
    /\ redMethod \in {"RMA_LOCK", "RMA_LOCKALL"} =>
         "INTERCOMM" \notin spawn /\ red \intersect {"WAIT_TARGETS", "PTHREAD"} # {}
=============================================================================
