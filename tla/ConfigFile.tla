----------------------------- MODULE ConfigFile -----------------------------
(***************************************************************************)
(* The configuration of SAM from the file to the memory of the processes:  *)
(* the INI reader, a handler called line by line (read_ini.c), the JSON    *)
(* reader, which may give up at any item (read_json.c), the allocations    *)
(* and their release (configuration.c), the MPI datatypes made for each    *)
(* structure, and the broadcasts that give the configuration to the        *)
(* children (send_config_file, recv_config_file).                          *)
(*                                                                         *)
(* A value is named by the place of the file it belongs to, so that a      *)
(* value stored elsewhere is seen; <<>> is the default or NULL.  The       *)
(* general section comes first, phases, stages and groups in the order of  *)
(* their indices, a phase before its stages, and each stage and group ends *)
(* with its last key: Stage_Time and Spawn_Strategy.                       *)
(***************************************************************************)
EXTENDS Naturals, Sequences

CONSTANTS MaxGroups, MaxPhases, MaxStages

ASSUME ConfigFileAssumption == {MaxGroups, MaxPhases, MaxStages} \subseteq Nat \ {0}

VARIABLES
  file,    \* what the file says
  pc,      \* "ini", "json", "loaded", "send", "free", "rejected" or "done"
  line,    \* INI: the next line of each part of the file
  at,      \* actual_group, actual_phase, actual_stage, or the JSON indices
  cfg,     \* the configuration of the process that reads
  kid,     \* that of a child
  sent,    \* broadcasts made
  heap     \* blocks allocated and not freed and types committed, with their owner

vars == <<file, pc, line, at, cfg, kid, sent, heap>>

-----------------------------------------------------------------------------
(* The file. *)

Files ==
  [form : {"ini", "json"}, groups : 1 .. MaxGroups, given : 0 .. MaxGroups + 1,
   stages : UNION {[1 .. n -> 1 .. MaxStages] : n \in 1 .. MaxPhases},
   gran : SUBSET ((0 .. MaxPhases - 1) \X (0 .. MaxStages - 1))]

Line(section, key) == [section |-> section, key |-> key]
Value(section, key) == <<section, key>>
NoLine == Line(<<"end">>, "")

\* The first line of each part, and the one after a line.
FirstLines ==
  [general |-> Line(<<"general">>, "Total_Resizes"),
   phases |-> Line(<<"phase", 0>>, "Total_Iters"),
   groups |-> IF file.given = 0 THEN NoLine ELSE Line(<<"resize", 0>>, "Procs")]

LineAfter(l) ==
  LET i == l.section[2]
      s == l.section[3]
  IN  CASE l.key = "Total_Resizes" -> Line(<<"general">>, "Total_Phases")
        [] l.key = "Total_Iters" -> Line(<<"phase", i>>, "Total_Stages")
        [] l.key = "Total_Stages" -> Line(<<"stage", i, 0>>, "Stage_Type")
        [] l.key = "Stage_Type" /\ <<i, s>> \in file.gran -> Line(<<"stage", i, s>>, "Granularity")
        [] l.key = "Stage_Type" /\ <<i, s>> \notin file.gran -> Line(<<"stage", i, s>>, "Stage_Time")
        [] l.key = "Granularity" -> Line(<<"stage", i, s>>, "Stage_Time")
        [] l.key = "Stage_Time" /\ s + 1 < file.stages[i + 1] -> Line(<<"stage", i, s + 1>>, "Stage_Type")
        [] l.key = "Stage_Time" /\ s + 1 >= file.stages[i + 1] /\ i + 1 < Len(file.stages) ->
             Line(<<"phase", i + 1>>, "Total_Iters")
        [] l.key = "Procs" -> Line(<<"resize", i>>, "Redistribution_Strategy")
        [] l.key = "Redistribution_Strategy" -> Line(<<"resize", i>>, "Spawn_Strategy")
        [] l.key = "Spawn_Strategy" /\ i + 1 < file.given -> Line(<<"resize", i + 1>>, "Procs")
        [] OTHER -> NoLine

-----------------------------------------------------------------------------
(* The structures. *)

Empty == <<"empty">>   \* a block of no elements
NoGroup == [procs |-> <<>>, rs |-> <<>>, ss |-> <<>>]
NoPhase == [iters |-> <<>>, stages |-> <<>>]
NoStage == [type |-> <<>>, gran |-> <<>>, time |-> <<>>]
Types == {<<"config_type">>, <<"group_type">>, <<"group_strats_type">>, <<"phase_type">>, <<"stage_type">>}
NoConfig == [n_groups |-> 1, n_phases |-> 1, groups |-> <<>>, phases |-> <<>>, types |-> {}]

Define(c, type) == [c EXCEPT !.types = @ \cup {type}]

\* malloc_config_resizes, malloc_config_phases, malloc_config_stages: each
\* structure has its datatype, that of the stages made by the first phase.
MallocResizes(c) == Define([c EXCEPT !.groups = [g \in 1 .. c.n_groups |-> NoGroup]], <<"group_type">>)
MallocPhases(c) == Define([c EXCEPT !.phases = [p \in 1 .. c.n_phases |-> NoPhase]], <<"phase_type">>)
MallocStages(c, p, n) == Define([c EXCEPT !.phases[p].stages = [s \in 1 .. n |-> NoStage]], <<"stage_type">>)

\* The blocks a configuration points to.
Arrays(c) ==
  {<<"config">>} \cup {<<"groups">> : x \in {c.groups} \ {<<>>}}
    \cup {<<"phases">> : x \in {c.phases} \ {<<>>}}
Stored(c) == {<<"stages", p>> : p \in {p \in DOMAIN c.phases : c.phases[p].stages # <<>>}}
Strategies(c) ==
  {<<"rs", g>> : g \in {g \in DOMAIN c.groups : c.groups[g].rs # <<>>}}
    \cup {<<"ss", g>> : g \in {g \in DOMAIN c.groups : c.groups[g].ss # <<>>}}

\* Mutant: the strategies of the groups are forgotten.
MutFreeConfigPartial(c) == Arrays(c) \cup Stored(c)

\* What free_config_partial frees, and what free_config does.
FreeConfigPartial(c) == Arrays(c) \cup Stored(c) \cup Strategies(c)
FreeConfig(c) == Arrays(c) \cup Stored(c) \cup Strategies(c) \cup Types

\* All that a configuration holds.
Held(c) == Arrays(c) \cup Stored(c) \cup Strategies(c) \cup c.types

Own(who, blocks) == {<<who, b>> : b \in blocks}

Init ==
  /\ file \in {f \in Files :
       /\ f.gran \subseteq UNION {{p - 1} \X (0 .. f.stages[p] - 1) : p \in DOMAIN f.stages}
       /\ f.given \in (IF f.form = "json" THEN {f.groups} ELSE {f.groups - 1, f.groups, f.groups + 1})}
  /\ pc = file.form
  /\ line = IF file.form = "ini" THEN FirstLines ELSE [part \in DOMAIN FirstLines |-> NoLine]
  /\ at = [group |-> 0, phase |-> 0, stage |-> 0]
  /\ cfg = NoConfig /\ kid = NoConfig /\ sent = 0
  /\ heap = Own("root", {<<"config">>})

-----------------------------------------------------------------------------
(* read_ini.c. *)

Place(l) == Value(l.section, l.key)

\* Mutant: the stage index goes on from one phase to the next.
MutStagesFrom(a) == a

\* The stages of a phase are counted from 0.
StagesFrom(a) == [a EXCEPT !.stage = 0]

\* The last key of a stage, and of the last stage of a phase.
StageEnds(c, a) ==
  IF a.stage + 1 = Len(c.phases[a.phase + 1].stages)
    THEN [a EXCEPT !.stage = @ + 1, !.phase = @ + 1]
    ELSE [a EXCEPT !.stage = @ + 1]

\* handler, given a line: the configuration, the indices and the new blocks.
Handler(c, a, l) ==
  LET Out(config, index, new) == [cfg |-> config, at |-> index, new |-> new]
      p == a.phase + 1
      s == a.stage + 1
      g == a.group + 1
      InPhase == l.section = <<"phase", a.phase>> /\ a.phase < c.n_phases
      InStage == IF l.section = <<"stage", a.phase, a.stage>>
                   THEN a.stage < Len(c.phases[p].stages) ELSE FALSE
      InGroup == l.section = <<"resize", a.group>> /\ a.group < c.n_groups
      Full == a.group >= c.n_groups /\ a.phase >= c.n_phases
      Is(key) == ~Full /\ l.key = key
  IN  CASE Is("Total_Resizes") ->
             Out(MallocResizes([c EXCEPT !.n_groups = file.groups]), a, {<<"groups">>, <<"group_type">>})
        [] Is("Total_Phases") ->
             Out(MallocPhases([c EXCEPT !.n_phases = Len(file.stages)]), a, {<<"phases">>, <<"phase_type">>})
        [] InPhase /\ Is("Total_Iters") -> Out([c EXCEPT !.phases[p].iters = Place(l)], a, {})
        [] InPhase /\ Is("Total_Stages") ->
             Out(MallocStages(c, p, file.stages[p]), StagesFrom(a), {<<"stages", p>>, <<"stage_type">>})
        [] InStage /\ Is("Stage_Type") -> Out([c EXCEPT !.phases[p].stages[s].type = Place(l)], a, {})
        [] InStage /\ Is("Granularity") -> Out([c EXCEPT !.phases[p].stages[s].gran = Place(l)], a, {})
        [] InStage /\ Is("Stage_Time") ->
             Out([c EXCEPT !.phases[p].stages[s].time = Place(l)], StageEnds(c, a), {})
        [] InGroup /\ Is("Procs") -> Out([c EXCEPT !.groups[g].procs = Place(l)], a, {})
        [] InGroup /\ Is("Redistribution_Strategy") ->
             Out([c EXCEPT !.groups[g].rs = Place(l)], a, {<<"rs", g>>})
        [] InGroup /\ Is("Spawn_Strategy") ->
             Out([c EXCEPT !.groups[g].ss = Place(l)], [a EXCEPT !.group = @ + 1], {<<"ss", g>>})
        [] OTHER -> Out(c, a, {})   \* unknown section or name, or no more work

\* ini_parse: the next line.  The sections of the groups may come anywhere among
\* those of the phases.
IniLine(part) ==
  /\ pc = "ini" /\ line[part] # NoLine
  /\ part = "general" \/ line.general = NoLine
  /\ LET h == Handler(cfg, at, line[part])
     IN  cfg' = h.cfg /\ at' = h.at /\ heap' = heap \cup Own("root", h.new)
  /\ line' = [line EXCEPT ![part] = LineAfter(@)]
  /\ UNCHANGED <<file, pc, kid, sent>>

\* read_ini_file.
IniEnd ==
  /\ pc = "ini" /\ \A part \in DOMAIN line : line[part] = NoLine
  /\ pc' = "loaded"
  /\ UNCHANGED <<file, line, at, cfg, kid, sent, heap>>

-----------------------------------------------------------------------------
(* read_json.c. *)

Json(config, index, new) ==
  /\ pc = "json"
  /\ cfg' = config /\ at' = index /\ heap' = heap \cup Own("root", new)
  /\ UNCHANGED <<file, pc, line, kid, sent>>

\* parse_general.
JsonResizes ==
  /\ cfg.groups = <<>>
  /\ Json(MallocResizes([cfg EXCEPT !.n_groups = file.groups]), at, {<<"groups">>, <<"group_type">>})
JsonPhases ==
  /\ cfg.groups # <<>> /\ cfg.phases = <<>>
  /\ Json(MallocPhases([cfg EXCEPT !.n_phases = Len(file.stages)]), at, {<<"phases">>, <<"phase_type">>})

\* parse_phases: the head of a phase, then its stages.
JsonPhase ==
  LET p == at.phase + 1
  IN  /\ cfg.phases # <<>> /\ at.phase < cfg.n_phases /\ cfg.phases[p].stages = <<>>
      /\ Json(MallocStages([cfg EXCEPT !.phases[p].iters = Value(<<"phase", at.phase>>, "Total_Iters")],
                           p, file.stages[p]),
              [at EXCEPT !.stage = 0], {<<"stages", p>>, <<"stage_type">>})

\* parse_stage.
JsonStage ==
  LET p == at.phase + 1
      s == at.stage + 1
      Of(key) == Value(<<"stage", at.phase, at.stage>>, key)
  IN  /\ cfg.phases # <<>> /\ at.phase < cfg.n_phases /\ cfg.phases[p].stages # <<>>
      /\ Json([cfg EXCEPT !.phases[p].stages[s] =
                 [type |-> Of("Stage_Type"), time |-> Of("Stage_Time"),
                  gran |-> IF <<at.phase, at.stage>> \in file.gran THEN Of("Granularity") ELSE @.gran]],
              StageEnds(cfg, at), {})

\* parse_groups: the numbers of a group, then its arrays (copy_int_array).
InGroups == cfg.groups # <<>> /\ cfg.phases # <<>> /\ at.phase = cfg.n_phases /\ at.group < cfg.n_groups
GroupOf == cfg.groups[at.group + 1]
JsonGroup ==
  /\ InGroups /\ GroupOf.procs = <<>>
  /\ Json([cfg EXCEPT !.groups[at.group + 1].procs = Value(<<"resize", at.group>>, "Procs")], at, {})
JsonRedistribution ==
  /\ InGroups /\ GroupOf.procs # <<>> /\ GroupOf.rs = <<>>
  /\ Json([cfg EXCEPT !.groups[at.group + 1].rs = Value(<<"resize", at.group>>, "Redistribution_Strategy")],
          at, {<<"rs", at.group + 1>>})
JsonSpawn ==
  /\ InGroups /\ GroupOf.rs # <<>>
  /\ Json([cfg EXCEPT !.groups[at.group + 1].ss = Value(<<"resize", at.group>>, "Spawn_Strategy")],
          [at EXCEPT !.group = @ + 1], {<<"ss", at.group + 1>>})

\* require_child, require_size_t, require_int, optional_int, require_double: any
\* item may be missing or not be what it should, or be one of too many or few.
Unreadable == pc = "json"

\* The reader frees what it has, the datatypes excepted, and init_config aborts.
JsonReject ==
  /\ Unreadable /\ pc' = "rejected"
  /\ heap' = heap \ Own("root", FreeConfigPartial(cfg))
  /\ UNCHANGED <<file, line, at, cfg, kid, sent>>

JsonEnd ==
  /\ pc = "json" /\ cfg.phases # <<>> /\ at.phase = cfg.n_phases /\ at.group = cfg.n_groups
  /\ pc' = "loaded"
  /\ UNCHANGED <<file, line, at, cfg, kid, sent, heap>>

-----------------------------------------------------------------------------
(* configuration.c. *)

\* check_granularity.
Checked(d) == [d EXCEPT !.gran = IF @ = <<>> THEN <<"CONFIG_GRANULARITY">> ELSE @]
CheckedStages(f) == [s \in DOMAIN f |-> Checked(f[s])]
CheckedPhase(d) == [d EXCEPT !.stages = CheckedStages(@)]
CheckedPhases(f) == [p \in DOMAIN f |-> CheckedPhase(f[p])]
CheckGranularity(c) == [c EXCEPT !.phases = CheckedPhases(@)]

\* init_config after the reader; the first group runs and a child calls
\* recv_config_file.
InitConfig ==
  /\ pc = "loaded" /\ pc' = "send"
  /\ cfg' = Define(Define(CheckGranularity(cfg), <<"config_type">>), <<"group_strats_type">>)
  /\ kid' = Define(kid, <<"config_type">>)
  /\ heap' = heap \cup Own("root", {<<"config_type">>, <<"group_strats_type">>})
                  \cup Own("kid", {<<"config">>, <<"config_type">>})
  /\ UNCHANGED <<file, line, at, sent>>

\* The broadcasts of a side, given the configuration it has: the structure,
\* the phases, the stages of each phase, the groups and their strategies.
Broadcasts(c) ==
  <<<<"config", 1>>, <<"phases", c.n_phases>>>>
    \o [p \in 1 .. c.n_phases |->
          <<"stages", IF c.phases = <<>> THEN 0 ELSE Len(c.phases[p].stages)>>]
    \o <<<<"groups", c.n_groups>>, <<"strategies", c.n_groups>>>>

\* What each datatype carries from the sender c to the receiver d: the numbers
\* of the structure and never its pointers, except for the strategies, whose
\* datatype is made from the blocks the receiver has allocated for them.
StructConfig(d, c) == [d EXCEPT !.n_groups = c.n_groups, !.n_phases = c.n_phases]
StructPhase(d, c) ==
  [d EXCEPT !.phases = [p \in DOMAIN @ |-> [@[p] EXCEPT !.iters = c.phases[p].iters]]]
StructStage(d, c, p) ==
  [d EXCEPT !.phases[p].stages = [s \in DOMAIN @ |->
     [type |-> c.phases[p].stages[s].type, time |-> c.phases[p].stages[s].time,
      gran |-> c.phases[p].stages[s].gran]]]
StructGroups(d, c) ==
  [d EXCEPT !.groups = [g \in DOMAIN @ |-> [@[g] EXCEPT !.procs = c.groups[g].procs]]]

\* What a block holds once the elements of the sender, none if it has NULL, are
\* written over it.
Over(block, sender) == IF sender = <<>> THEN block ELSE sender
StructGroupStrats(x, e) == [x EXCEPT !.rs = Over(@, e.rs), !.ss = Over(@, e.ss)]
StructStrategies(d, c) ==
  [d EXCEPT !.groups = [g \in DOMAIN @ |-> StructGroupStrats(@[g], c.groups[g])]]

\* The blocks of the strategies of all groups, with the lengths received.
MallocStrategies(d) ==
  Define([d EXCEPT !.groups = [g \in DOMAIN @ |-> [@[g] EXCEPT !.rs = Empty, !.ss = Empty]]],
         <<"group_strats_type">>)

\* recv_config_file, given the number of the broadcast: what it brings, and the
\* allocations made before the next one.
Receive(n) ==
  CASE n = 1 -> MallocResizes(MallocPhases(StructConfig(kid, cfg)))
    [] n = 2 -> MallocStages(StructPhase(kid, cfg), 1, Len(cfg.phases[1].stages))
    [] n \in 3 .. kid.n_phases + 1 ->
         MallocStages(StructStage(kid, cfg, n - 2), n - 1, Len(cfg.phases[n - 1].stages))
    [] n = kid.n_phases + 2 -> StructStage(kid, cfg, n - 2)
    [] n = kid.n_phases + 3 -> MallocStrategies(StructGroups(kid, cfg))
    [] n = kid.n_phases + 4 -> StructStrategies(kid, cfg)

Broadcast ==
  /\ pc = "send" /\ sent < Len(Broadcasts(cfg))
  /\ Len(Broadcasts(kid)) > sent /\ Broadcasts(kid)[sent + 1] = Broadcasts(cfg)[sent + 1]
  /\ sent' = sent + 1
  /\ kid' = Receive(sent + 1)
  /\ heap' = heap \cup Own("kid", Held(Receive(sent + 1)) \ Held(kid))
  /\ UNCHANGED <<file, pc, line, at, cfg>>

\* Both groups end.
Free ==
  /\ pc = "send" /\ sent = Len(Broadcasts(cfg))
  /\ pc' = "done"
  /\ heap' = heap \ (Own("root", FreeConfig(cfg)) \cup Own("kid", FreeConfig(kid)))
  /\ UNCHANGED <<file, line, at, cfg, kid, sent>>

Stopped == pc \in {"done", "rejected"} /\ UNCHANGED vars

Next ==
  \/ \E part \in {"general", "phases", "groups"} : IniLine(part)
  \/ IniEnd
  \/ JsonResizes \/ JsonPhases \/ JsonPhase \/ JsonStage
  \/ JsonGroup \/ JsonRedistribution \/ JsonSpawn \/ JsonReject \/ JsonEnd
  \/ InitConfig \/ Broadcast \/ Free \/ Stopped

Spec == Init /\ [][Next]_vars

-----------------------------------------------------------------------------
(* Properties. *)

\* What the file says, with the defaults for what it leaves out.
Declared ==
  [n_groups |-> file.groups, n_phases |-> Len(file.stages), types |-> Types,
   groups |-> [g \in 1 .. file.groups |-> IF g > file.given THEN NoGroup ELSE
      [procs |-> Value(<<"resize", g - 1>>, "Procs"),
       rs |-> Value(<<"resize", g - 1>>, "Redistribution_Strategy"),
       ss |-> Value(<<"resize", g - 1>>, "Spawn_Strategy")]],
   phases |-> [p \in 1 .. Len(file.stages) |->
     [iters |-> Value(<<"phase", p - 1>>, "Total_Iters"),
      stages |-> [s \in 1 .. file.stages[p] |->
        [type |-> Value(<<"stage", p - 1, s - 1>>, "Stage_Type"),
         time |-> Value(<<"stage", p - 1, s - 1>>, "Stage_Time"),
         gran |-> IF <<p - 1, s - 1>> \in file.gran THEN Value(<<"stage", p - 1, s - 1>>, "Granularity")
                                                   ELSE <<"CONFIG_GRANULARITY">>]]]]]

\* The same for the children, with a block of no elements for a NULL.
GroupToKids(x) == [x EXCEPT !.rs = Over(Empty, @), !.ss = Over(Empty, @)]
DeclaredToKids == [Declared EXCEPT !.groups = [g \in DOMAIN @ |-> GroupToKids(@[g])]]

\* Both readers give the configuration the file declares, each value in its place
\* however the groups come among the phases, each of them in the order of its
\* index, with a datatype for each structure, and the children receive the same
\* (read_ini_file, read_json_file, recv_config_file).
Faithful ==
  /\ pc \in {"send", "done"} => cfg = Declared
  /\ pc = "done" => kid = DeclaredToKids

\* Every block and datatype is reached from a configuration, and nothing freed is,
\* at any item at which the JSON reader may give up; none is left when the groups
\* have ended, and after the reader has given up only datatypes
\* (free_config_partial, free_config).
NothingLost ==
  heap = CASE pc = "rejected" -> Own("root", cfg.types)
           [] pc = "done" -> {}
           [] pc = "send" -> Own("root", Held(cfg)) \cup Own("kid", Held(kid))
           [] OTHER -> Own("root", Held(cfg))
=============================================================================
