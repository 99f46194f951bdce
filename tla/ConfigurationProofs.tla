------------------------ MODULE ConfigurationProofs ------------------------
(***************************************************************************)
(* The configuration, for any file and any number of processes.  Reading   *)
(* (ConfigFile): what the two readers and the broadcasts give is what the  *)
(* file declares, and every block is reached and freed.  Checking          *)
(* (Configuration): strategies that exclude each other are never set       *)
(* together, and a reconfiguration runs with a configuration that its      *)
(* stages can carry out.                                                   *)
(***************************************************************************)
EXTENDS ConfigFile, Configuration, SequenceTheorems, TLAPS

-----------------------------------------------------------------------------
(* The file and what has been read of it. *)

Phases == Len(file.stages)
StagesOf(p) == file.stages[p]

\* What a file is, without the bounds.
FileOK ==
  /\ file.form \in {"ini", "json"}
  /\ file.groups \in Nat \ {0}
  /\ file.given \in Nat
  /\ file.form = "json" => file.given = file.groups
  /\ Phases \in Nat \ {0}
  /\ \A p \in 1 .. Phases : StagesOf(p) \in Nat \ {0}

\* The first k keys of a group, of a stage, and what is read of a phase: its
\* iterations, its array of stages, its first n stages and k keys of the next.
ReadGroup(g, k) ==
  [procs |-> IF k >= 1 THEN Value(<<"resize", g - 1>>, "Procs") ELSE <<>>,
   rs |-> IF k >= 2 THEN Value(<<"resize", g - 1>>, "Redistribution_Strategy") ELSE <<>>,
   ss |-> IF k >= 3 THEN Value(<<"resize", g - 1>>, "Spawn_Strategy") ELSE <<>>]
ReadStage(p, s, k) ==
  [type |-> IF k >= 1 THEN Value(<<"stage", p - 1, s - 1>>, "Stage_Type") ELSE <<>>,
   gran |-> IF k >= 2 /\ <<p - 1, s - 1>> \in file.gran
              THEN Value(<<"stage", p - 1, s - 1>>, "Granularity") ELSE <<>>,
   time |-> IF k >= 3 THEN Value(<<"stage", p - 1, s - 1>>, "Stage_Time") ELSE <<>>]

\* How much of item i is read when n are and k keys, of all, of the next.
Upto(i, n, k, all) == IF i <= n THEN all ELSE IF i = n + 1 THEN k ELSE 0

ReadGroups(n, k) == [g \in 1 .. file.groups |-> ReadGroup(g, Upto(g, n, k, 3))]
ReadStages(p, n, k) == [s \in 1 .. StagesOf(p) |-> ReadStage(p, s, Upto(s, n, k, 3))]
ReadPhase(p, j, n, k) ==
  [iters |-> IF j >= 1 THEN Value(<<"phase", p - 1>>, "Total_Iters") ELSE <<>>,
   stages |-> IF j >= 2 THEN ReadStages(p, n, k) ELSE <<>>]
ReadPhases(m, j, n, k) ==
  [p \in 1 .. Phases |-> IF p <= m THEN ReadPhase(p, 2, StagesOf(p), 0)
                         ELSE IF p = m + 1 THEN ReadPhase(p, j, n, k) ELSE NoPhase]

Config(n, m, g, p, y) == [n_groups |-> n, n_phases |-> m, groups |-> g, phases |-> p, types |-> y]

\* The configuration with the first i general keys read, k keys of the next group, j steps
\* of the next phase and t keys of its next stage.
ReadTypes(i, j, a) ==
  {y \in {<<"group_type">>} : i >= 1} \cup {y \in {<<"phase_type">>} : i >= 2}
    \cup {y \in {<<"stage_type">>} : i >= 2 /\ (a.phase > 0 \/ j = 2)}
Read(i, k, j, t, a) ==
  Config(IF i >= 1 THEN file.groups ELSE 1, IF i >= 2 THEN Phases ELSE 1,
         IF i >= 1 THEN ReadGroups(a.group, k) ELSE <<>>,
         IF i >= 2 THEN ReadPhases(a.phase, j, a.stage, t) ELSE <<>>, ReadTypes(i, j, a))

\* How far a reader may be.
Progress(i, k, j, t, a) ==
  /\ i \in 0 .. 2 /\ k \in 0 .. 2 /\ j \in 0 .. 2 /\ t \in 0 .. 2
  /\ a \in [group : Nat, phase : Nat, stage : Nat]
  /\ a.group <= file.groups /\ a.phase <= Phases
  /\ i < 2 => a.group = 0 /\ a.phase = 0 /\ k = 0 /\ j = 0
  /\ k > 0 => a.group < file.groups
  /\ j < 2 => t = 0
  /\ j > 0 => a.phase < Phases
  /\ j = 2 => a.stage < StagesOf(a.phase + 1)

\* The next lines of an INI file, for a reader that has come that far.
GeneralLine(i) ==
  IF i = 0 THEN Line(<<"general">>, "Total_Resizes")
  ELSE IF i = 1 THEN Line(<<"general">>, "Total_Phases") ELSE NoLine
PhaseLine(j, t, a) ==
  IF a.phase = Phases THEN NoLine
  ELSE IF j = 0 THEN Line(<<"phase", a.phase>>, "Total_Iters")
  ELSE IF j = 1 THEN Line(<<"phase", a.phase>>, "Total_Stages")
  ELSE IF t = 0 THEN Line(<<"stage", a.phase, a.stage>>, "Stage_Type")
  ELSE IF t = 1 THEN Line(<<"stage", a.phase, a.stage>>, "Granularity")
  ELSE Line(<<"stage", a.phase, a.stage>>, "Stage_Time")
PhaseLineOK(l, j, t, a) == l = PhaseLine(j, t, a) /\ (t = 1 => <<a.phase, a.stage>> \in file.gran)
GroupLine(g, k) ==
  IF k = 0 THEN Line(<<"resize", g>>, "Procs")
  ELSE IF k = 1 THEN Line(<<"resize", g>>, "Redistribution_Strategy")
  ELSE Line(<<"resize", g>>, "Spawn_Strategy")

\* The groups beyond Total_Resizes are read and ignored.
GroupLineOK(l, k, a) ==
  IF a.group < file.groups
    THEN IF a.group < file.given THEN l = GroupLine(a.group, k) ELSE l = NoLine /\ k = 0
    ELSE l = NoLine \/ \E g \in Nat, n \in 0 .. 2 : g >= file.groups /\ l = GroupLine(g, n)

IniOK(i, k, j, t, a) ==
  /\ line = [general |-> line.general, phases |-> line.phases, groups |-> line.groups]
  /\ line.general = GeneralLine(i)
  /\ PhaseLineOK(line.phases, j, t, a)
  /\ GroupLineOK(line.groups, k, a)
  /\ a.group <= file.given

\* A value is never the default.
LEMMA ValueIs == \A x, y : Value(x, y) # <<>>
BY DEF Value

\* An array of at least one item is not NULL.
LEMMA ArrayIs ==
  ASSUME NEW n \in Nat \ {0}, NEW f, DOMAIN f = 1 .. n
  PROVE  f # <<>>
<1>1. 1 \in DOMAIN f
  OBVIOUS
<1> QED BY <1>1

-----------------------------------------------------------------------------
(* Structures and arrays. *)

\* The fields of a configuration and what an assignment to one does.
LEMMA ConfigFields ==
  ASSUME NEW n, NEW m, NEW g, NEW p, NEW y
  PROVE  /\ Config(n, m, g, p, y).n_groups = n
         /\ Config(n, m, g, p, y).n_phases = m
         /\ Config(n, m, g, p, y).groups = g
         /\ Config(n, m, g, p, y).phases = p
         /\ Config(n, m, g, p, y).types = y
BY DEF Config

\* A field of a configuration that is set.
LEMMA FieldSet ==
  ASSUME NEW n, NEW m, NEW g, NEW p, NEW y, NEW x
  PROVE  /\ [Config(n, m, g, p, y) EXCEPT !.n_groups = x] = Config(x, m, g, p, y)
         /\ [Config(n, m, g, p, y) EXCEPT !.n_phases = x] = Config(n, x, g, p, y)
         /\ [Config(n, m, g, p, y) EXCEPT !.groups = x] = Config(n, m, x, p, y)
         /\ [Config(n, m, g, p, y) EXCEPT !.phases = x] = Config(n, m, g, x, y)
         /\ [Config(n, m, g, p, y) EXCEPT !.types = x] = Config(n, m, g, p, x)
BY DEF Config

Added(y, x) == y \cup {x}

\* A datatype that is made.
LEMMA Defined ==
  ASSUME NEW n, NEW m, NEW g, NEW p, NEW y, NEW x
  PROVE  Define(Config(n, m, g, p, y), x) = Config(n, m, g, p, Added(y, x))
BY DEF Define, Config, Added

NoGroups(n) == [i \in 1 .. n |-> NoGroup]
NoPhases(n) == [i \in 1 .. n |-> NoPhase]
SetStages(f, p, x) == [f EXCEPT ![p].stages = x]
NoStages(n) == [i \in 1 .. n |-> NoStage]
IsArray(f, n) == f = [i \in 1 .. n |-> f[i]]

\* What each allocation does.
LEMMA Malloc ==
  ASSUME NEW n, NEW m, NEW g, NEW p, NEW y
  PROVE  /\ MallocResizes(Config(n, m, g, p, y)) = Config(n, m, NoGroups(n), p, Added(y, <<"group_type">>))
         /\ MallocPhases(Config(n, m, g, p, y)) = Config(n, m, g, NoPhases(m), Added(y, <<"phase_type">>))
<1> DEFINE c == Config(n, m, g, p, y)
           gs == [i \in 1 .. n |-> NoGroup]
           ps == [i \in 1 .. m |-> NoPhase]
<1>0. c.n_groups = n /\ c.n_phases = m
  BY ConfigFields
<1>1. [i \in 1 .. c.n_groups |-> NoGroup] = gs /\ [i \in 1 .. c.n_phases |-> NoPhase] = ps
  BY <1>0
<1>2. MallocResizes(c) = Define([c EXCEPT !.groups = gs], <<"group_type">>)
  BY <1>1 DEF MallocResizes
<1>3. MallocPhases(c) = Define([c EXCEPT !.phases = ps], <<"phase_type">>)
  BY <1>1 DEF MallocPhases
<1> HIDE DEF gs, ps
<1>4. [c EXCEPT !.groups = gs] = Config(n, m, gs, p, y) /\ [c EXCEPT !.phases = ps] = Config(n, m, g, ps, y)
  BY DEF Config
<1> HIDE DEF c
<1>5. MallocResizes(c) = Config(n, m, gs, p, Added(y, <<"group_type">>))
  BY <1>2, <1>4, Defined
<1>6. MallocPhases(c) = Config(n, m, g, ps, Added(y, <<"phase_type">>))
  BY <1>3, <1>4, Defined
<1> QED BY <1>5, <1>6 DEF c, gs, ps, NoGroups, NoPhases

\* malloc_config_stages.
LEMMA MallocOfStages ==
  ASSUME NEW n, NEW m, NEW g, NEW p, NEW y, NEW j, NEW k
  PROVE  MallocStages(Config(n, m, g, p, y), j, k)
           = Config(n, m, g, SetStages(p, j, NoStages(k)), Added(y, <<"stage_type">>))
<1> DEFINE c == Config(n, m, g, p, y)
           ss == [i \in 1 .. k |-> NoStage]
<1>1. MallocStages(c, j, k) = Define([c EXCEPT !.phases[j].stages = ss], <<"stage_type">>)
  BY DEF MallocStages
<1> HIDE DEF ss
<1>2. [c EXCEPT !.phases[j].stages = ss] = Config(n, m, g, [p EXCEPT ![j].stages = ss], y)
  BY DEF Config
<1> HIDE DEF c
<1>3. MallocStages(c, j, k) = Config(n, m, g, [p EXCEPT ![j].stages = ss], Added(y, <<"stage_type">>))
  BY <1>1, <1>2, Defined
<1> QED BY <1>3 DEF c, ss, NoStages, SetStages

\* An assignment to an item of an array, and to a field of an item.
LEMMA Replace ==
  ASSUME NEW n, NEW f, NEW g, NEW p \in 1 .. n, NEW x,
         IsArray(f, n), IsArray(g, n),
         g[p] = x, \A i \in 1 .. n : i # p => g[i] = f[i]
  PROVE  [f EXCEPT ![p] = x] = g
<1> DEFINE h == [f EXCEPT ![p] = x]
<1>1. h = [i \in 1 .. n |-> h[i]]
  BY DEF IsArray
<1>2. \A i \in 1 .. n : h[i] = g[i]
  BY DEF IsArray
<1> HIDE DEF h
<1>3. h = g
  BY <1>1, <1>2 DEF IsArray
<1> QED BY <1>3 DEF h

\* A field of an item of an array, in two steps.
LEMMA FieldOfItem ==
  ASSUME NEW f, NEW p, NEW x
  PROVE  /\ [f EXCEPT ![p].iters = x] = [f EXCEPT ![p] = [f[p] EXCEPT !.iters = x]]
         /\ [f EXCEPT ![p].stages = x] = [f EXCEPT ![p] = [f[p] EXCEPT !.stages = x]]
         /\ [f EXCEPT ![p].type = x] = [f EXCEPT ![p] = [f[p] EXCEPT !.type = x]]
         /\ [f EXCEPT ![p].gran = x] = [f EXCEPT ![p] = [f[p] EXCEPT !.gran = x]]
         /\ [f EXCEPT ![p].time = x] = [f EXCEPT ![p] = [f[p] EXCEPT !.time = x]]
         /\ [f EXCEPT ![p].procs = x] = [f EXCEPT ![p] = [f[p] EXCEPT !.procs = x]]
         /\ [f EXCEPT ![p].rs = x] = [f EXCEPT ![p] = [f[p] EXCEPT !.rs = x]]
         /\ [f EXCEPT ![p].ss = x] = [f EXCEPT ![p] = [f[p] EXCEPT !.ss = x]]
OBVIOUS

\* And of an item of an array within one.
LEMMA FieldOfStage ==
  ASSUME NEW f, NEW p, NEW s, NEW x
  PROVE  /\ [f EXCEPT ![p].stages[s] = x] = [f EXCEPT ![p] = [f[p] EXCEPT !.stages = [f[p].stages EXCEPT ![s] = x]]]
         /\ [f EXCEPT ![p].stages[s].type = x] = [f EXCEPT ![p].stages[s] = [f[p].stages[s] EXCEPT !.type = x]]
         /\ [f EXCEPT ![p].stages[s].gran = x] = [f EXCEPT ![p].stages[s] = [f[p].stages[s] EXCEPT !.gran = x]]
         /\ [f EXCEPT ![p].stages[s].time = x] = [f EXCEPT ![p].stages[s] = [f[p].stages[s] EXCEPT !.time = x]]
OBVIOUS

-----------------------------------------------------------------------------
(* What each item does to what has been read. *)

\* The arrays are functions over the items of the file.
LEMMA ArraysRead ==
  /\ \A n, k : IsArray(ReadGroups(n, k), file.groups)
  /\ \A p, n, k : IsArray(ReadStages(p, n, k), StagesOf(p))
  /\ \A m, j, n, k : IsArray(ReadPhases(m, j, n, k), Phases)
BY DEF IsArray, ReadGroups, ReadStages, ReadPhases

\* The items of the arrays.
LEMMA ItemsRead ==
  /\ \A n, k : \A g \in 1 .. file.groups : ReadGroups(n, k)[g] = ReadGroup(g, Upto(g, n, k, 3))
  /\ \A p, n, k : \A s \in 1 .. StagesOf(p) : ReadStages(p, n, k)[s] = ReadStage(p, s, Upto(s, n, k, 3))
  /\ \A m, j, n, k : \A p \in 1 .. Phases :
       ReadPhases(m, j, n, k)[p] = IF p <= m THEN ReadPhase(p, 2, StagesOf(p), 0)
                                   ELSE IF p = m + 1 THEN ReadPhase(p, j, n, k) ELSE NoPhase
BY DEF ReadGroups, ReadStages, ReadPhases

\* Where a reader is, in numbers.
LEMMA PlaceIs ==
  ASSUME FileOK, NEW i, NEW k, NEW j, NEW t, NEW a, Progress(i, k, j, t, a)
  PROVE  /\ a.group \in Nat /\ a.phase \in Nat /\ a.stage \in Nat
         /\ a.phase < Phases => a.phase + 1 \in 1 .. Phases /\ (a.phase + 1) - 1 = a.phase
         /\ j = 2 => /\ a.phase < Phases
                     /\ a.stage + 1 \in 1 .. StagesOf(a.phase + 1) /\ (a.stage + 1) - 1 = a.stage
                     /\ StagesOf(a.phase + 1) \in Nat \ {0}
         /\ a.group < file.groups => a.group + 1 \in 1 .. file.groups /\ (a.group + 1) - 1 = a.group
  BY DEF Progress, FileOK

\* Total_Resizes, and the groups it makes.
LEMMA ResizesRead ==
  ASSUME FileOK, NEW a, NEW t, a.group = 0, a.phase = 0
  PROVE  MallocResizes([Read(0, 0, 0, t, a) EXCEPT !.n_groups = file.groups]) = Read(1, 0, 0, 0, a)
<1>1. \A g : g \in 1 .. file.groups => ReadGroup(g, Upto(g, 0, 0, 3)) = NoGroup
  BY DEF ReadGroup, Upto, NoGroup, FileOK
<1>2. ReadGroups(0, 0) = NoGroups(file.groups)
  BY <1>1 DEF ReadGroups, NoGroups
<1>3. Added(ReadTypes(0, 0, a), <<"group_type">>) = ReadTypes(1, 0, a)
  BY DEF ReadTypes, Added
<1>4. Read(0, 0, 0, t, a) = Config(1, 1, <<>>, <<>>, ReadTypes(0, 0, a))
  BY DEF Read
<1>5. Read(1, 0, 0, 0, a) = Config(file.groups, 1, ReadGroups(0, 0), <<>>, ReadTypes(1, 0, a))
  BY DEF Read
<1>6. [Read(0, 0, 0, t, a) EXCEPT !.n_groups = file.groups] = Config(file.groups, 1, <<>>, <<>>, ReadTypes(0, 0, a))
  BY SMTT(30), <1>4, FieldSet
<1>7. MallocResizes(Config(file.groups, 1, <<>>, <<>>, ReadTypes(0, 0, a)))
        = Config(file.groups, 1, NoGroups(file.groups), <<>>, Added(ReadTypes(0, 0, a), <<"group_type">>))
  BY Malloc
<1> QED BY <1>2, <1>3, <1>5, <1>6, <1>7

\* Total_Phases, and the phases it makes.
LEMMA PhasesRead ==
  ASSUME FileOK, NEW a, NEW t, NEW k, a.group = 0, a.phase = 0
  PROVE  MallocPhases([Read(1, k, 0, t, a) EXCEPT !.n_phases = Phases]) = Read(2, k, 0, 0, a)
<1>1. \A p : ReadPhase(p, 0, a.stage, 0) = NoPhase
  BY DEF ReadPhase, NoPhase
<1>2. ReadPhases(0, 0, a.stage, 0) = NoPhases(Phases)
  BY <1>1 DEF ReadPhases, NoPhases, FileOK
<1>3. Added(ReadTypes(1, 0, a), <<"phase_type">>) = ReadTypes(2, 0, a)
  BY DEF ReadTypes, Added
<1>4. Read(1, k, 0, t, a) = Config(file.groups, 1, ReadGroups(0, k), <<>>, ReadTypes(1, 0, a))
  BY DEF Read
<1>5. Read(2, k, 0, 0, a) = Config(file.groups, Phases, ReadGroups(0, k), ReadPhases(0, 0, a.stage, 0), ReadTypes(2, 0, a))
  BY DEF Read
<1>6. [Read(1, k, 0, t, a) EXCEPT !.n_phases = Phases] = Config(file.groups, Phases, ReadGroups(0, k), <<>>, ReadTypes(1, 0, a))
  BY <1>4 DEF Config
<1>7. MallocPhases(Config(file.groups, Phases, ReadGroups(0, k), <<>>, ReadTypes(1, 0, a)))
        = Config(file.groups, Phases, ReadGroups(0, k), NoPhases(Phases), Added(ReadTypes(1, 0, a), <<"phase_type">>))
  BY Malloc
<1> QED BY <1>2, <1>3, <1>5, <1>6, <1>7

\* The general keys read, the rest in closed form.
LEMMA ReadIs ==
  ASSUME NEW k, NEW j, NEW t, NEW a
  PROVE  Read(2, k, j, t, a) = Config(file.groups, Phases, ReadGroups(a.group, k), ReadPhases(a.phase, j, a.stage, t), ReadTypes(2, j, a))
BY DEF Read

\* Total_Iters of the next phase.
LEMMA ItersRead ==
  ASSUME FileOK, NEW a, NEW k, NEW j \in 0 .. 1, NEW t, Progress(2, k, j, t, a), a.phase < Phases
  PROVE  [Read(2, k, j, t, a) EXCEPT !.phases[a.phase + 1].iters = Value(<<"phase", a.phase>>, "Total_Iters")]
           = Read(2, k, 1, 0, a)
<1> DEFINE p == a.phase + 1
           f == ReadPhases(a.phase, j, a.stage, t)
           g == ReadPhases(a.phase, 1, a.stage, 0)
           v == Value(<<"phase", a.phase>>, "Total_Iters")
           x == [f[p] EXCEPT !.iters = v]
           G == ReadGroups(a.group, k)
           y == ReadTypes(2, j, a)
<1>1. a.phase \in Nat /\ p \in 1 .. Phases /\ p - 1 = a.phase
  BY PlaceIs
<1>2. IsArray(f, Phases) /\ IsArray(g, Phases)
  BY ArraysRead
<1>3. f[p] = ReadPhase(p, j, a.stage, t) /\ g[p] = ReadPhase(p, 1, a.stage, 0)
  BY <1>1, ItemsRead
<1>4. x = g[p]
  BY <1>1, <1>3 DEF ReadPhase
<1>5. \A i \in 1 .. Phases : i # p => g[i] = f[i]
  BY <1>1, ItemsRead
<1> HIDE DEF p, f, g, x, v
<1>6. [f EXCEPT ![p] = x] = g
  BY <1>1, <1>2, <1>4, <1>5, Replace
<1>7. [f EXCEPT ![p].iters = v] = g
  BY <1>6, FieldOfItem DEF x
<1>8. y = ReadTypes(2, 1, a)
  BY DEF ReadTypes
<1> HIDE DEF G, y
<1>9. [Config(file.groups, Phases, G, f, y) EXCEPT !.phases[p].iters = v] = Config(file.groups, Phases, G, g, y)
  <2>1. [Config(file.groups, Phases, G, f, y) EXCEPT !.phases[p].iters = v]
          = Config(file.groups, Phases, G, [f EXCEPT ![p].iters = v], y)
    BY DEF Config
  <2> QED BY <1>7, <2>1
<1>10. Read(2, k, j, t, a) = Config(file.groups, Phases, G, f, y) /\ Read(2, k, 1, 0, a) = Config(file.groups, Phases, G, g, y)
  BY <1>8, ReadIs DEF f, g, G, y
<1> QED BY <1>9, <1>10 DEF p, v

\* Total_Stages of the next phase, and the stages it makes.
LEMMA StagesRead ==
  ASSUME FileOK, NEW a, NEW k, NEW t, Progress(2, k, 1, t, a)
  PROVE  MallocStages(Read(2, k, 1, t, a), a.phase + 1, StagesOf(a.phase + 1))
           = Read(2, k, 2, 0, [a EXCEPT !.stage = 0])
<1> DEFINE p == a.phase + 1
           b == [a EXCEPT !.stage = 0]
           n == StagesOf(p)
           f == ReadPhases(a.phase, 1, a.stage, t)
           g == ReadPhases(a.phase, 2, 0, 0)
           v == NoStages(n)
           x == [f[p] EXCEPT !.stages = v]
<1>1. a.phase \in Nat /\ p \in 1 .. Phases /\ p - 1 = a.phase
  <2>1. a.phase < Phases
    BY DEF Progress
  <2> QED BY <2>1, PlaceIs
<1>2. b.phase = a.phase /\ b.stage = 0 /\ b.group = a.group
  BY DEF Progress
<1>3. ASSUME NEW s \in 1 .. n PROVE ReadStage(p, s, Upto(s, 0, 0, 3)) = NoStage
  <2>1. n \in Nat /\ s \in Nat /\ s >= 1
    BY <1>1 DEF FileOK
  <2>2. Upto(s, 0, 0, 3) = 0
    BY <2>1 DEF Upto
  <2> QED BY <2>2 DEF ReadStage, NoStage
<1>4. ReadStages(p, 0, 0) = v
  BY <1>3 DEF ReadStages, NoStages
<1>5. IsArray(f, Phases) /\ IsArray(g, Phases)
  BY ArraysRead
<1>6. f[p] = ReadPhase(p, 1, a.stage, t) /\ g[p] = ReadPhase(p, 2, 0, 0)
  BY <1>1, ItemsRead
<1>7. g[p].stages = v
  BY <1>4, <1>6 DEF ReadPhase
<1> HIDE DEF v
<1>8. x = g[p]
  BY <1>1, <1>6, <1>7 DEF ReadPhase
<1>9. \A i \in 1 .. Phases : i # p => g[i] = f[i]
  BY <1>1, ItemsRead
<1> HIDE DEF p, f, g, x, n, b
<1>10. [f EXCEPT ![p] = x] = g
  BY <1>1, <1>5, <1>8, <1>9, Replace
<1>11. [f EXCEPT ![p].stages = v] = g
  BY <1>10, FieldOfItem DEF x
<1>12. Added(ReadTypes(2, 1, a), <<"stage_type">>) = ReadTypes(2, 2, b)
  BY DEF ReadTypes, Added
<1>13. MallocStages(Config(file.groups, Phases, ReadGroups(a.group, k), f, ReadTypes(2, 1, a)), p, n)
        = Config(file.groups, Phases, ReadGroups(a.group, k), g, ReadTypes(2, 2, b))
  <2> DEFINE G == ReadGroups(a.group, k)
             y == ReadTypes(2, 1, a)
  <2> HIDE DEF G, y
  <2>1. MallocStages(Config(file.groups, Phases, G, f, y), p, n) = Config(file.groups, Phases, G, g, Added(y, <<"stage_type">>))
    BY <1>11, MallocOfStages DEF v, SetStages
  <2> QED BY <1>12, <2>1 DEF G, y
<1>14. Read(2, k, 2, 0, b) = Config(file.groups, Phases, ReadGroups(a.group, k), g, ReadTypes(2, 2, b))
  BY <1>2, ReadIs DEF g
<1>15. Read(2, k, 1, t, a) = Config(file.groups, Phases, ReadGroups(a.group, k), f, ReadTypes(2, 1, a))
  BY ReadIs DEF f
<1> QED BY <1>13, <1>14, <1>15 DEF p, n, b

\* One stage of the phase at work changes.
LEMMA OneStage ==
  ASSUME FileOK, NEW a, NEW t, NEW u, NEW x, NEW k, Progress(2, k, 2, t, a),
         ReadStage(a.phase + 1, a.stage + 1, u) = x
  PROVE  [ReadPhases(a.phase, 2, a.stage, t) EXCEPT ![a.phase + 1].stages[a.stage + 1] = x]
           = ReadPhases(a.phase, 2, a.stage, u)
<1> DEFINE p == a.phase + 1
           s == a.stage + 1
           f == ReadPhases(a.phase, 2, a.stage, t)
           g == ReadPhases(a.phase, 2, a.stage, u)
           d == ReadStages(p, a.stage, t)
           e == ReadStages(p, a.stage, u)
           y == [f[p] EXCEPT !.stages = [f[p].stages EXCEPT ![s] = x]]
<1>1. /\ a.phase \in Nat /\ p \in 1 .. Phases /\ a.stage \in Nat /\ s \in 1 .. StagesOf(p)
  BY PlaceIs
<1>2. /\ IsArray(d, StagesOf(p)) /\ IsArray(e, StagesOf(p))
      /\ IsArray(f, Phases) /\ IsArray(g, Phases)
  BY ArraysRead
<1>3. StagesOf(p) \in Nat
  BY <1>1 DEF FileOK
<1>4. e[s] = x
  <2>1. Upto(s, a.stage, u, 3) = u
    BY <1>1 DEF Upto
  <2> QED BY <1>1, <2>1, ItemsRead
<1>5. ASSUME NEW i \in 1 .. StagesOf(p), i # s PROVE e[i] = d[i]
  <2>1. Upto(i, a.stage, u, 3) = Upto(i, a.stage, t, 3)
    BY <1>1, <1>3, <1>5 DEF Upto
  <2> QED BY <1>1, <2>1, ItemsRead
<1>6. f[p] = ReadPhase(p, 2, a.stage, t) /\ g[p] = ReadPhase(p, 2, a.stage, u)
  BY <1>1, ItemsRead
<1>7. f[p].stages = d /\ f[p] = [iters |-> f[p].iters, stages |-> d] /\ g[p] = [iters |-> f[p].iters, stages |-> e]
  BY <1>6 DEF ReadPhase
<1>8. \A i \in 1 .. Phases : i # p => g[i] = f[i]
  BY <1>1, ItemsRead
<1> HIDE DEF p, s, f, g, d, e, y
<1>9. [d EXCEPT ![s] = x] = e
  BY <1>1, <1>2, <1>4, <1>5, Replace
<1>10. y = g[p]
  BY <1>7, <1>9 DEF y
<1>11. [f EXCEPT ![p] = y] = g
  BY <1>1, <1>2, <1>8, <1>10, Replace
<1>12. [f EXCEPT ![p].stages[s] = x] = g
  BY <1>11, FieldOfStage DEF y
<1> QED BY <1>12 DEF p, s, f, g

\* The assignments to a stage, and to one of its keys.
SetStage(c, p, s, x) == [c EXCEPT !.phases[p].stages[s] = x]
SetType(c, p, s, x) == [c EXCEPT !.phases[p].stages[s].type = x]
SetGran(c, p, s, x) == [c EXCEPT !.phases[p].stages[s].gran = x]
SetTime(c, p, s, x) == [c EXCEPT !.phases[p].stages[s].time = x]
WithType(d, x) == [d EXCEPT !.type = x]
WithGran(d, x) == [d EXCEPT !.gran = x]
WithTime(d, x) == [d EXCEPT !.time = x]

\* A stage of the phase at work as a whole.
LEMMA StageSet ==
  ASSUME FileOK, NEW a, NEW t, NEW u, NEW x, NEW k, Progress(2, k, 2, t, a),
         NEW p, p = a.phase + 1, NEW s, s = a.stage + 1, ReadStage(p, s, u) = x
  PROVE  SetStage(Read(2, k, 2, t, a), p, s, x) = Read(2, k, 2, u, a)
<1> DEFINE f == ReadPhases(a.phase, 2, a.stage, t)
           g == ReadPhases(a.phase, 2, a.stage, u)
           G == ReadGroups(a.group, k)
           y == ReadTypes(2, 2, a)
<1>1. [f EXCEPT ![p].stages[s] = x] = g
  BY OneStage
<1>2. Read(2, k, 2, t, a) = Config(file.groups, Phases, G, f, y) /\ Read(2, k, 2, u, a) = Config(file.groups, Phases, G, g, y)
  BY ReadIs
<1> HIDE DEF f, g, G, y
<1>3. [Config(file.groups, Phases, G, f, y) EXCEPT !.phases[p].stages[s] = x]
        = Config(file.groups, Phases, G, [f EXCEPT ![p].stages[s] = x], y)
  BY DEF Config
<1> QED BY <1>1, <1>2, <1>3 DEF SetStage

\* The stage at work, as it has been read.
LEMMA StageAt ==
  ASSUME FileOK, NEW a, NEW t, NEW k, Progress(2, k, 2, t, a)
  PROVE  /\ Read(2, k, 2, t, a).phases[a.phase + 1].stages[a.stage + 1] = ReadStage(a.phase + 1, a.stage + 1, t)
         /\ Read(2, k, 2, t, a).phases[a.phase + 1].stages = ReadStages(a.phase + 1, a.stage, t)
<1> DEFINE p == a.phase + 1
           s == a.stage + 1
<1>1. a.phase \in Nat /\ p \in 1 .. Phases /\ a.stage \in Nat /\ s \in 1 .. StagesOf(p)
  BY PlaceIs
<1>2. Read(2, k, 2, t, a).phases = ReadPhases(a.phase, 2, a.stage, t)
  BY ReadIs, ConfigFields
<1>3. ReadPhases(a.phase, 2, a.stage, t)[p] = ReadPhase(p, 2, a.stage, t)
  BY <1>1, ItemsRead
<1>4. ReadPhase(p, 2, a.stage, t).stages = ReadStages(p, a.stage, t)
  BY DEF ReadPhase
<1>5. ReadStages(p, a.stage, t)[s] = ReadStage(p, s, Upto(s, a.stage, t, 3))
  BY <1>1, ItemsRead
<1>6. Upto(s, a.stage, t, 3) = t
  BY <1>1 DEF Upto
<1> QED BY <1>2, <1>3, <1>4, <1>5, <1>6

\* A key of the stage at work is an assignment to the stage.
LEMMA KeysRead ==
  ASSUME FileOK, NEW a, NEW t, NEW k, NEW x, Progress(2, k, 2, t, a),
         NEW p, p = a.phase + 1, NEW s, s = a.stage + 1
  PROVE  /\ SetType(Read(2, k, 2, t, a), p, s, x) = SetStage(Read(2, k, 2, t, a), p, s, WithType(ReadStage(p, s, t), x))
         /\ SetGran(Read(2, k, 2, t, a), p, s, x) = SetStage(Read(2, k, 2, t, a), p, s, WithGran(ReadStage(p, s, t), x))
         /\ SetTime(Read(2, k, 2, t, a), p, s, x) = SetStage(Read(2, k, 2, t, a), p, s, WithTime(ReadStage(p, s, t), x))
<1> DEFINE c == Read(2, k, 2, t, a)
           d == ReadStage(p, s, t)
<1>1. c.phases[p].stages[s] = d
  BY StageAt
<1> HIDE DEF c, d
<1>2. [c EXCEPT !.phases[p].stages[s].type = x] = [c EXCEPT !.phases[p].stages[s] = [d EXCEPT !.type = x]]
  BY <1>1
<1>3. [c EXCEPT !.phases[p].stages[s].gran = x] = [c EXCEPT !.phases[p].stages[s] = [d EXCEPT !.gran = x]]
  BY <1>1
<1>4. [c EXCEPT !.phases[p].stages[s].time = x] = [c EXCEPT !.phases[p].stages[s] = [d EXCEPT !.time = x]]
  BY <1>1
<1> QED
  BY <1>2, <1>3, <1>4 DEF c, d, SetStage, SetType, SetGran, SetTime, WithType, WithGran, WithTime

\* The type of a stage, and its granularity when the file gives none.
LEMMA TypeRead ==
  ASSUME FileOK, NEW a, NEW k, Progress(2, k, 2, 0, a), NEW p, p = a.phase + 1, NEW s, s = a.stage + 1,
         NEW u \in 1 .. 2, u = 2 => <<a.phase, a.stage>> \notin file.gran
  PROVE  SetType(Read(2, k, 2, 0, a), p, s, Value(<<"stage", a.phase, a.stage>>, "Stage_Type")) = Read(2, k, 2, u, a)
<1> DEFINE v == Value(<<"stage", a.phase, a.stage>>, "Stage_Type")
           d == ReadStage(p, s, 0)
<1>1. p - 1 = a.phase /\ s - 1 = a.stage
  BY PlaceIs
<1>2. ReadStage(p, s, u) = WithType(d, v)
  <2>1. ReadStage(p, s, u) = [type |-> v, gran |-> d.gran, time |-> d.time]
    BY <1>1 DEF ReadStage, d
  <2>2. d = [type |-> d.type, gran |-> d.gran, time |-> d.time]
    BY <1>1 DEF ReadStage, d
  <2> HIDE DEF v, d
  <2>3. WithType(d, v) = [type |-> v, gran |-> d.gran, time |-> d.time]
    BY <2>2 DEF WithType
  <2> QED BY <2>1, <2>3
<1>3. SetType(Read(2, k, 2, 0, a), p, s, v) = SetStage(Read(2, k, 2, 0, a), p, s, WithType(d, v))
  BY KeysRead
<1> HIDE DEF v, d
<1>4. SetStage(Read(2, k, 2, 0, a), p, s, WithType(d, v)) = Read(2, k, 2, u, a)
  BY <1>2, StageSet
<1> QED BY <1>3, <1>4 DEF v

\* The granularity of a stage.
LEMMA GranRead ==
  ASSUME FileOK, NEW a, NEW k, Progress(2, k, 2, 1, a), NEW p, p = a.phase + 1, NEW s, s = a.stage + 1,
         <<a.phase, a.stage>> \in file.gran
  PROVE  SetGran(Read(2, k, 2, 1, a), p, s, Value(<<"stage", a.phase, a.stage>>, "Granularity")) = Read(2, k, 2, 2, a)
<1> DEFINE v == Value(<<"stage", a.phase, a.stage>>, "Granularity")
           d == ReadStage(p, s, 1)
<1>1. p - 1 = a.phase /\ s - 1 = a.stage
  BY PlaceIs
<1>2. ReadStage(p, s, 2) = WithGran(d, v)
  <2>1. ReadStage(p, s, 2) = [type |-> d.type, gran |-> v, time |-> d.time]
    BY <1>1 DEF ReadStage, d
  <2>2. d = [type |-> d.type, gran |-> d.gran, time |-> d.time]
    BY <1>1 DEF ReadStage, d
  <2> HIDE DEF v, d
  <2>3. WithGran(d, v) = [type |-> d.type, gran |-> v, time |-> d.time]
    BY <2>2 DEF WithGran
  <2> QED BY <2>1, <2>3
<1>3. SetGran(Read(2, k, 2, 1, a), p, s, v) = SetStage(Read(2, k, 2, 1, a), p, s, WithGran(d, v))
  BY KeysRead
<1> HIDE DEF v, d
<1>4. SetStage(Read(2, k, 2, 1, a), p, s, WithGran(d, v)) = Read(2, k, 2, 2, a)
  BY <1>2, StageSet
<1> QED BY <1>3, <1>4 DEF v

\* The time of a stage, its last key.
LEMMA TimeRead ==
  ASSUME FileOK, NEW a, NEW k, Progress(2, k, 2, 2, a), NEW p, p = a.phase + 1, NEW s, s = a.stage + 1
  PROVE  SetTime(Read(2, k, 2, 2, a), p, s, Value(<<"stage", a.phase, a.stage>>, "Stage_Time")) = Read(2, k, 2, 3, a)
<1> DEFINE v == Value(<<"stage", a.phase, a.stage>>, "Stage_Time")
           d == ReadStage(p, s, 2)
<1>1. p - 1 = a.phase /\ s - 1 = a.stage
  BY PlaceIs
<1>2. ReadStage(p, s, 3) = WithTime(d, v)
  <2>1. ReadStage(p, s, 3) = [type |-> d.type, gran |-> d.gran, time |-> v]
    <3> DEFINE w == Value(<<"stage", p - 1, s - 1>>, "Stage_Type")
               g == IF <<p - 1, s - 1>> \in file.gran THEN Value(<<"stage", p - 1, s - 1>>, "Granularity") ELSE <<>>
    <3>0. v = Value(<<"stage", p - 1, s - 1>>, "Stage_Time")
      BY <1>1
    <3>1. ReadStage(p, s, 3) = [type |-> w, gran |-> g, time |-> v]
      <4> HIDE DEF v
      <4> QED BY <3>0 DEF ReadStage
    <3>2. d = [type |-> w, gran |-> g, time |-> <<>>]
      BY <1>1 DEF ReadStage, d
    <3> HIDE DEF w, g, v, d
    <3> QED BY <3>1, <3>2
  <2>2. d = [type |-> d.type, gran |-> d.gran, time |-> d.time]
    BY <1>1 DEF ReadStage, d
  <2> HIDE DEF v, d
  <2>3. WithTime(d, v) = [type |-> d.type, gran |-> d.gran, time |-> v]
    BY <2>2 DEF WithTime
  <2> QED BY <2>1, <2>3
<1>3. SetTime(Read(2, k, 2, 2, a), p, s, v) = SetStage(Read(2, k, 2, 2, a), p, s, WithTime(d, v))
  BY KeysRead
<1> HIDE DEF v, d
<1>4. SetStage(Read(2, k, 2, 2, a), p, s, WithTime(d, v)) = Read(2, k, 2, 3, a)
  BY <1>2, StageSet
<1> QED BY <1>3, <1>4 DEF v

\* A stage with its three keys is a stage read, and the last one ends its phase.
LEMMA StageIsRead ==
  ASSUME FileOK, NEW a, NEW k, NEW t, Progress(2, k, 2, t, a), NEW c, c = Read(2, k, 2, t, a)
  PROVE  LET b == StageEnds(c, a)
             more == a.stage + 1 < StagesOf(a.phase + 1)
         IN  /\ b \in [group : Nat, phase : Nat, stage : Nat]
             /\ b.group = a.group /\ b.stage = a.stage + 1
             /\ b.phase = IF more THEN a.phase ELSE a.phase + 1
             /\ Read(2, k, 2, 3, a) = Read(2, k, IF more THEN 2 ELSE 0, 0, b)
<1> DEFINE p == a.phase + 1
           s == a.stage + 1
           b == StageEnds(c, a)
           more == a.stage + 1 < StagesOf(p)
           j == IF more THEN 2 ELSE 0
<1>1. /\ a.group \in Nat /\ a.phase \in Nat /\ p \in 1 .. Phases /\ a.stage \in Nat /\ s \in 1 .. StagesOf(p)
      /\ StagesOf(p) \in Nat
  BY PlaceIs
<1>2. Len(c.phases[p].stages) = StagesOf(p)
  <2>1. c.phases[p].stages = ReadStages(p, a.stage, t)
    BY StageAt
  <2>2. IsArray(ReadStages(p, a.stage, t), StagesOf(p))
    BY ArraysRead
  <2> QED BY <1>1, <2>1 DEF ReadStages
<1>3. b = IF s = StagesOf(p) THEN [a EXCEPT !.stage = @ + 1, !.phase = @ + 1] ELSE [a EXCEPT !.stage = @ + 1]
  BY <1>2 DEF StageEnds
<1>4. /\ b \in [group : Nat, phase : Nat, stage : Nat]
      /\ b.group = a.group /\ b.stage = s /\ b.phase = IF more THEN a.phase ELSE p
  <2>0. a = [group |-> a.group, phase |-> a.phase, stage |-> a.stage]
    BY DEF Progress
  <2>1. CASE s = StagesOf(p)
    <3>1. b = [group |-> a.group, phase |-> p, stage |-> s]
      BY <1>3, <2>0, <2>1
    <3>2. ~more
      BY <1>1, <2>1
    <3> HIDE DEF b
    <3> QED BY <1>1, <3>1, <3>2
  <2>2. CASE s # StagesOf(p)
    <3>1. b = [group |-> a.group, phase |-> a.phase, stage |-> s]
      BY <1>3, <2>0, <2>2
    <3>2. more
      BY <1>1, <2>2
    <3> HIDE DEF b
    <3> QED BY <1>1, <3>1, <3>2
  <2> QED BY <2>1, <2>2
<1>5. ReadPhases(a.phase, 2, a.stage, 3) = ReadPhases(b.phase, j, b.stage, 0)
  <2> DEFINE f == ReadPhases(a.phase, 2, a.stage, 3)
             g == ReadPhases(b.phase, j, b.stage, 0)
  <2>1. IsArray(f, Phases) /\ IsArray(g, Phases)
    BY ArraysRead
  <2>2. ASSUME NEW i \in 1 .. Phases PROVE f[i] = g[i]
    <3>1. CASE i # p
      <4>1. ReadPhase(i, 0, b.stage, 0) = NoPhase
        BY DEF ReadPhase, NoPhase
      <4> QED BY <1>1, <1>4, <3>1, <4>1, ItemsRead
    <3>2. CASE i = p
      <4>1. f[i] = ReadPhase(p, 2, a.stage, 3)
        BY <1>1, <3>2, ItemsRead
      <4>2. g[i] = IF more THEN ReadPhase(p, 2, s, 0) ELSE ReadPhase(p, 2, StagesOf(p), 0)
        BY <1>1, <1>4, <3>2, ItemsRead
      <4>3. ReadStages(p, a.stage, 3) = ReadStages(p, s, 0)
        <5>1. \A x \in 1 .. StagesOf(p) : Upto(x, a.stage, 3, 3) = Upto(x, s, 0, 3)
          BY <1>1 DEF Upto
        <5> QED BY <5>1 DEF ReadStages
      <4>4. ~more => s = StagesOf(p)
        BY <1>1
      <4> QED BY <4>1, <4>2, <4>3, <4>4 DEF ReadPhase
    <3> QED BY <3>1, <3>2
  <2> HIDE DEF f, g
  <2>3. f = g
    BY <2>1, <2>2 DEF IsArray
  <2> QED BY <2>3 DEF f, g
<1>6. ReadTypes(2, 2, a) = ReadTypes(2, j, b)
  BY <1>1, <1>4 DEF ReadTypes
<1>7. Read(2, k, 2, 3, a) = Read(2, k, j, 0, b)
  BY <1>4, <1>5, <1>6, ReadIs
<1> QED BY <1>4, <1>7

\* The assignments to the keys of a group.
SetGroup(c, g, x) == [c EXCEPT !.groups[g] = x]
SetProcs(c, g, x) == [c EXCEPT !.groups[g].procs = x]
SetRs(c, g, x) == [c EXCEPT !.groups[g].rs = x]
SetSs(c, g, x) == [c EXCEPT !.groups[g].ss = x]
WithProcs(d, x) == [d EXCEPT !.procs = x]
WithRs(d, x) == [d EXCEPT !.rs = x]
WithSs(d, x) == [d EXCEPT !.ss = x]

\* The group at work as a whole.
LEMMA GroupSet ==
  ASSUME FileOK, NEW a, NEW k, NEW j, NEW t, NEW u, NEW x, Progress(2, k, j, t, a), a.group < file.groups,
         NEW g, g = a.group + 1, ReadGroup(g, u) = x
  PROVE  SetGroup(Read(2, k, j, t, a), g, x) = Read(2, u, j, t, a)
<1> DEFINE d == ReadGroups(a.group, k)
           e == ReadGroups(a.group, u)
           F == ReadPhases(a.phase, j, a.stage, t)
           y == ReadTypes(2, j, a)
<1>1. a.group \in Nat /\ g \in 1 .. file.groups /\ file.groups \in Nat
  BY PlaceIs DEF FileOK
<1>2. IsArray(d, file.groups) /\ IsArray(e, file.groups)
  BY ArraysRead
<1>3. e[g] = x
  <2>1. Upto(g, a.group, u, 3) = u
    BY <1>1 DEF Upto
  <2> QED BY <1>1, <2>1, ItemsRead
<1>4. ASSUME NEW i \in 1 .. file.groups, i # g PROVE e[i] = d[i]
  <2>1. Upto(i, a.group, u, 3) = Upto(i, a.group, k, 3)
    BY <1>1, <1>4 DEF Upto
  <2> QED BY <1>1, <2>1, ItemsRead
<1>5. Read(2, k, j, t, a) = Config(file.groups, Phases, d, F, y) /\ Read(2, u, j, t, a) = Config(file.groups, Phases, e, F, y)
  BY ReadIs
<1> HIDE DEF d, e, F, y
<1>6. [d EXCEPT ![g] = x] = e
  BY <1>1, <1>2, <1>3, <1>4, Replace
<1>7. [Config(file.groups, Phases, d, F, y) EXCEPT !.groups[g] = x]
        = Config(file.groups, Phases, [d EXCEPT ![g] = x], F, y)
  BY DEF Config
<1> QED BY <1>5, <1>6, <1>7 DEF SetGroup

\* A key of the group at work is an assignment to the group.
LEMMA GroupKeys ==
  ASSUME FileOK, NEW a, NEW k, NEW j, NEW t, NEW x, Progress(2, k, j, t, a), a.group < file.groups,
         NEW g, g = a.group + 1
  PROVE  /\ Read(2, k, j, t, a).groups[g] = ReadGroup(g, k)
         /\ SetProcs(Read(2, k, j, t, a), g, x) = SetGroup(Read(2, k, j, t, a), g, WithProcs(ReadGroup(g, k), x))
         /\ SetRs(Read(2, k, j, t, a), g, x) = SetGroup(Read(2, k, j, t, a), g, WithRs(ReadGroup(g, k), x))
         /\ SetSs(Read(2, k, j, t, a), g, x) = SetGroup(Read(2, k, j, t, a), g, WithSs(ReadGroup(g, k), x))
<1> DEFINE c == Read(2, k, j, t, a)
           d == ReadGroup(g, k)
<1>1. c.groups[g] = d
  <2>1. a.group \in Nat /\ g \in 1 .. file.groups
    BY PlaceIs
  <2>2. Upto(g, a.group, k, 3) = k
    BY <2>1 DEF Upto
  <2>3. ReadGroups(a.group, k)[g] = d
    BY <2>1, <2>2, ItemsRead
  <2>4. c.groups = ReadGroups(a.group, k)
    BY ReadIs, ConfigFields
  <2> QED BY <2>3, <2>4
<1> HIDE DEF c, d
<1>2. [c EXCEPT !.groups[g].procs = x] = [c EXCEPT !.groups[g] = [d EXCEPT !.procs = x]]
  BY <1>1
<1>3. [c EXCEPT !.groups[g].rs = x] = [c EXCEPT !.groups[g] = [d EXCEPT !.rs = x]]
  BY <1>1
<1>4. [c EXCEPT !.groups[g].ss = x] = [c EXCEPT !.groups[g] = [d EXCEPT !.ss = x]]
  BY <1>1
<1> QED
  BY <1>1, <1>2, <1>3, <1>4 DEF c, d, SetGroup, SetProcs, SetRs, SetSs, WithProcs, WithRs, WithSs

\* The processes of a group.
LEMMA ProcsRead ==
  ASSUME FileOK, NEW a, NEW j, NEW t, Progress(2, 0, j, t, a), a.group < file.groups, NEW g, g = a.group + 1
  PROVE  SetProcs(Read(2, 0, j, t, a), g, Value(<<"resize", a.group>>, "Procs")) = Read(2, 1, j, t, a)
<1> DEFINE v == Value(<<"resize", a.group>>, "Procs")
           d == ReadGroup(g, 0)
<1>1. g - 1 = a.group
  BY PlaceIs
<1>2. ReadGroup(g, 1) = WithProcs(d, v)
  <2>1. ReadGroup(g, 1) = [procs |-> v, rs |-> d.rs, ss |-> d.ss]
    BY <1>1 DEF ReadGroup, d
  <2>2. d = [procs |-> d.procs, rs |-> d.rs, ss |-> d.ss]
    BY <1>1 DEF ReadGroup, d
  <2> HIDE DEF v, d
  <2>3. WithProcs(d, v) = [procs |-> v, rs |-> d.rs, ss |-> d.ss]
    BY <2>2 DEF WithProcs
  <2> QED BY <2>1, <2>3
<1>3. SetProcs(Read(2, 0, j, t, a), g, v) = SetGroup(Read(2, 0, j, t, a), g, WithProcs(d, v))
  BY GroupKeys
<1> HIDE DEF v, d
<1>4. SetGroup(Read(2, 0, j, t, a), g, WithProcs(d, v)) = Read(2, 1, j, t, a)
  BY <1>2, GroupSet
<1> QED BY <1>3, <1>4 DEF v

\* The redistribution strategies of a group.
LEMMA RsRead ==
  ASSUME FileOK, NEW a, NEW j, NEW t, Progress(2, 1, j, t, a), a.group < file.groups, NEW g, g = a.group + 1
  PROVE  SetRs(Read(2, 1, j, t, a), g, Value(<<"resize", a.group>>, "Redistribution_Strategy")) = Read(2, 2, j, t, a)
<1> DEFINE v == Value(<<"resize", a.group>>, "Redistribution_Strategy")
           d == ReadGroup(g, 1)
<1>1. g - 1 = a.group
  BY PlaceIs
<1>2. ReadGroup(g, 2) = WithRs(d, v)
  <2>1. ReadGroup(g, 2) = [procs |-> d.procs, rs |-> v, ss |-> d.ss]
    BY <1>1 DEF ReadGroup, d
  <2>2. d = [procs |-> d.procs, rs |-> d.rs, ss |-> d.ss]
    BY <1>1 DEF ReadGroup, d
  <2> HIDE DEF v, d
  <2>3. WithRs(d, v) = [procs |-> d.procs, rs |-> v, ss |-> d.ss]
    BY <2>2 DEF WithRs
  <2> QED BY <2>1, <2>3
<1>3. SetRs(Read(2, 1, j, t, a), g, v) = SetGroup(Read(2, 1, j, t, a), g, WithRs(d, v))
  BY GroupKeys
<1> HIDE DEF v, d
<1>4. SetGroup(Read(2, 1, j, t, a), g, WithRs(d, v)) = Read(2, 2, j, t, a)
  BY <1>2, GroupSet
<1> QED BY <1>3, <1>4 DEF v

\* The spawn strategies of a group, its last key.
LEMMA SsRead ==
  ASSUME FileOK, NEW a, NEW j, NEW t, Progress(2, 2, j, t, a), a.group < file.groups, NEW g, g = a.group + 1
  PROVE  SetSs(Read(2, 2, j, t, a), g, Value(<<"resize", a.group>>, "Spawn_Strategy")) = Read(2, 3, j, t, a)
<1> DEFINE v == Value(<<"resize", a.group>>, "Spawn_Strategy")
           d == ReadGroup(g, 2)
<1>1. g - 1 = a.group
  BY PlaceIs
<1>2. ReadGroup(g, 3) = WithSs(d, v)
  <2>1. ReadGroup(g, 3) = [procs |-> d.procs, rs |-> d.rs, ss |-> v]
    BY <1>1 DEF ReadGroup, d
  <2>2. d = [procs |-> d.procs, rs |-> d.rs, ss |-> d.ss]
    BY <1>1 DEF ReadGroup, d
  <2> HIDE DEF v, d
  <2>3. WithSs(d, v) = [procs |-> d.procs, rs |-> d.rs, ss |-> v]
    BY <2>2 DEF WithSs
  <2> QED BY <2>1, <2>3
<1>3. SetSs(Read(2, 2, j, t, a), g, v) = SetGroup(Read(2, 2, j, t, a), g, WithSs(d, v))
  BY GroupKeys
<1> HIDE DEF v, d
<1>4. SetGroup(Read(2, 2, j, t, a), g, WithSs(d, v)) = Read(2, 3, j, t, a)
  BY <1>2, GroupSet
<1> QED BY <1>3, <1>4 DEF v

\* A group with its three keys is a group read.
NextGroup(a) == [a EXCEPT !.group = @ + 1]

\* The three keys of a group make a group more.
LEMMA GroupIsRead ==
  ASSUME FileOK, NEW a, NEW k, NEW j, NEW t, Progress(2, k, j, t, a), a.group < file.groups
  PROVE  /\ NextGroup(a) \in [group : Nat, phase : Nat, stage : Nat]
         /\ NextGroup(a).group = a.group + 1 /\ NextGroup(a).phase = a.phase /\ NextGroup(a).stage = a.stage
         /\ Read(2, 3, j, t, a) = Read(2, 0, j, t, NextGroup(a))
<1> DEFINE b == NextGroup(a)
<1>1. a.group \in Nat /\ a = [group |-> a.group, phase |-> a.phase, stage |-> a.stage] /\ a.phase \in Nat /\ a.stage \in Nat
  BY DEF Progress
<1>2. b = [group |-> a.group + 1, phase |-> a.phase, stage |-> a.stage]
  BY <1>1 DEF NextGroup
<1>3. /\ b \in [group : Nat, phase : Nat, stage : Nat]
      /\ b.group = a.group + 1 /\ b.phase = a.phase /\ b.stage = a.stage
  BY <1>1, <1>2
<1>4. ReadGroups(a.group, 3) = ReadGroups(b.group, 0)
  <2>1. ASSUME NEW i \in 1 .. file.groups PROVE Upto(i, a.group, 3, 3) = Upto(i, a.group + 1, 0, 3)
    BY <1>1 DEF Upto, FileOK
  <2> QED BY <1>3, <2>1 DEF ReadGroups
<1>5. ReadTypes(2, j, a) = ReadTypes(2, j, b)
  BY <1>3 DEF ReadTypes
<1>6. Read(2, 3, j, t, a) = Read(2, 0, j, t, b)
  BY <1>3, <1>4, <1>5, ReadIs
<1> QED BY <1>3, <1>6

-----------------------------------------------------------------------------
(* The lines of an INI file and what handler does with each. *)

Outcome(c, a, new) == [cfg |-> c, at |-> a, new |-> new]

\* The general section.
LEMMA HandlerGeneral ==
  ASSUME NEW c, NEW a, a.group = 0, c.n_groups \in Nat \ {0}
  PROVE  /\ Handler(c, a, Line(<<"general">>, "Total_Resizes"))
              = Outcome(MallocResizes([c EXCEPT !.n_groups = file.groups]), a, {<<"groups">>, <<"group_type">>})
         /\ Handler(c, a, Line(<<"general">>, "Total_Phases"))
              = Outcome(MallocPhases([c EXCEPT !.n_phases = Phases]), a, {<<"phases">>, <<"phase_type">>})
BY DEF Handler, Line, Outcome, Phases

\* The section of the phase at work.
SetIters(c, p, x) == [c EXCEPT !.phases[p].iters = x]

\* The keys of the phase.
LEMMA HandlerPhase ==
  ASSUME NEW c, NEW a, a.phase \in Nat, c.n_phases \in Nat, a.phase < c.n_phases
  PROVE  /\ Handler(c, a, Line(<<"phase", a.phase>>, "Total_Iters"))
              = Outcome(SetIters(c, a.phase + 1, Value(<<"phase", a.phase>>, "Total_Iters")), a, {})
         /\ Handler(c, a, Line(<<"phase", a.phase>>, "Total_Stages"))
              = Outcome(MallocStages(c, a.phase + 1, StagesOf(a.phase + 1)), [a EXCEPT !.stage = 0],
                        {<<"stages", a.phase + 1>>, <<"stage_type">>})
BY DEF Handler, Line, Outcome, SetIters, Place, StagesFrom, StagesOf

\* The section of the stage at work.
LEMMA HandlerStage ==
  ASSUME NEW c, NEW a, a.phase \in Nat, c.n_phases \in Nat, a.phase < c.n_phases,
         a.stage < Len(c.phases[a.phase + 1].stages)
  PROVE  /\ Handler(c, a, Line(<<"stage", a.phase, a.stage>>, "Stage_Type"))
              = Outcome(SetType(c, a.phase + 1, a.stage + 1, Value(<<"stage", a.phase, a.stage>>, "Stage_Type")), a, {})
         /\ Handler(c, a, Line(<<"stage", a.phase, a.stage>>, "Granularity"))
              = Outcome(SetGran(c, a.phase + 1, a.stage + 1, Value(<<"stage", a.phase, a.stage>>, "Granularity")), a, {})
         /\ Handler(c, a, Line(<<"stage", a.phase, a.stage>>, "Stage_Time"))
              = Outcome(SetTime(c, a.phase + 1, a.stage + 1, Value(<<"stage", a.phase, a.stage>>, "Stage_Time")),
                        StageEnds(c, a), {})
<1>1. ASSUME NEW l, l.section = <<"stage", a.phase, a.stage>>, l.key = "Stage_Type"
      PROVE  Handler(c, a, l) = Outcome(SetType(c, a.phase + 1, a.stage + 1, Value(<<"stage", a.phase, a.stage>>, "Stage_Type")), a, {})
  BY SMTT(30), <1>1 DEF Handler, Outcome, SetType, Place
<1>2. ASSUME NEW l, l.section = <<"stage", a.phase, a.stage>>, l.key = "Granularity"
      PROVE  Handler(c, a, l) = Outcome(SetGran(c, a.phase + 1, a.stage + 1, Value(<<"stage", a.phase, a.stage>>, "Granularity")), a, {})
  BY SMTT(30), <1>2 DEF Handler, Outcome, SetGran, Place
<1>3. ASSUME NEW l, l.section = <<"stage", a.phase, a.stage>>, l.key = "Stage_Time"
      PROVE  Handler(c, a, l) = Outcome(SetTime(c, a.phase + 1, a.stage + 1, Value(<<"stage", a.phase, a.stage>>, "Stage_Time")), StageEnds(c, a), {})
  BY SMTT(30), <1>3 DEF Handler, Outcome, SetTime, Place
<1>4. \A x, y : Line(x, y).section = x /\ Line(x, y).key = y
  BY DEF Line
<1> QED BY <1>1, <1>2, <1>3, <1>4

\* The section of the group at work.
LEMMA HandlerGroup ==
  ASSUME NEW c, NEW a, a.group \in Nat, c.n_groups \in Nat, a.group < c.n_groups
  PROVE  /\ Handler(c, a, Line(<<"resize", a.group>>, "Procs"))
              = Outcome(SetProcs(c, a.group + 1, Value(<<"resize", a.group>>, "Procs")), a, {})
         /\ Handler(c, a, Line(<<"resize", a.group>>, "Redistribution_Strategy"))
              = Outcome(SetRs(c, a.group + 1, Value(<<"resize", a.group>>, "Redistribution_Strategy")), a,
                        {<<"rs", a.group + 1>>})
         /\ Handler(c, a, Line(<<"resize", a.group>>, "Spawn_Strategy"))
              = Outcome(SetSs(c, a.group + 1, Value(<<"resize", a.group>>, "Spawn_Strategy")), NextGroup(a),
                        {<<"ss", a.group + 1>>})
BY DEF Handler, Line, Outcome, SetProcs, SetRs, SetSs, NextGroup, Place

\* A group beyond those of Total_Resizes is ignored.
LEMMA HandlerIgnores ==
  ASSUME NEW c, NEW a, a.group \in Nat, c.n_groups \in Nat, a.group >= c.n_groups,
         NEW g, NEW k
  PROVE  Handler(c, a, GroupLine(g, k)) = Outcome(c, a, {})
<1>1. GroupLine(g, k).key \in {"Procs", "Redistribution_Strategy", "Spawn_Strategy"}
  BY DEF GroupLine, Line
<1>2. ASSUME NEW l, l.key \in {"Procs", "Redistribution_Strategy", "Spawn_Strategy"}
      PROVE  Handler(c, a, l) = Outcome(c, a, {})
  <2>1. CASE l.key = "Procs"
    BY <2>1 DEF Handler, Outcome
  <2>2. CASE l.key = "Redistribution_Strategy"
    BY <2>2 DEF Handler, Outcome
  <2>3. CASE l.key = "Spawn_Strategy"
    BY <2>3 DEF Handler, Outcome
  <2> QED BY <1>2, <2>1, <2>2, <2>3
<1> HIDE DEF GroupLine
<1> QED BY <1>1, <1>2

\* What follows each line.
LEMMA LinesAfter ==
  /\ LineAfter(Line(<<"general">>, "Total_Resizes")) = Line(<<"general">>, "Total_Phases")
  /\ LineAfter(Line(<<"general">>, "Total_Phases")) = NoLine
  /\ \A p : LineAfter(Line(<<"phase", p>>, "Total_Iters")) = Line(<<"phase", p>>, "Total_Stages")
  /\ \A p : LineAfter(Line(<<"phase", p>>, "Total_Stages")) = Line(<<"stage", p, 0>>, "Stage_Type")
  /\ \A p, s : LineAfter(Line(<<"stage", p, s>>, "Stage_Type"))
                 = IF <<p, s>> \in file.gran THEN Line(<<"stage", p, s>>, "Granularity")
                                             ELSE Line(<<"stage", p, s>>, "Stage_Time")
  /\ \A p, s : LineAfter(Line(<<"stage", p, s>>, "Granularity")) = Line(<<"stage", p, s>>, "Stage_Time")
  /\ \A g : LineAfter(Line(<<"resize", g>>, "Procs")) = Line(<<"resize", g>>, "Redistribution_Strategy")
  /\ \A g : LineAfter(Line(<<"resize", g>>, "Redistribution_Strategy")) = Line(<<"resize", g>>, "Spawn_Strategy")
  /\ \A g : LineAfter(Line(<<"resize", g>>, "Spawn_Strategy"))
              = IF g + 1 < file.given THEN Line(<<"resize", g + 1>>, "Procs") ELSE NoLine
<1>0. \A x, y : Line(x, y).section = x /\ Line(x, y).key = y
  BY DEF Line
<1>1. LineAfter(Line(<<"general">>, "Total_Resizes")) = Line(<<"general">>, "Total_Phases")
  BY <1>0 DEF LineAfter
<1>2. LineAfter(Line(<<"general">>, "Total_Phases")) = NoLine
  BY <1>0 DEF LineAfter
<1>3. ASSUME NEW p PROVE LineAfter(Line(<<"phase", p>>, "Total_Iters")) = Line(<<"phase", p>>, "Total_Stages")
  BY <1>0 DEF LineAfter
<1>4. ASSUME NEW p PROVE LineAfter(Line(<<"phase", p>>, "Total_Stages")) = Line(<<"stage", p, 0>>, "Stage_Type")
  BY <1>0 DEF LineAfter
<1>5. ASSUME NEW p, NEW s
      PROVE  /\ LineAfter(Line(<<"stage", p, s>>, "Stage_Type"))
                  = IF <<p, s>> \in file.gran THEN Line(<<"stage", p, s>>, "Granularity")
                                              ELSE Line(<<"stage", p, s>>, "Stage_Time")
             /\ LineAfter(Line(<<"stage", p, s>>, "Granularity")) = Line(<<"stage", p, s>>, "Stage_Time")
  <2>1. ASSUME NEW l, l.key = "Stage_Type", l.section = <<"stage", p, s>>
        PROVE  LineAfter(l) = IF <<p, s>> \in file.gran THEN Line(<<"stage", p, s>>, "Granularity")
                                                        ELSE Line(<<"stage", p, s>>, "Stage_Time")
    BY <2>1 DEF LineAfter
  <2>2. ASSUME NEW l, l.key = "Granularity", l.section = <<"stage", p, s>>
        PROVE  LineAfter(l) = Line(<<"stage", p, s>>, "Stage_Time")
    BY <2>2 DEF LineAfter
  <2> QED BY <1>0, <2>1, <2>2
<1>6. ASSUME NEW g
      PROVE  /\ LineAfter(Line(<<"resize", g>>, "Procs")) = Line(<<"resize", g>>, "Redistribution_Strategy")
             /\ LineAfter(Line(<<"resize", g>>, "Redistribution_Strategy")) = Line(<<"resize", g>>, "Spawn_Strategy")
             /\ LineAfter(Line(<<"resize", g>>, "Spawn_Strategy"))
                  = IF g + 1 < file.given THEN Line(<<"resize", g + 1>>, "Procs") ELSE NoLine
  <2>1. ASSUME NEW l, l.key = "Procs", l.section = <<"resize", g>>
        PROVE  LineAfter(l) = Line(<<"resize", g>>, "Redistribution_Strategy")
    BY <2>1 DEF LineAfter
  <2>2. ASSUME NEW l, l.key = "Redistribution_Strategy", l.section = <<"resize", g>>
        PROVE  LineAfter(l) = Line(<<"resize", g>>, "Spawn_Strategy")
    BY <2>2 DEF LineAfter
  <2>3. ASSUME NEW l, l.key = "Spawn_Strategy", l.section = <<"resize", g>>
        PROVE  LineAfter(l) = IF g + 1 < file.given THEN Line(<<"resize", g + 1>>, "Procs") ELSE NoLine
    BY <2>3 DEF LineAfter
  <2> QED BY <1>0, <2>1, <2>2, <2>3
<1> QED BY <1>1, <1>2, <1>3, <1>4, <1>5, <1>6

\* The last key of a stage is followed by the next stage of the phase, or the next phase.
LEMMA StageEndLine ==
  ASSUME FileOK, NEW p \in Nat, NEW s \in Nat, p < Phases, s < StagesOf(p + 1)
  PROVE  LineAfter(Line(<<"stage", p, s>>, "Stage_Time"))
           = IF s + 1 < StagesOf(p + 1) THEN Line(<<"stage", p, s + 1>>, "Stage_Type")
             ELSE IF p + 1 < Phases THEN Line(<<"phase", p + 1>>, "Total_Iters") ELSE NoLine
<1> DEFINE l == Line(<<"stage", p, s>>, "Stage_Time")
<1>1. l.key = "Stage_Time" /\ l.section[2] = p /\ l.section[3] = s
  BY DEF Line
<1>2. p + 1 \in 1 .. Phases /\ StagesOf(p + 1) \in Nat
  BY DEF FileOK
<1> HIDE DEF l
<1>3. s + 1 < StagesOf(p + 1) \/ s + 1 >= StagesOf(p + 1)
  BY <1>2
<1>4. LineAfter(l) = IF s + 1 < StagesOf(p + 1) THEN Line(<<"stage", p, s + 1>>, "Stage_Type")
             ELSE IF p + 1 < Phases THEN Line(<<"phase", p + 1>>, "Total_Iters") ELSE NoLine
  BY <1>1, <1>2, <1>3 DEF LineAfter, Phases, StagesOf
<1> QED BY <1>4 DEF l

\* The parts of a file end where the reader has come to their end.
LEMMA PartsEnd ==
  /\ \A i \in 0 .. 2 : GeneralLine(i) = NoLine => i = 2
  /\ \A j, t, a : PhaseLine(j, t, a) = NoLine => a.phase = Phases
  /\ \A g, k : GroupLine(g, k) # NoLine
<1>0. NoLine.key = "" /\ \A x, y : Line(x, y).key = y
  BY DEF NoLine, Line
<1>1. ASSUME NEW i \in 0 .. 2, i # 2 PROVE GeneralLine(i) # NoLine
  <2>0. i = 0 \/ i = 1
    BY <1>1
  <2>1. GeneralLine(i).key \in {"Total_Resizes", "Total_Phases"}
    <3>1. CASE i = 0
      BY <1>0, <3>1 DEF GeneralLine
    <3>2. CASE i = 1
      <4>1. GeneralLine(1) = Line(<<"general">>, "Total_Phases")
        BY DEF GeneralLine
      <4> QED BY <1>0, <3>2, <4>1
    <3> QED BY <2>0, <3>1, <3>2
  <2> HIDE DEF GeneralLine
  <2> QED BY <1>0, <2>1
<1>2. ASSUME NEW j, NEW t, NEW a, a.phase # Phases PROVE PhaseLine(j, t, a) # NoLine
  <2>1. PhaseLine(j, t, a).key \in {"Total_Iters", "Total_Stages", "Stage_Type", "Granularity", "Stage_Time"}
    BY <1>0, <1>2 DEF PhaseLine
  <2> QED BY <1>0, <2>1
<1>3. ASSUME NEW g, NEW k PROVE GroupLine(g, k) # NoLine
  <2>1. GroupLine(g, k).key \in {"Procs", "Redistribution_Strategy", "Spawn_Strategy"}
    BY <1>0 DEF GroupLine
  <2> QED BY <1>0, <2>1
<1> QED BY <1>1, <1>2, <1>3

-----------------------------------------------------------------------------
(* What a configuration holds. *)

StagesHeld(n) == {<<"stages", p>> : p \in 1 .. n}
RsHeld(n) == {<<"rs", g>> : g \in 1 .. n}
SsHeld(n) == {<<"ss", g>> : g \in 1 .. n}
ArraysHeld(i) ==
  {<<"config">>} \cup (IF i >= 1 THEN {<<"groups">>} ELSE {}) \cup (IF i >= 2 THEN {<<"phases">>} ELSE {})

\* The blocks of a configuration with the first i arrays, the stages of s
\* phases and the strategies of r and of q groups.
Blocks(i, s, r, q) == ArraysHeld(i) \cup StagesHeld(s) \cup (RsHeld(r) \cup SsHeld(q))

\* What points to a block.
HoldsArrays(c, i) == i \in 0 .. 2 /\ (c.groups = <<>> <=> i = 0) /\ (c.phases = <<>> <=> i < 2)
HoldsStages(c, s) == \E n \in Nat : /\ DOMAIN c.phases = 1 .. n /\ s \in 0 .. n
                                    /\ \A p \in 1 .. n : c.phases[p].stages # <<>> <=> p <= s
HoldsGroups(c, r, q) == \E n \in Nat : /\ DOMAIN c.groups = 1 .. n /\ r \in 0 .. n /\ q \in 0 .. n
                                       /\ \A g \in 1 .. n : /\ c.groups[g].rs # <<>> <=> g <= r
                                                            /\ c.groups[g].ss # <<>> <=> g <= q

\* The blocks a configuration points to, from the extent of its arrays.
LEMMA BlocksAre ==
  ASSUME NEW c, NEW i, NEW s, NEW r, NEW q, HoldsArrays(c, i), HoldsStages(c, s), HoldsGroups(c, r, q)
  PROVE  /\ Held(c) = Blocks(i, s, r, q) \cup c.types
         /\ FreeConfigPartial(c) = Blocks(i, s, r, q)
         /\ FreeConfig(c) = Blocks(i, s, r, q) \cup Types
<1>1. Arrays(c) = ArraysHeld(i)
  <2>1. {<<"groups">> : x \in {c.groups} \ {<<>>}} = IF i >= 1 THEN {<<"groups">>} ELSE {}
    BY DEF HoldsArrays
  <2>2. {<<"phases">> : x \in {c.phases} \ {<<>>}} = IF i >= 2 THEN {<<"phases">>} ELSE {}
    BY DEF HoldsArrays
  <2> QED BY <2>1, <2>2 DEF Arrays, ArraysHeld
<1>2. Stored(c) = StagesHeld(s)
  <2>1. PICK n \in Nat : /\ DOMAIN c.phases = 1 .. n /\ s \in 0 .. n
                         /\ \A p \in 1 .. n : c.phases[p].stages # <<>> <=> p <= s
    BY DEF HoldsStages
  <2>2. {p \in DOMAIN c.phases : c.phases[p].stages # <<>>} = 1 .. s
    BY <2>1
  <2> QED BY <2>2 DEF Stored, StagesHeld
<1>3. Strategies(c) = RsHeld(r) \cup SsHeld(q)
  <2>1. PICK n \in Nat : /\ DOMAIN c.groups = 1 .. n /\ r \in 0 .. n /\ q \in 0 .. n
                         /\ \A g \in 1 .. n : /\ c.groups[g].rs # <<>> <=> g <= r
                                              /\ c.groups[g].ss # <<>> <=> g <= q
    BY DEF HoldsGroups
  <2>2. /\ {g \in DOMAIN c.groups : c.groups[g].rs # <<>>} = 1 .. r
        /\ {g \in DOMAIN c.groups : c.groups[g].ss # <<>>} = 1 .. q
    BY <2>1
  <2> QED BY <2>2 DEF Strategies, RsHeld, SsHeld
<1> QED BY <1>1, <1>2, <1>3 DEF Held, FreeConfigPartial, FreeConfig, Blocks

\* What is held of what has been read.
StagesOn(j, a) == IF j = 2 THEN a.phase + 1 ELSE a.phase
RsOn(k, a) == IF k = 2 THEN a.group + 1 ELSE a.group

\* The blocks that a reader holds at a place of the file.
LEMMA HeldRead ==
  ASSUME FileOK, NEW i, NEW k, NEW j, NEW t, NEW a, Progress(i, k, j, t, a)
  PROVE  /\ Held(Read(i, k, j, t, a)) = Blocks(i, StagesOn(j, a), RsOn(k, a), a.group) \cup ReadTypes(i, j, a)
         /\ FreeConfigPartial(Read(i, k, j, t, a)) = Blocks(i, StagesOn(j, a), RsOn(k, a), a.group)
<1> DEFINE c == Read(i, k, j, t, a)
           G == ReadGroups(a.group, k)
           F == ReadPhases(a.phase, j, a.stage, t)
           s == StagesOn(j, a)
           r == RsOn(k, a)
<1>0. /\ i \in 0 .. 2 /\ a.group \in Nat /\ a.phase \in Nat /\ k \in 0 .. 2 /\ j \in 0 .. 2
      /\ file.groups \in Nat \ {0} /\ Phases \in Nat \ {0}
      /\ a.group <= file.groups /\ a.phase <= Phases
  BY DEF Progress, FileOK
<1>1. /\ c.groups = (IF i >= 1 THEN G ELSE <<>>) /\ c.phases = (IF i >= 2 THEN F ELSE <<>>)
      /\ c.types = ReadTypes(i, j, a)
  BY DEF Read, Config
<1>2. DOMAIN G = 1 .. file.groups /\ DOMAIN F = 1 .. Phases
  BY DEF ReadGroups, ReadPhases
<1>3. G # <<>> /\ F # <<>>
  BY <1>0, <1>2, ArrayIs
<1>4. ASSUME NEW p \in 1 .. Phases PROVE F[p].stages # <<>> <=> p <= s
  <2>1. \A n, x : ReadStages(p, n, x) # <<>>
    <3>1. ASSUME NEW n, NEW x PROVE ReadStages(p, n, x) # <<>>
      <4>1. DOMAIN ReadStages(p, n, x) = 1 .. StagesOf(p) /\ StagesOf(p) \in Nat \ {0}
        BY DEF ReadStages, FileOK
      <4> QED BY <4>1, ArrayIs
    <3> QED BY <3>1
  <2>2. \A n, x, y : ReadPhase(p, y, n, x).stages = (IF y >= 2 THEN ReadStages(p, n, x) ELSE <<>>)
    BY DEF ReadPhase
  <2>3. NoPhase.stages = <<>>
    BY DEF NoPhase
  <2>4. CASE p <= a.phase
    <3>1. F[p] = ReadPhase(p, 2, StagesOf(p), 0)
      BY <2>4, ItemsRead
    <3> HIDE DEF F
    <3> QED BY <1>0, <2>1, <2>2, <2>4, <3>1 DEF StagesOn
  <2>5. CASE p = a.phase + 1
    <3>1. F[p] = ReadPhase(p, j, a.stage, t)
      BY <1>0, <2>5, ItemsRead
    <3> HIDE DEF F
    <3> QED BY <1>0, <2>1, <2>2, <2>5, <3>1 DEF StagesOn
  <2>6. CASE p > a.phase + 1
    <3>1. F[p] = NoPhase
      BY <1>0, <2>6, ItemsRead
    <3> HIDE DEF F
    <3> QED BY <1>0, <2>3, <2>6, <3>1 DEF StagesOn
  <2> QED BY <1>0, <2>4, <2>5, <2>6
<1>5. ASSUME NEW g \in 1 .. file.groups
      PROVE  (G[g].rs # <<>> <=> g <= r) /\ (G[g].ss # <<>> <=> g <= a.group)
  <2>1. G[g] = ReadGroup(g, Upto(g, a.group, k, 3))
    BY ItemsRead
  <2>2. \A n : /\ ReadGroup(g, n).rs # <<>> <=> n >= 2
               /\ ReadGroup(g, n).ss # <<>> <=> n >= 3
    BY ValueIs DEF ReadGroup
  <2> HIDE DEF G
  <2> QED BY <1>0, <2>1, <2>2 DEF Upto, RsOn
<1>6. HoldsArrays(c, i)
  BY <1>0, <1>1, <1>3 DEF HoldsArrays
<1>7. HoldsStages(c, s)
  <2>1. CASE i = 2
    <3>1. s \in 0 .. Phases
      BY <1>0 DEF StagesOn, Progress
    <3>2. c.phases = F
      BY <1>1, <2>1
    <3> HIDE DEF c, F, s
    <3>3. DOMAIN c.phases = 1 .. Phases
      BY <1>2, <3>2
    <3>4. \A p \in 1 .. Phases : c.phases[p].stages # <<>> <=> p <= s
      BY <1>4, <3>2
    <3>5. Phases \in Nat
      BY <1>0
    <3> HIDE DEF Phases
    <3> QED BY <3>1, <3>3, <3>4, <3>5 DEF HoldsStages
  <2>2. CASE i # 2
    <3>1. s = 0
      BY <1>0, <2>2 DEF StagesOn, Progress
    <3>2. c.phases = <<>>
      BY <1>0, <1>1, <2>2
    <3>3. DOMAIN c.phases = 1 .. 0
      BY <3>2
    <3> HIDE DEF c, s
    <3> QED BY <3>1, <3>3 DEF HoldsStages
  <2> QED BY <2>1, <2>2
<1>8. HoldsGroups(c, r, a.group)
  <2>1. CASE i >= 1
    <3>1. r \in 0 .. file.groups
      BY <1>0 DEF RsOn, Progress
    <3> HIDE DEF c, G, r
    <3> QED BY <1>0, <1>1, <1>2, <1>5, <2>1, <3>1 DEF HoldsGroups
  <2>2. CASE i = 0
    <3>1. r = 0 /\ a.group = 0
      BY <1>0, <2>2 DEF RsOn, Progress
    <3>2. c.groups = <<>>
      BY <1>0, <1>1, <2>2
    <3>3. DOMAIN c.groups = 1 .. 0
      BY <3>2
    <3> HIDE DEF c, r
    <3> QED BY <3>1, <3>3 DEF HoldsGroups
  <2> QED BY <1>0, <2>1, <2>2
<1> HIDE DEF c, s, r
<1> QED BY <1>1, <1>6, <1>7, <1>8, BlocksAre DEF c, s, r

\* One item more.
LEMMA HeldGrows ==
  \A n \in Nat : /\ StagesHeld(n + 1) = StagesHeld(n) \cup {<<"stages", n + 1>>}
                 /\ RsHeld(n + 1) = RsHeld(n) \cup {<<"rs", n + 1>>}
                 /\ SsHeld(n + 1) = SsHeld(n) \cup {<<"ss", n + 1>>}
<1>1. ASSUME NEW n \in Nat PROVE 1 .. (n + 1) = (1 .. n) \cup {n + 1}
  OBVIOUS
<1> QED BY <1>1 DEF StagesHeld, RsHeld, SsHeld

\* A datatype is no block.
LEMMA TypesApart ==
  \A i, s, r, q : Blocks(i, s, r, q) \cap Types = {}
BY DEF Blocks, ArraysHeld, StagesHeld, RsHeld, SsHeld, Types

\* The datatypes made while reading are among those of a configuration.
LEMMA ReadTypesAre == \A i, j, a : ReadTypes(i, j, a) \subseteq Types
BY DEF ReadTypes, Types

-----------------------------------------------------------------------------
(* One item more: how far the reader is then, and what it holds. *)

\* From c, with what new holds, to as much as is said.
Goes(c, i, k, j, t, b, new) ==
  Progress(i, k, j, t, b) /\ Held(Read(i, k, j, t, b)) = Held(c) \cup new

\* The general keys.
LEMMA GoesGeneral ==
  ASSUME FileOK, NEW i, NEW k, NEW j, NEW t, NEW a, Progress(i, k, j, t, a), i < 2
  PROVE  /\ k = 0 /\ j = 0 /\ t = 0 /\ a.group = 0 /\ a.phase = 0
         /\ i = 0 => Goes(Read(i, k, j, t, a), 1, 0, 0, 0, a, {<<"groups">>, <<"group_type">>})
         /\ i = 1 => Goes(Read(i, k, j, t, a), 2, 0, 0, 0, a, {<<"phases">>, <<"phase_type">>})
<1>1. k = 0 /\ j = 0 /\ t = 0 /\ a.group = 0 /\ a.phase = 0
  BY DEF Progress
<1>2. \A n \in 0 .. 2 : Progress(n, 0, 0, 0, a)
  BY <1>1 DEF Progress
<1>3. \A n \in 0 .. 2 : Held(Read(n, 0, 0, 0, a)) = Blocks(n, 0, 0, 0) \cup ReadTypes(n, 0, a)
  <2>1. StagesOn(0, a) = 0 /\ RsOn(0, a) = 0
    BY <1>1 DEF StagesOn, RsOn
  <2> QED BY <1>1, <1>2, <2>1, HeldRead
<1>4. /\ Blocks(1, 0, 0, 0) = Blocks(0, 0, 0, 0) \cup {<<"groups">>}
      /\ Blocks(2, 0, 0, 0) = Blocks(1, 0, 0, 0) \cup {<<"phases">>}
  BY DEF Blocks, ArraysHeld
<1>5. /\ ReadTypes(1, 0, a) = ReadTypes(0, 0, a) \cup {<<"group_type">>}
      /\ ReadTypes(2, 0, a) = ReadTypes(1, 0, a) \cup {<<"phase_type">>}
  BY <1>1 DEF ReadTypes
<1>6. i = 0 => Goes(Read(i, k, j, t, a), 1, 0, 0, 0, a, {<<"groups">>, <<"group_type">>})
  BY <1>1, <1>2, <1>3, <1>4, <1>5 DEF Goes
<1>7. i = 1 => Goes(Read(i, k, j, t, a), 2, 0, 0, 0, a, {<<"phases">>, <<"phase_type">>})
  BY <1>1, <1>2, <1>3, <1>4, <1>5 DEF Goes
<1> QED BY <1>1, <1>6, <1>7

\* The head of a phase.
LEMMA GoesPhase ==
  ASSUME FileOK, NEW k, NEW j, NEW t, NEW a, Progress(2, k, j, t, a)
  PROVE  /\ j \in 0 .. 1 /\ a.phase < Phases => Goes(Read(2, k, j, t, a), 2, k, 1, 0, a, {})
         /\ j = 1 => Goes(Read(2, k, j, t, a), 2, k, 2, 0, [a EXCEPT !.stage = 0],
                          {<<"stages", a.phase + 1>>, <<"stage_type">>})
<1> DEFINE b == [a EXCEPT !.stage = 0]
<1>0. /\ a.phase \in Nat /\ a.group \in Nat /\ a \in [group : Nat, phase : Nat, stage : Nat]
      /\ b \in [group : Nat, phase : Nat, stage : Nat]
      /\ b.phase = a.phase /\ b.stage = 0 /\ b.group = a.group
  BY DEF Progress
<1>1. ASSUME j \in 0 .. 1, a.phase < Phases PROVE Goes(Read(2, k, j, t, a), 2, k, 1, 0, a, {})
  <2>1. Progress(2, k, 1, 0, a)
    BY <1>1 DEF Progress
  <2>2. StagesOn(1, a) = StagesOn(j, a) /\ ReadTypes(2, 1, a) = ReadTypes(2, j, a)
    BY <1>1 DEF StagesOn, ReadTypes
  <2> QED BY <2>1, <2>2, HeldRead DEF Goes
<1>2. ASSUME j = 1 PROVE Goes(Read(2, k, j, t, a), 2, k, 2, 0, b, {<<"stages", a.phase + 1>>, <<"stage_type">>})
  <2>1. Progress(2, k, 2, 0, b)
    <3>1. a.phase < Phases /\ StagesOf(a.phase + 1) \in Nat \ {0}
      BY <1>0, <1>2 DEF Progress, FileOK
    <3> HIDE DEF b
    <3> QED BY <1>0, <3>1 DEF Progress
  <2> HIDE DEF b
  <2>2. StagesOn(1, a) = a.phase /\ StagesOn(2, b) = a.phase + 1 /\ RsOn(k, b) = RsOn(k, a)
    BY <1>0 DEF StagesOn, RsOn
  <2>3. ReadTypes(2, 2, b) = ReadTypes(2, 1, a) \cup {<<"stage_type">>}
    BY <1>0 DEF ReadTypes
  <2>4. \A r, q : Blocks(2, a.phase + 1, r, q) = Blocks(2, a.phase, r, q) \cup {<<"stages", a.phase + 1>>}
    BY <1>0, HeldGrows DEF Blocks
  <2>5. Held(Read(2, k, 2, 0, b)) = Blocks(2, a.phase + 1, RsOn(k, a), a.group) \cup ReadTypes(2, 2, b)
    BY <1>0, <2>1, <2>2, HeldRead
  <2>6. Held(Read(2, k, j, t, a)) = Blocks(2, a.phase, RsOn(k, a), a.group) \cup ReadTypes(2, 1, a)
    BY <1>2, <2>2, HeldRead
  <2> QED BY <2>1, <2>3, <2>4, <2>5, <2>6 DEF Goes
<1> QED BY <1>1, <1>2

\* A key of a stage, the last one included.
LEMMA GoesStage ==
  ASSUME FileOK, NEW k, NEW t, NEW a, Progress(2, k, 2, t, a), NEW b, b = StageEnds(Read(2, k, 2, t, a), a)
  PROVE  /\ \A u \in 0 .. 2 : Goes(Read(2, k, 2, t, a), 2, k, 2, u, a, {})
         /\ a.stage + 1 < StagesOf(a.phase + 1) => Goes(Read(2, k, 2, t, a), 2, k, 2, 0, b, {})
         /\ ~(a.stage + 1 < StagesOf(a.phase + 1)) => Goes(Read(2, k, 2, t, a), 2, k, 0, 0, b, {})
<1> DEFINE more == a.stage + 1 < StagesOf(a.phase + 1)
<1>0. a.phase \in Nat /\ a.group \in Nat /\ a.stage \in Nat /\ a.phase < Phases
      /\ StagesOf(a.phase + 1) \in Nat /\ Phases \in Nat
  BY PlaceIs DEF FileOK
<1>1. ASSUME NEW u \in 0 .. 2 PROVE Goes(Read(2, k, 2, t, a), 2, k, 2, u, a, {})
  <2>1. Progress(2, k, 2, u, a)
    BY DEF Progress
  <2> QED BY <2>1, HeldRead DEF Goes
<1>2. /\ b \in [group : Nat, phase : Nat, stage : Nat]
      /\ b.group = a.group /\ b.stage = a.stage + 1
      /\ b.phase = IF more THEN a.phase ELSE a.phase + 1
  BY StageIsRead
<1>3. RsOn(k, b) = RsOn(k, a)
  BY <1>2 DEF RsOn
<1>4. ASSUME more PROVE Goes(Read(2, k, 2, t, a), 2, k, 2, 0, b, {})
  <2>1. Progress(2, k, 2, 0, b)
    BY <1>0, <1>2, <1>4 DEF Progress
  <2>2. StagesOn(2, b) = StagesOn(2, a) /\ ReadTypes(2, 2, b) = ReadTypes(2, 2, a)
    BY <1>2, <1>4 DEF StagesOn, ReadTypes
  <2>3. Held(Read(2, k, 2, 0, b)) = Blocks(2, StagesOn(2, b), RsOn(k, b), b.group) \cup ReadTypes(2, 2, b)
    BY <2>1, HeldRead
  <2>4. Held(Read(2, k, 2, t, a)) = Blocks(2, StagesOn(2, a), RsOn(k, a), a.group) \cup ReadTypes(2, 2, a)
    BY HeldRead
  <2> QED BY <1>2, <1>3, <2>1, <2>2, <2>3, <2>4 DEF Goes
<1>5. ASSUME ~more PROVE Goes(Read(2, k, 2, t, a), 2, k, 0, 0, b, {})
  <2>1. Progress(2, k, 0, 0, b)
    BY <1>0, <1>2, <1>5 DEF Progress
  <2>2. StagesOn(0, b) = StagesOn(2, a) /\ ReadTypes(2, 0, b) = ReadTypes(2, 2, a)
    BY <1>0, <1>2, <1>5 DEF StagesOn, ReadTypes
  <2>3. Held(Read(2, k, 0, 0, b)) = Blocks(2, StagesOn(0, b), RsOn(k, b), b.group) \cup ReadTypes(2, 0, b)
    BY <2>1, HeldRead
  <2>4. Held(Read(2, k, 2, t, a)) = Blocks(2, StagesOn(2, a), RsOn(k, a), a.group) \cup ReadTypes(2, 2, a)
    BY HeldRead
  <2> QED BY <1>2, <1>3, <2>1, <2>2, <2>3, <2>4 DEF Goes
<1> QED BY <1>1, <1>4, <1>5

\* A key of a group.
LEMMA GoesGroup ==
  ASSUME FileOK, NEW k, NEW j, NEW t, NEW a, Progress(2, k, j, t, a), a.group < file.groups
  PROVE  /\ k = 0 => Goes(Read(2, k, j, t, a), 2, 1, j, t, a, {})
         /\ k = 1 => Goes(Read(2, k, j, t, a), 2, 2, j, t, a, {<<"rs", a.group + 1>>})
         /\ k = 2 => Goes(Read(2, k, j, t, a), 2, 0, j, t, NextGroup(a), {<<"ss", a.group + 1>>})
<1> DEFINE b == NextGroup(a)
           s == StagesOn(j, a)
           T == ReadTypes(2, j, a)
           n == a.group
<1>0. n \in Nat /\ file.groups \in Nat
  BY PlaceIs DEF FileOK
<1>1. \A u \in 0 .. 2 : Progress(2, u, j, t, a)
  BY DEF Progress
<1>2. /\ Held(Read(2, 0, j, t, a)) = Blocks(2, s, n, n) \cup T
      /\ Held(Read(2, 1, j, t, a)) = Blocks(2, s, n, n) \cup T
      /\ Held(Read(2, 2, j, t, a)) = Blocks(2, s, n + 1, n) \cup T
  <2>1. RsOn(0, a) = n /\ RsOn(1, a) = n /\ RsOn(2, a) = n + 1
    BY DEF RsOn
  <2> QED BY <1>1, <2>1, HeldRead
<1>3. Progress(2, 0, j, t, b) /\ Held(Read(2, 0, j, t, b)) = Blocks(2, s, n + 1, n + 1) \cup T
  <2>1. /\ b \in [group : Nat, phase : Nat, stage : Nat]
        /\ b.group = n + 1 /\ b.phase = a.phase /\ b.stage = a.stage
    BY GroupIsRead
  <2> HIDE DEF b
  <2>2. Progress(2, 0, j, t, b)
    BY <1>0, <2>1 DEF Progress
  <2>3. RsOn(0, b) = n + 1 /\ StagesOn(j, b) = s /\ ReadTypes(2, j, b) = T
    BY <2>1 DEF RsOn, StagesOn, ReadTypes
  <2> HIDE DEF s, T
  <2> QED BY <2>1, <2>2, <2>3, HeldRead
<1>4. /\ Blocks(2, s, n + 1, n) = Blocks(2, s, n, n) \cup {<<"rs", n + 1>>}
      /\ Blocks(2, s, n + 1, n + 1) = Blocks(2, s, n + 1, n) \cup {<<"ss", n + 1>>}
  <2> HIDE DEF n, s
  <2> QED BY <1>0, HeldGrows DEF Blocks
<1> HIDE DEF b, s, T
<1>5. k = 0 => Goes(Read(2, k, j, t, a), 2, 1, j, t, a, {})
  BY <1>1, <1>2 DEF Goes
<1>6. k = 1 => Goes(Read(2, k, j, t, a), 2, 2, j, t, a, {<<"rs", a.group + 1>>})
  BY <1>1, <1>2, <1>4 DEF Goes
<1>7. k = 2 => Goes(Read(2, k, j, t, a), 2, 0, j, t, b, {<<"ss", a.group + 1>>})
  BY <1>2, <1>3, <1>4 DEF Goes
<1> QED BY <1>5, <1>6, <1>7 DEF b

-----------------------------------------------------------------------------
(* read_ini_file: a line. *)

\* The outcome h of an item read by a reader that has c.
Reads(c, i, k, j, t, h) == h.cfg = Read(i, k, j, t, h.at) /\ Goes(c, i, k, j, t, h.at, h.new)

\* The parts of an outcome.
LEMMA OutcomeIs ==
  ASSUME NEW c, NEW b, NEW new
  PROVE  Outcome(c, b, new).cfg = c /\ Outcome(c, b, new).at = b /\ Outcome(c, b, new).new = new
BY DEF Outcome

\* A line of the general section.
LEMMA GeneralLineRead ==
  ASSUME FileOK, NEW i, NEW k, NEW j, NEW t, NEW a, Progress(i, k, j, t, a),
         NEW l, l = GeneralLine(i), l # NoLine, NEW h, h = Handler(Read(i, k, j, t, a), a, l)
  PROVE  /\ i < 2 /\ k = 0 /\ j = 0 /\ t = 0 /\ h.at = a
         /\ Reads(Read(i, k, j, t, a), i + 1, 0, 0, 0, h)
         /\ LineAfter(l) = GeneralLine(i + 1)
<1>0. i \in 0 .. 2
  BY DEF Progress
<1>1. i < 2
  BY <1>0 DEF GeneralLine
<1>2. k = 0 /\ j = 0 /\ t = 0 /\ a.group = 0 /\ a.phase = 0
  BY <1>1, GoesGeneral
<1> DEFINE c == Read(i, 0, 0, 0, a)
<1>3. c.n_groups \in Nat \ {0}
  BY DEF Read, Config, FileOK
<1>4. CASE i = 0
  <2>1. l = Line(<<"general">>, "Total_Resizes") /\ LineAfter(l) = GeneralLine(i + 1)
    BY <1>4, LinesAfter DEF GeneralLine
  <2>2. h = Outcome(MallocResizes([c EXCEPT !.n_groups = file.groups]), a, {<<"groups">>, <<"group_type">>})
    <3> HIDE DEF c
    <3>1. h = Handler(c, a, l)
      BY <1>2 DEF c
    <3> QED BY <1>2, <1>3, <2>1, <3>1, HandlerGeneral
  <2>3. MallocResizes([c EXCEPT !.n_groups = file.groups]) = Read(1, 0, 0, 0, a)
    BY <1>2, <1>4, ResizesRead
  <2>4. Goes(c, 1, 0, 0, 0, a, {<<"groups">>, <<"group_type">>})
    BY <1>1, <1>2, <1>4, GoesGeneral
  <2> HIDE DEF c
  <2>5. h = Outcome(Read(1, 0, 0, 0, a), a, {<<"groups">>, <<"group_type">>})
    BY <2>2, <2>3
  <2>6. Reads(c, 1, 0, 0, 0, h) /\ h.at = a
    BY <2>4, <2>5, OutcomeIs DEF Reads
  <2> QED BY <1>1, <1>2, <1>4, <2>1, <2>6 DEF c
<1>5. CASE i = 1
  <2>1. l = Line(<<"general">>, "Total_Phases") /\ LineAfter(l) = GeneralLine(i + 1)
    BY <1>5, LinesAfter DEF GeneralLine
  <2>2. h = Outcome(MallocPhases([c EXCEPT !.n_phases = Phases]), a, {<<"phases">>, <<"phase_type">>})
    <3> HIDE DEF c
    <3>1. h = Handler(c, a, l)
      BY <1>2 DEF c
    <3> QED BY <1>2, <1>3, <2>1, <3>1, HandlerGeneral
  <2>3. MallocPhases([c EXCEPT !.n_phases = Phases]) = Read(2, 0, 0, 0, a)
    BY <1>2, <1>5, PhasesRead
  <2>4. Goes(c, 2, 0, 0, 0, a, {<<"phases">>, <<"phase_type">>})
    BY <1>1, <1>2, <1>5, GoesGeneral
  <2> HIDE DEF c
  <2>5. h = Outcome(Read(2, 0, 0, 0, a), a, {<<"phases">>, <<"phase_type">>})
    BY <2>2, <2>3
  <2>6. Reads(c, 2, 0, 0, 0, h) /\ h.at = a
    BY <2>4, <2>5, OutcomeIs DEF Reads
  <2> QED BY <1>1, <1>2, <1>5, <2>1, <2>6 DEF c
<1> QED BY <1>0, <1>1, <1>4, <1>5

\* A line of a phase or of a stage.
LEMMA PhaseLineRead ==
  ASSUME FileOK, NEW k, NEW j, NEW t, NEW a, Progress(2, k, j, t, a),
         NEW l, PhaseLineOK(l, j, t, a), l # NoLine, NEW h, h = Handler(Read(2, k, j, t, a), a, l)
  PROVE  \E jj, tt \in 0 .. 2 : /\ Reads(Read(2, k, j, t, a), 2, k, jj, tt, h)
                                /\ PhaseLineOK(LineAfter(l), jj, tt, h.at)
                                /\ h.at.group = a.group
<1> DEFINE c == Read(2, k, j, t, a)
           p == a.phase + 1
           s == a.stage + 1
<1>0. /\ j \in 0 .. 2 /\ t \in 0 .. 2 /\ a.phase \in Nat /\ a.stage \in Nat /\ a.group \in Nat
      /\ a.phase <= Phases /\ a \in [group : Nat, phase : Nat, stage : Nat] /\ Phases \in Nat
  BY DEF Progress, FileOK
<1>1. a.phase < Phases /\ c.n_phases = Phases
  BY <1>0, ReadIs, ConfigFields DEF PhaseLine, PhaseLineOK
<1>2. CASE j = 0
  <2>1. l = Line(<<"phase", a.phase>>, "Total_Iters")
    BY <1>1, <1>2 DEF PhaseLine, PhaseLineOK
  <2>2. h = Outcome(SetIters(c, p, Value(<<"phase", a.phase>>, "Total_Iters")), a, {})
    <3> HIDE DEF c
    <3> QED BY <1>0, <1>1, <2>1, HandlerPhase DEF c
  <2>3. SetIters(c, p, Value(<<"phase", a.phase>>, "Total_Iters")) = Read(2, k, 1, 0, a)
    BY <1>1, <1>2, ItersRead DEF SetIters
  <2>4. Goes(c, 2, k, 1, 0, a, {})
    <3>1. j \in 0 .. 1
      BY <1>2
    <3>2. j \in 0 .. 1 /\ a.phase < Phases => Goes(Read(2, k, j, t, a), 2, k, 1, 0, a, {})
      BY GoesPhase
    <3> QED BY <1>1, <3>1, <3>2
  <2> HIDE DEF c, p
  <2>5. Reads(c, 2, k, 1, 0, h) /\ h.at = a
    BY <2>2, <2>3, <2>4, OutcomeIs DEF Reads
  <2>6. PhaseLineOK(LineAfter(l), 1, 0, a)
    BY <1>1, <2>1, LinesAfter DEF PhaseLineOK, PhaseLine
  <2> QED BY <2>5, <2>6 DEF c
<1>3. CASE j = 1
  <2> DEFINE b == [a EXCEPT !.stage = 0]
             new == {<<"stages", p>>, <<"stage_type">>}
  <2>1. l = Line(<<"phase", a.phase>>, "Total_Stages")
    BY <1>1, <1>3 DEF PhaseLine, PhaseLineOK
  <2>2. h = Outcome(MallocStages(c, p, StagesOf(p)), b, new)
    <3> HIDE DEF c
    <3> QED BY <1>0, <1>1, <2>1, HandlerPhase DEF c
  <2>3. MallocStages(c, p, StagesOf(p)) = Read(2, k, 2, 0, b)
    BY <1>3, StagesRead
  <2>4. Goes(c, 2, k, 2, 0, b, new)
    BY <1>3, GoesPhase
  <2>7. b.phase = a.phase /\ b.stage = 0 /\ b.group = a.group
    BY <1>0
  <2> HIDE DEF c, p, b, new
  <2>5. Reads(c, 2, k, 2, 0, h) /\ h.at = b
    BY <2>2, <2>3, <2>4, OutcomeIs DEF Reads
  <2>6. PhaseLineOK(LineAfter(l), 2, 0, b)
    BY <1>1, <2>1, <2>7, LinesAfter DEF PhaseLineOK, PhaseLine
  <2> QED BY <2>5, <2>6, <2>7 DEF c
<1>4. CASE j = 2
  <2>0. Progress(2, k, 2, t, a) /\ StagesOf(p) \in Nat \ {0} /\ a.stage < StagesOf(p)
    BY <1>0, <1>1, <1>4 DEF FileOK, Progress
  <2>1. a.stage < Len(c.phases[p].stages)
    <3>1. c.phases[p].stages = ReadStages(p, a.stage, t)
      BY <1>4, <2>0, StageAt
    <3>2. Len(ReadStages(p, a.stage, t)) = StagesOf(p)
      BY <2>0 DEF ReadStages
    <3> QED BY <2>0, <3>1, <3>2
  <2>2. CASE t = 0
    <3> DEFINE u == IF <<a.phase, a.stage>> \in file.gran THEN 1 ELSE 2
               v == Value(<<"stage", a.phase, a.stage>>, "Stage_Type")
    <3>1. l = Line(<<"stage", a.phase, a.stage>>, "Stage_Type")
      BY <1>1, <1>4, <2>2 DEF PhaseLine, PhaseLineOK
    <3>2. h = Outcome(SetType(c, p, s, v), a, {})
      <4> HIDE DEF c
      <4> QED BY <1>0, <1>1, <2>1, <3>1, HandlerStage DEF c
    <3>3. SetType(c, p, s, v) = Read(2, k, 2, u, a)
      BY <1>4, <2>0, <2>2, TypeRead
    <3>4. Goes(c, 2, k, 2, u, a, {})
      BY <1>4, <2>0, GoesStage
    <3>6. PhaseLineOK(LineAfter(l), 2, u, a)
      BY <1>1, <3>1, LinesAfter DEF PhaseLineOK, PhaseLine
    <3>7. u \in 0 .. 2
      OBVIOUS
    <3> HIDE DEF c, p, s, u, v
    <3>5. Reads(c, 2, k, 2, u, h) /\ h.at = a
      BY <3>2, <3>3, <3>4, OutcomeIs DEF Reads
    <3> QED BY <3>5, <3>6, <3>7 DEF c
  <2>3. CASE t = 1
    <3> DEFINE v == Value(<<"stage", a.phase, a.stage>>, "Granularity")
    <3>1. l = Line(<<"stage", a.phase, a.stage>>, "Granularity") /\ <<a.phase, a.stage>> \in file.gran
      BY <1>1, <1>4, <2>3 DEF PhaseLine, PhaseLineOK
    <3>2. h = Outcome(SetGran(c, p, s, v), a, {})
      <4> HIDE DEF c
      <4> QED BY <1>0, <1>1, <2>1, <3>1, HandlerStage DEF c
    <3>3. SetGran(c, p, s, v) = Read(2, k, 2, 2, a)
      BY <1>4, <2>0, <2>3, <3>1, GranRead
    <3>4. Goes(c, 2, k, 2, 2, a, {})
      BY <1>4, <2>0, GoesStage
    <3>6. PhaseLineOK(LineAfter(l), 2, 2, a)
      BY <1>1, <3>1, LinesAfter DEF PhaseLineOK, PhaseLine
    <3> HIDE DEF c, p, s, v
    <3>5. Reads(c, 2, k, 2, 2, h) /\ h.at = a
      BY <3>2, <3>3, <3>4, OutcomeIs DEF Reads
    <3> QED BY <3>5, <3>6 DEF c
  <2>4. CASE t = 2
    <3> DEFINE v == Value(<<"stage", a.phase, a.stage>>, "Stage_Time")
               b == StageEnds(c, a)
               more == s < StagesOf(p)
               jj == IF more THEN 2 ELSE 0
    <3>1. l = Line(<<"stage", a.phase, a.stage>>, "Stage_Time")
      BY <1>1, <1>4, <2>4 DEF PhaseLine, PhaseLineOK
    <3>2. h = Outcome(SetTime(c, p, s, v), b, {})
      <4> HIDE DEF c
      <4> QED BY <1>0, <1>1, <2>1, <3>1, HandlerStage DEF c
    <3>3. SetTime(c, p, s, v) = Read(2, k, 2, 3, a)
      BY <1>4, <2>0, <2>4, TimeRead
    <3>4. /\ b.group = a.group /\ b.stage = s /\ b.phase = IF more THEN a.phase ELSE p
          /\ Read(2, k, 2, 3, a) = Read(2, k, jj, 0, b)
      <4>1. Progress(2, k, 2, t, a) /\ c = Read(2, k, 2, t, a)
        BY <1>4, <2>0
      <4> HIDE DEF c
      <4> QED BY <4>1, StageIsRead
    <3>5. Goes(c, 2, k, jj, 0, b, {})
      <4>1. b = StageEnds(Read(2, k, 2, t, a), a) /\ c = Read(2, k, 2, t, a)
        BY <1>4
      <4>2. more => Goes(Read(2, k, 2, t, a), 2, k, 2, 0, b, {})
        BY <2>0, <4>1, GoesStage
      <4>3. ~more => Goes(Read(2, k, 2, t, a), 2, k, 0, 0, b, {})
        BY <2>0, <4>1, GoesStage
      <4> HIDE DEF c, b, more
      <4> QED BY <4>1, <4>2, <4>3
    <3>6. LineAfter(l) = IF more THEN Line(<<"stage", a.phase, s>>, "Stage_Type")
                         ELSE IF p < Phases THEN Line(<<"phase", p>>, "Total_Iters") ELSE NoLine
      BY <1>0, <1>1, <2>0, <3>1, StageEndLine
    <3>7. PhaseLineOK(LineAfter(l), jj, 0, b)
      <4>1. p <= Phases
        BY <1>0, <1>1
      <4> HIDE DEF b, c
      <4>2. CASE more
        BY <1>0, <1>1, <3>4, <3>6, <4>2 DEF PhaseLineOK, PhaseLine
      <4>3. CASE ~more
        BY <1>0, <1>1, <3>4, <3>6, <4>1, <4>3 DEF PhaseLineOK, PhaseLine
      <4> QED BY <4>2, <4>3
    <3>8. jj \in 0 .. 2
      OBVIOUS
    <3> HIDE DEF c, p, s, v, b, more, jj
    <3>9. Reads(c, 2, k, jj, 0, h) /\ h.at = b
      BY <3>2, <3>3, <3>4, <3>5, OutcomeIs DEF Reads
    <3> QED BY <3>4, <3>7, <3>8, <3>9 DEF c
  <2> QED BY <1>0, <2>2, <2>3, <2>4
<1> QED BY <1>0, <1>2, <1>3, <1>4

\* A line of a group.
LEMMA GroupLineRead ==
  ASSUME FileOK, NEW k, NEW j, NEW t, NEW a, Progress(2, k, j, t, a),
         NEW l, GroupLineOK(l, k, a), a.group <= file.given, l # NoLine,
         NEW h, h = Handler(Read(2, k, j, t, a), a, l)
  PROVE  \E kk \in 0 .. 2 : /\ Reads(Read(2, k, j, t, a), 2, kk, j, t, h)
                            /\ GroupLineOK(LineAfter(l), kk, h.at)
                            /\ h.at.group <= file.given
                            /\ h.at.phase = a.phase /\ h.at.stage = a.stage
<1> DEFINE c == Read(2, k, j, t, a)
           g == a.group + 1
<1>0. /\ k \in 0 .. 2 /\ a.group \in Nat /\ a.group <= file.groups /\ file.groups \in Nat /\ file.given \in Nat
  BY DEF Progress, FileOK
<1>1. c.n_groups = file.groups
  BY ReadIs, ConfigFields
<1>2. CASE a.group < file.groups
  <2>1. a.group < file.given /\ l = GroupLine(a.group, k)
    BY <1>2 DEF GroupLineOK
  <2>2. CASE k = 0
    <3> DEFINE v == Value(<<"resize", a.group>>, "Procs")
    <3>1. l = Line(<<"resize", a.group>>, "Procs")
      BY <2>1, <2>2 DEF GroupLine
    <3>2. h = Outcome(SetProcs(c, g, v), a, {})
      <4> HIDE DEF c
      <4> QED BY <1>0, <1>1, <1>2, <3>1, HandlerGroup DEF c
    <3>3. SetProcs(c, g, v) = Read(2, 1, j, t, a)
      BY <1>2, <2>2, ProcsRead
    <3>4. Goes(c, 2, 1, j, t, a, {})
      BY <1>2, <2>2, GoesGroup
    <3>6. GroupLineOK(LineAfter(l), 1, a)
      BY <1>2, <2>1, <3>1, LinesAfter DEF GroupLineOK, GroupLine
    <3> HIDE DEF c, g, v
    <3>5. Reads(c, 2, 1, j, t, h) /\ h.at = a
      BY <3>2, <3>3, <3>4, OutcomeIs DEF Reads
    <3> QED BY <3>5, <3>6 DEF c
  <2>3. CASE k = 1
    <3> DEFINE v == Value(<<"resize", a.group>>, "Redistribution_Strategy")
    <3>1. l = Line(<<"resize", a.group>>, "Redistribution_Strategy")
      BY <2>1, <2>3 DEF GroupLine
    <3>2. h = Outcome(SetRs(c, g, v), a, {<<"rs", g>>})
      <4> HIDE DEF c
      <4> QED BY <1>0, <1>1, <1>2, <3>1, HandlerGroup DEF c
    <3>3. SetRs(c, g, v) = Read(2, 2, j, t, a)
      BY <1>2, <2>3, RsRead
    <3>4. Goes(c, 2, 2, j, t, a, {<<"rs", g>>})
      BY <1>2, <2>3, GoesGroup
    <3>6. GroupLineOK(LineAfter(l), 2, a)
      BY <1>2, <2>1, <3>1, LinesAfter DEF GroupLineOK, GroupLine
    <3> HIDE DEF c, g, v
    <3>5. Reads(c, 2, 2, j, t, h) /\ h.at = a
      BY <3>2, <3>3, <3>4, OutcomeIs DEF Reads
    <3> QED BY <3>5, <3>6 DEF c
  <2>4. CASE k = 2
    <3> DEFINE v == Value(<<"resize", a.group>>, "Spawn_Strategy")
               b == NextGroup(a)
    <3>1. l = Line(<<"resize", a.group>>, "Spawn_Strategy")
      BY <2>1, <2>4 DEF GroupLine
    <3>2. h = Outcome(SetSs(c, g, v), b, {<<"ss", g>>})
      <4> HIDE DEF c
      <4> QED BY <1>0, <1>1, <1>2, <3>1, HandlerGroup DEF c
    <3>3. b.group = g /\ b.phase = a.phase /\ b.stage = a.stage /\ Read(2, 3, j, t, a) = Read(2, 0, j, t, b)
      BY <1>2, GroupIsRead
    <3>4. SetSs(c, g, v) = Read(2, 0, j, t, b)
      BY <1>2, <2>4, <3>3, SsRead
    <3>5. Goes(c, 2, 0, j, t, b, {<<"ss", g>>})
      BY <1>2, <2>4, GoesGroup
    <3>6. GroupLineOK(LineAfter(l), 0, b) /\ b.group <= file.given
      <4>1. LineAfter(l) = IF g < file.given THEN Line(<<"resize", g>>, "Procs") ELSE NoLine
        BY <3>1, LinesAfter
      <4>2. GroupLine(g, 0) = Line(<<"resize", g>>, "Procs")
        BY DEF GroupLine
      <4> HIDE DEF b
      <4>3. g \in Nat /\ g <= file.given /\ g <= file.groups
        BY <1>0, <1>2, <2>1
      <4> HIDE DEF g
      <4> QED BY <1>0, <3>3, <4>1, <4>2, <4>3 DEF GroupLineOK
    <3> HIDE DEF c, g, v, b
    <3>7. Reads(c, 2, 0, j, t, h) /\ h.at = b
      BY <3>2, <3>4, <3>5, OutcomeIs DEF Reads
    <3> QED BY <3>3, <3>6, <3>7 DEF c
  <2> QED BY <1>0, <2>2, <2>3, <2>4
<1>3. CASE a.group >= file.groups
  <2>1. PICK i \in Nat, n \in 0 .. 2 : i >= file.groups /\ l = GroupLine(i, n)
    BY <1>0, <1>3 DEF GroupLineOK
  <2>2. h = Outcome(c, a, {})
    <3> HIDE DEF c
    <3> QED BY <1>0, <1>1, <1>3, <2>1, HandlerIgnores DEF c
  <2>3. Goes(c, 2, k, j, t, a, {})
    BY DEF Goes
  <2>4. LineAfter(l) = NoLine \/ \E i_1 \in Nat, n_1 \in 0 .. 2 : i_1 >= file.groups /\ LineAfter(l) = GroupLine(i_1, n_1)
    <3>1. CASE n = 0
      <4>1. LineAfter(l) = GroupLine(i, 1)
        BY <2>1, <3>1, LinesAfter DEF GroupLine
      <4> QED BY <2>1, <4>1
    <3>2. CASE n = 1
      <4>1. LineAfter(l) = GroupLine(i, 2)
        BY <2>1, <3>2, LinesAfter DEF GroupLine
      <4> QED BY <2>1, <4>1
    <3>3. CASE n = 2
      <4>1. LineAfter(l) = IF i + 1 < file.given THEN GroupLine(i + 1, 0) ELSE NoLine
        BY <2>1, <3>3, LinesAfter DEF GroupLine
      <4>2. i + 1 \in Nat /\ i + 1 >= file.groups
        BY <1>0, <2>1
      <4> QED BY <4>1, <4>2
    <3> QED BY <3>1, <3>2, <3>3
  <2>5. GroupLineOK(LineAfter(l), k, a)
    <3>1. ~(a.group < file.groups)
      BY <1>0, <1>3
    <3> QED BY <2>4, <3>1 DEF GroupLineOK
  <2> HIDE DEF c
  <2>6. Reads(c, 2, k, j, t, h) /\ h.at = a
    <3>1. c = Read(2, k, j, t, a)
      BY DEF c
    <3> QED BY <2>2, <2>3, <3>1, OutcomeIs DEF Reads
  <2> QED BY <1>0, <2>5, <2>6 DEF c
<1> QED BY <1>0, <1>2, <1>3

-----------------------------------------------------------------------------
(* The file does not change. *)

\* What a place of the file means stays the same.
LEMMA SameFile ==
  ASSUME file' = file
  PROVE  /\ \A i, k, j, t, a : Read(i, k, j, t, a)' = Read(i, k, j, t, a)
         /\ \A i, k, j, t, a : Progress(i, k, j, t, a)' <=> Progress(i, k, j, t, a)
         /\ \A j, t, a : PhaseLine(j, t, a)' = PhaseLine(j, t, a)
         /\ \A l, j, t, a : PhaseLineOK(l, j, t, a)' <=> PhaseLineOK(l, j, t, a)
         /\ \A l, k, a : GroupLineOK(l, k, a)' <=> GroupLineOK(l, k, a)
         /\ FileOK' <=> FileOK
         /\ Phases' = Phases
<1>1. \A p, s, k : ReadStage(p, s, k)' = ReadStage(p, s, k)
  BY DEF ReadStage, Value
<1>2. \A p : StagesOf(p)' = StagesOf(p)
  BY DEF StagesOf
<1>3. Phases' = Phases
  BY DEF Phases
<1>4. \A p, n, k : ReadStages(p, n, k)' = ReadStages(p, n, k)
  BY <1>1, <1>2 DEF ReadStages, Upto
<1>5. \A p, j, n, k : ReadPhase(p, j, n, k)' = ReadPhase(p, j, n, k)
  BY <1>4 DEF ReadPhase, Value
<1>6. \A m, j, n, k : ReadPhases(m, j, n, k)' = ReadPhases(m, j, n, k)
  BY <1>2, <1>3, <1>5 DEF ReadPhases, NoPhase
<1>7. \A n, k : ReadGroups(n, k)' = ReadGroups(n, k)
  BY DEF ReadGroups, ReadGroup, Value, Upto
<1>8. \A i, k, j, t, a : Read(i, k, j, t, a)' = Read(i, k, j, t, a)
  BY <1>3, <1>6, <1>7 DEF Read, Config, ReadTypes
<1>9. \A i, k, j, t, a : Progress(i, k, j, t, a)' <=> Progress(i, k, j, t, a)
  BY <1>2, <1>3 DEF Progress
<1>10. \A j, t, a : PhaseLine(j, t, a)' = PhaseLine(j, t, a)
  BY <1>3 DEF PhaseLine, Line, NoLine
<1>11. \A l, j, t, a : PhaseLineOK(l, j, t, a)' <=> PhaseLineOK(l, j, t, a)
  BY <1>10 DEF PhaseLineOK
<1>12. \A l, k, a : GroupLineOK(l, k, a)' <=> GroupLineOK(l, k, a)
  BY DEF GroupLineOK, GroupLine, Line, NoLine
<1>13. FileOK' <=> FileOK
  BY <1>2, <1>3 DEF FileOK
<1> QED BY <1>3, <1>8, <1>9, <1>10, <1>11, <1>12, <1>13

\* What a configuration tells of the reader.
LEMMA ReadTells ==
  ASSUME FileOK, NEW i, NEW k, NEW j, NEW t, NEW a, Progress(i, k, j, t, a)
  PROVE  /\ Read(i, k, j, t, a).groups = <<>> <=> i = 0
         /\ Read(i, k, j, t, a).phases = <<>> <=> i < 2
         /\ i = 2 => Read(i, k, j, t, a).n_groups = file.groups /\ Read(i, k, j, t, a).n_phases = Phases
         /\ i = 2 /\ a.phase < Phases =>
              (Read(i, k, j, t, a).phases[a.phase + 1].stages = <<>> <=> j # 2)
         /\ i = 2 /\ a.group < file.groups =>
              Read(i, k, j, t, a).groups[a.group + 1] = ReadGroup(a.group + 1, k)
<1> DEFINE c == Read(i, k, j, t, a)
           G == ReadGroups(a.group, k)
           F == ReadPhases(a.phase, j, a.stage, t)
           p == a.phase + 1
<1>0. i \in 0 .. 2 /\ j \in 0 .. 2 /\ file.groups \in Nat \ {0} /\ Phases \in Nat \ {0} /\ a.phase \in Nat
  BY DEF Progress, FileOK
<1>1. /\ c.groups = (IF i >= 1 THEN G ELSE <<>>) /\ c.phases = (IF i >= 2 THEN F ELSE <<>>)
      /\ c.n_groups = (IF i >= 1 THEN file.groups ELSE 1) /\ c.n_phases = (IF i >= 2 THEN Phases ELSE 1)
  BY DEF Read, Config
<1>2. G # <<>> /\ F # <<>>
  <2>1. DOMAIN G = 1 .. file.groups /\ DOMAIN F = 1 .. Phases
    BY DEF ReadGroups, ReadPhases
  <2> HIDE DEF G, F
  <2> QED BY <1>0, <2>1, ArrayIs
<1>3. i = 2 /\ a.phase < Phases => (c.phases[p].stages = <<>> <=> j # 2)
  <2> SUFFICES ASSUME i = 2, a.phase < Phases PROVE c.phases[p].stages = <<>> <=> j # 2
    OBVIOUS
  <2>0. p \in 1 .. Phases
    BY <1>0
  <2>1. F[p] = ReadPhase(p, j, a.stage, t)
    BY <1>0, <2>0, ItemsRead
  <2>2. ReadStages(p, a.stage, t) # <<>>
    <3>1. DOMAIN ReadStages(p, a.stage, t) = 1 .. StagesOf(p) /\ StagesOf(p) \in Nat \ {0}
      BY <2>0 DEF ReadStages, FileOK
    <3> QED BY <3>1, ArrayIs
  <2>3. ReadPhase(p, j, a.stage, t).stages = IF j >= 2 THEN ReadStages(p, a.stage, t) ELSE <<>>
    BY DEF ReadPhase
  <2> HIDE DEF F, c, p
  <2> QED BY <1>0, <1>1, <2>1, <2>2, <2>3
<1>4. i = 2 /\ a.group < file.groups => c.groups[a.group + 1] = ReadGroup(a.group + 1, k)
  BY GroupKeys
<1> HIDE DEF c, F, G
<1>5. (c.groups = <<>> <=> i = 0) /\ (c.phases = <<>> <=> i < 2)
  BY <1>0, <1>1, <1>2
<1>6. i = 2 => c.n_groups = file.groups /\ c.n_phases = Phases
  BY <1>1
<1> QED BY <1>3, <1>4, <1>5, <1>6 DEF c

-----------------------------------------------------------------------------
(* read_json_file: an item. *)

\* The items of the general object.
LEMMA JsonGeneralRead ==
  ASSUME FileOK, NEW i, NEW k, NEW j, NEW t, NEW a, Progress(i, k, j, t, a),
         NEW c, c = Read(i, k, j, t, a)
  PROVE  /\ c.groups = <<>> =>
              Reads(c, 1, 0, 0, 0, Outcome(MallocResizes([c EXCEPT !.n_groups = file.groups]), a, {<<"groups">>, <<"group_type">>}))
         /\ c.groups # <<>> /\ c.phases = <<>> =>
              Reads(c, 2, 0, 0, 0, Outcome(MallocPhases([c EXCEPT !.n_phases = Phases]), a, {<<"phases">>, <<"phase_type">>}))
<1>0. i \in 0 .. 2
  BY DEF Progress
<1>1. (c.groups = <<>> <=> i = 0) /\ (c.phases = <<>> <=> i < 2)
  BY ReadTells
<1>2. ASSUME i = 0
      PROVE  Reads(c, 1, 0, 0, 0, Outcome(MallocResizes([c EXCEPT !.n_groups = file.groups]), a, {<<"groups">>, <<"group_type">>}))
  <2>1. k = 0 /\ j = 0 /\ t = 0 /\ a.group = 0 /\ a.phase = 0 /\ Goes(c, 1, 0, 0, 0, a, {<<"groups">>, <<"group_type">>})
    BY <1>2, GoesGeneral
  <2>2. MallocResizes([c EXCEPT !.n_groups = file.groups]) = Read(1, 0, 0, 0, a)
    BY <1>2, <2>1, ResizesRead
  <2> QED BY <2>1, <2>2, OutcomeIs DEF Reads
<1>3. ASSUME i = 1
      PROVE  Reads(c, 2, 0, 0, 0, Outcome(MallocPhases([c EXCEPT !.n_phases = Phases]), a, {<<"phases">>, <<"phase_type">>}))
  <2>1. k = 0 /\ j = 0 /\ t = 0 /\ a.group = 0 /\ a.phase = 0 /\ Goes(c, 2, 0, 0, 0, a, {<<"phases">>, <<"phase_type">>})
    BY <1>3, GoesGeneral
  <2>2. MallocPhases([c EXCEPT !.n_phases = Phases]) = Read(2, 0, 0, 0, a)
    BY <1>3, <2>1, PhasesRead
  <2> QED BY <2>1, <2>2, OutcomeIs DEF Reads
<1> QED BY <1>0, <1>1, <1>2, <1>3

\* The head of a phase.
LEMMA JsonPhaseRead ==
  ASSUME FileOK, NEW k, NEW a, Progress(2, k, 0, 0, a), a.phase < Phases,
         NEW c, c = Read(2, k, 0, 0, a), NEW p, p = a.phase + 1
  PROVE  Reads(c, 2, k, 2, 0,
               Outcome(MallocStages(SetIters(c, p, Value(<<"phase", a.phase>>, "Total_Iters")), p, StagesOf(p)),
                       [a EXCEPT !.stage = 0], {<<"stages", p>>, <<"stage_type">>}))
<1> DEFINE b == [a EXCEPT !.stage = 0]
           new == {<<"stages", p>>, <<"stage_type">>}
           d == Read(2, k, 1, 0, a)
<1>1. SetIters(c, p, Value(<<"phase", a.phase>>, "Total_Iters")) = d
  BY ItersRead DEF SetIters
<1>2. Progress(2, k, 1, 0, a) /\ Held(d) = Held(c)
  <2>1. 0 \in 0 .. 1 /\ a.phase < Phases => Goes(Read(2, k, 0, 0, a), 2, k, 1, 0, a, {})
    BY GoesPhase
  <2> QED BY <2>1 DEF Goes
<1>3. MallocStages(d, p, StagesOf(p)) = Read(2, k, 2, 0, b)
  BY <1>2, StagesRead
<1>4. Goes(d, 2, k, 2, 0, b, new)
  BY <1>2, GoesPhase
<1> HIDE DEF b, new, d
<1>5. Goes(c, 2, k, 2, 0, b, new)
  BY <1>2, <1>4 DEF Goes
<1>6. MallocStages(SetIters(c, p, Value(<<"phase", a.phase>>, "Total_Iters")), p, StagesOf(p)) = Read(2, k, 2, 0, b)
  BY <1>1, <1>3
<1>7. Reads(c, 2, k, 2, 0, Outcome(Read(2, k, 2, 0, b), b, new))
  BY <1>5, OutcomeIs DEF Reads
<1> QED BY <1>6, <1>7 DEF b, new

\* A stage.
LEMMA JsonStageRead ==
  ASSUME FileOK, NEW k, NEW a, Progress(2, k, 2, 0, a), NEW c, c = Read(2, k, 2, 0, a),
         NEW p, p = a.phase + 1, NEW s, s = a.stage + 1, NEW x,
         x = [type |-> Value(<<"stage", a.phase, a.stage>>, "Stage_Type"),
              time |-> Value(<<"stage", a.phase, a.stage>>, "Stage_Time"),
              gran |-> IF <<a.phase, a.stage>> \in file.gran
                         THEN Value(<<"stage", a.phase, a.stage>>, "Granularity") ELSE c.phases[p].stages[s].gran]
  PROVE  \E j \in {0, 2} : Reads(c, 2, k, j, 0, Outcome(SetStage(c, p, s, x), StageEnds(c, a), {}))
<1> DEFINE b == StageEnds(c, a)
           more == s < StagesOf(p)
           j == IF more THEN 2 ELSE 0
<1>1. p - 1 = a.phase /\ s - 1 = a.stage
  BY PlaceIs
<1>2. c.phases[p].stages[s].gran = <<>>
  <2>1. c.phases[p].stages[s] = ReadStage(p, s, 0)
    BY StageAt
  <2> QED BY <2>1 DEF ReadStage
<1>3. ReadStage(p, s, 3) = x
  BY <1>1, <1>2 DEF ReadStage
<1>4. SetStage(c, p, s, x) = Read(2, k, 2, 3, a)
  BY <1>3, StageSet
<1>5. Read(2, k, 2, 3, a) = Read(2, k, j, 0, b)
  <2> HIDE DEF j
  <2>1. Read(2, k, 2, 3, a) = Read(2, k, IF a.stage + 1 < StagesOf(a.phase + 1) THEN 2 ELSE 0, 0, b)
    BY StageIsRead
  <2> QED BY <2>1 DEF j
<1>6. Goes(c, 2, k, j, 0, b, {})
  BY GoesStage
<1> HIDE DEF b, j
<1>7. Reads(c, 2, k, j, 0, Outcome(SetStage(c, p, s, x), b, {}))
  BY SMTT(30), <1>4, <1>5, <1>6, OutcomeIs DEF Reads
<1> QED BY <1>7 DEF j, b

\* The keys of a group.
LEMMA JsonGroupRead ==
  ASSUME FileOK, NEW k, NEW a, Progress(2, k, 0, 0, a), a.group < file.groups,
         NEW c, c = Read(2, k, 0, 0, a), NEW g, g = a.group + 1
  PROVE  /\ c.groups[g].procs = <<>> =>
              Reads(c, 2, 1, 0, 0, Outcome(SetProcs(c, g, Value(<<"resize", a.group>>, "Procs")), a, {}))
         /\ c.groups[g].procs # <<>> /\ c.groups[g].rs = <<>> =>
              Reads(c, 2, 2, 0, 0, Outcome(SetRs(c, g, Value(<<"resize", a.group>>, "Redistribution_Strategy")), a, {<<"rs", g>>}))
         /\ c.groups[g].rs # <<>> =>
              Reads(c, 2, 0, 0, 0, Outcome(SetSs(c, g, Value(<<"resize", a.group>>, "Spawn_Strategy")), NextGroup(a), {<<"ss", g>>}))
<1>1. c.groups[g] = ReadGroup(g, k)
  BY ReadTells
<1>2. k \in 0 .. 2 /\ (c.groups[g].procs = <<>> <=> k = 0) /\ (c.groups[g].rs = <<>> <=> k < 2)
  <2>1. k \in 0 .. 2
    BY DEF Progress
  <2> QED BY <1>1, <2>1, ValueIs DEF ReadGroup
<1>3. ASSUME k = 0 PROVE Reads(c, 2, 1, 0, 0, Outcome(SetProcs(c, g, Value(<<"resize", a.group>>, "Procs")), a, {}))
  <2>1. SetProcs(c, g, Value(<<"resize", a.group>>, "Procs")) = Read(2, 1, 0, 0, a) /\ Goes(c, 2, 1, 0, 0, a, {})
    BY <1>3, ProcsRead, GoesGroup
  <2> QED BY <2>1, OutcomeIs DEF Reads
<1>4. ASSUME k = 1
      PROVE  Reads(c, 2, 2, 0, 0, Outcome(SetRs(c, g, Value(<<"resize", a.group>>, "Redistribution_Strategy")), a, {<<"rs", g>>}))
  <2>1. /\ SetRs(c, g, Value(<<"resize", a.group>>, "Redistribution_Strategy")) = Read(2, 2, 0, 0, a)
        /\ Goes(c, 2, 2, 0, 0, a, {<<"rs", g>>})
    BY <1>4, RsRead, GoesGroup
  <2> QED BY <2>1, OutcomeIs DEF Reads
<1>5. ASSUME k = 2
      PROVE  Reads(c, 2, 0, 0, 0, Outcome(SetSs(c, g, Value(<<"resize", a.group>>, "Spawn_Strategy")), NextGroup(a), {<<"ss", g>>}))
  <2>1. /\ SetSs(c, g, Value(<<"resize", a.group>>, "Spawn_Strategy")) = Read(2, 3, 0, 0, a)
        /\ Read(2, 3, 0, 0, a) = Read(2, 0, 0, 0, NextGroup(a))
        /\ Goes(c, 2, 0, 0, 0, NextGroup(a), {<<"ss", g>>})
    BY <1>5, SsRead, GroupIsRead, GoesGroup
  <2> QED BY <2>1, OutcomeIs DEF Reads
<1> QED BY <1>2, <1>3, <1>4, <1>5

-----------------------------------------------------------------------------
(* The configuration declared. *)

DGroup(g) ==
  IF g > file.given THEN NoGroup ELSE
    [procs |-> Value(<<"resize", g - 1>>, "Procs"),
     rs |-> Value(<<"resize", g - 1>>, "Redistribution_Strategy"),
     ss |-> Value(<<"resize", g - 1>>, "Spawn_Strategy")]
DStage(p, s) ==
  [type |-> Value(<<"stage", p - 1, s - 1>>, "Stage_Type"),
   time |-> Value(<<"stage", p - 1, s - 1>>, "Stage_Time"),
   gran |-> IF <<p - 1, s - 1>> \in file.gran THEN Value(<<"stage", p - 1, s - 1>>, "Granularity")
                                             ELSE <<"CONFIG_GRANULARITY">>]
DStages(p) == [s \in 1 .. StagesOf(p) |-> DStage(p, s)]
DPhase(p) == [iters |-> Value(<<"phase", p - 1>>, "Total_Iters"), stages |-> DStages(p)]
DGroups == [g \in 1 .. file.groups |-> DGroup(g)]
DPhases == [p \in 1 .. Phases |-> DPhase(p)]

\* What is declared, in closed form.
LEMMA DeclaredIs == Declared = Config(file.groups, Phases, DGroups, DPhases, Types)
BY DEF Declared, Config, DGroups, DPhases, DGroup, DPhase, DStages, DStage, Phases, StagesOf

\* check_granularity changes the phases.
LEMMA CheckedIs ==
  ASSUME NEW n, NEW m, NEW g, NEW f, NEW y
  PROVE  CheckGranularity(Config(n, m, g, f, y)) = Config(n, m, g, CheckedPhases(f), y)
<1>1. ASSUME NEW c PROVE CheckGranularity(c) = [c EXCEPT !.phases = CheckedPhases(c.phases)]
  BY DEF CheckGranularity
<1>2. Config(n, m, g, f, y).phases = f
  BY ConfigFields
<1> DEFINE x == CheckedPhases(f)
<1> HIDE DEF x
<1>3. [Config(n, m, g, f, y) EXCEPT !.phases = x] = Config(n, m, g, x, y)
  BY DEF Config
<1> QED BY <1>1, <1>2, <1>3 DEF x

\* The reader has read all that the file gives.
AllRead(a) ==
  a.phase = Phases /\ a.group <= file.given /\ (a.group = file.groups \/ a.group = file.given)

\* What init_config makes of what a reader has read is what the file declares.
LEMMA LoadedIs ==
  ASSUME FileOK, NEW a, Progress(2, 0, 0, 0, a), AllRead(a)
  PROVE  /\ Define(Define(CheckGranularity(Read(2, 0, 0, 0, a)), <<"config_type">>), <<"group_strats_type">>) = Declared
         /\ Held(Declared) = Held(Read(2, 0, 0, 0, a)) \cup {<<"config_type">>, <<"group_strats_type">>}
<1> DEFINE G == ReadGroups(a.group, 0)
           F == ReadPhases(a.phase, 0, a.stage, 0)
           y == ReadTypes(2, 0, a)
<1>0. /\ a.group \in Nat /\ a.group <= file.groups /\ a.phase = Phases
      /\ file.groups \in Nat \ {0} /\ file.given \in Nat /\ Phases \in Nat \ {0}
  BY PlaceIs DEF AllRead, FileOK, Progress
<1>1. Read(2, 0, 0, 0, a) = Config(file.groups, Phases, G, F, y)
  BY ReadIs
<1>2. G = DGroups
  <2>1. ASSUME NEW g \in 1 .. file.groups PROVE ReadGroup(g, Upto(g, a.group, 0, 3)) = DGroup(g)
    <3>1. CASE g <= a.group
      <4>1. Upto(g, a.group, 0, 3) = 3 /\ ~(g > file.given)
        BY <1>0, <3>1 DEF Upto, AllRead
      <4> QED BY <4>1 DEF ReadGroup, DGroup
    <3>2. CASE g > a.group
      <4>1. Upto(g, a.group, 0, 3) = 0 /\ g > file.given
        BY <1>0, <3>2 DEF Upto, AllRead
      <4> QED BY <4>1 DEF ReadGroup, DGroup, NoGroup
    <3> QED BY <1>0, <3>1, <3>2
  <2> QED BY <2>1 DEF ReadGroups, DGroups
<1>3. CheckedPhases(F) = DPhases
  <2>1. DOMAIN F = 1 .. Phases
    BY DEF ReadPhases
  <2>2. ASSUME NEW p \in 1 .. Phases PROVE CheckedPhase(F[p]) = DPhase(p)
    <3> DEFINE v == Value(<<"phase", p - 1>>, "Total_Iters")
               S == ReadStages(p, StagesOf(p), 0)
    <3>1. F[p] = [iters |-> v, stages |-> S]
      <4>1. F[p] = ReadPhase(p, 2, StagesOf(p), 0)
        BY <1>0, ItemsRead
      <4> QED BY <4>1 DEF ReadPhase
    <3>2. CheckedStages(S) = DStages(p)
      <4>1. DOMAIN S = 1 .. StagesOf(p)
        BY DEF ReadStages
      <4>2. ASSUME NEW s \in 1 .. StagesOf(p) PROVE Checked(S[s]) = DStage(p, s)
        <5>1. StagesOf(p) \in Nat
          BY DEF FileOK
        <5>2. Upto(s, StagesOf(p), 0, 3) = 3
          BY <5>1 DEF Upto
        <5>3. S[s] = ReadStage(p, s, 3)
          BY <5>2, ItemsRead
        <5> DEFINE t == Value(<<"stage", p - 1, s - 1>>, "Stage_Type")
                   u == Value(<<"stage", p - 1, s - 1>>, "Granularity")
                   w == Value(<<"stage", p - 1, s - 1>>, "Stage_Time")
                   b == <<p - 1, s - 1>> \in file.gran
        <5>4. u # <<>>
          BY ValueIs
        <5>5. ReadStage(p, s, 3) = [type |-> t, gran |-> IF b THEN u ELSE <<>>, time |-> w]
          BY DEF ReadStage
        <5>6. DStage(p, s) = [type |-> t, time |-> w, gran |-> IF b THEN u ELSE <<"CONFIG_GRANULARITY">>]
          BY DEF DStage
        <5> HIDE DEF t, u, w, b, S
        <5> QED BY <5>3, <5>4, <5>5, <5>6 DEF Checked
      <4> HIDE DEF S
      <4> QED BY <4>1, <4>2 DEF CheckedStages, DStages
    <3> HIDE DEF v, S, F
    <3>3. CheckedPhase(F[p]) = [iters |-> v, stages |-> CheckedStages(S)]
      BY <3>1 DEF CheckedPhase
    <3> QED BY <3>2, <3>3 DEF DPhase, v
  <2> HIDE DEF F
  <2> QED BY <2>1, <2>2 DEF CheckedPhases, DPhases
<1>4. Added(Added(y, <<"config_type">>), <<"group_strats_type">>) = Types
  BY <1>0 DEF Added, ReadTypes, Types
<1> HIDE DEF G, F, y
<1>5. CheckGranularity(Read(2, 0, 0, 0, a)) = Config(file.groups, Phases, DGroups, DPhases, y)
  BY <1>1, <1>2, <1>3, CheckedIs
<1>6. Define(Config(file.groups, Phases, DGroups, DPhases, y), <<"config_type">>)
        = Config(file.groups, Phases, DGroups, DPhases, Added(y, <<"config_type">>))
  BY Defined
<1>7. Define(Config(file.groups, Phases, DGroups, DPhases, Added(y, <<"config_type">>)), <<"group_strats_type">>)
        = Config(file.groups, Phases, DGroups, DPhases, Types)
  BY <1>4, Defined
<1>8. Held(Declared) = Blocks(2, Phases, a.group, a.group) \cup Types
  <2>1. /\ Declared.groups = DGroups /\ Declared.phases = DPhases /\ Declared.types = Types
    BY DeclaredIs, ConfigFields
  <2>2. DOMAIN DGroups = 1 .. file.groups /\ DOMAIN DPhases = 1 .. Phases
    BY DEF DGroups, DPhases
  <2>3. DGroups # <<>> /\ DPhases # <<>>
    BY <1>0, <2>2, ArrayIs
  <2>4. HoldsArrays(Declared, 2)
    BY <2>1, <2>3 DEF HoldsArrays
  <2>5. HoldsStages(Declared, Phases)
    <3>1. ASSUME NEW p \in 1 .. Phases PROVE DPhases[p].stages # <<>>
      <4>1. DPhases[p].stages = DStages(p)
        BY DEF DPhases, DPhase
      <4>2. DOMAIN DStages(p) = 1 .. StagesOf(p) /\ StagesOf(p) \in Nat \ {0}
        BY DEF DStages, FileOK
      <4> QED BY <4>1, <4>2, ArrayIs
    <3> QED BY <1>0, <2>1, <2>2, <3>1 DEF HoldsStages
  <2>6. HoldsGroups(Declared, a.group, a.group)
    <3>1. ASSUME NEW g \in 1 .. file.groups
          PROVE  (DGroups[g].rs # <<>> <=> g <= a.group) /\ (DGroups[g].ss # <<>> <=> g <= a.group)
      <4>1. DGroups[g] = DGroup(g)
        BY DEF DGroups
      <4>2. DGroup(g).rs # <<>> <=> ~(g > file.given)
        BY ValueIs DEF DGroup, NoGroup
      <4>3. DGroup(g).ss # <<>> <=> ~(g > file.given)
        BY ValueIs DEF DGroup, NoGroup
      <4>4. ~(g > file.given) <=> g <= a.group
        BY <1>0 DEF AllRead
      <4> QED BY <4>1, <4>2, <4>3, <4>4
    <3> QED BY <1>0, <2>1, <2>2, <3>1 DEF HoldsGroups
  <2> QED BY ZenonT(60), <2>1, <2>4, <2>5, <2>6, BlocksAre
<1>9. Held(Read(2, 0, 0, 0, a)) = Blocks(2, Phases, a.group, a.group) \cup y
  <2>1. StagesOn(0, a) = Phases /\ RsOn(0, a) = a.group
    BY <1>0 DEF StagesOn, RsOn
  <2> QED BY <2>1, HeldRead DEF y
<1>10. Types = y \cup {<<"config_type">>, <<"group_strats_type">>}
  BY <1>4 DEF Added
<1> QED BY <1>5, <1>6, <1>7, <1>8, <1>9, <1>10, DeclaredIs

-----------------------------------------------------------------------------
(* The children: what n broadcasts have given them. *)

KidGroup(g, n) ==
  [procs |-> IF n >= Phases + 3 THEN DGroup(g).procs ELSE <<>>,
   rs |-> IF n >= Phases + 4 THEN Over(Empty, DGroup(g).rs) ELSE IF n = Phases + 3 THEN Empty ELSE <<>>,
   ss |-> IF n >= Phases + 4 THEN Over(Empty, DGroup(g).ss) ELSE IF n = Phases + 3 THEN Empty ELSE <<>>]
KidPhase(p, n) ==
  [iters |-> IF n >= 2 THEN DPhase(p).iters ELSE <<>>,
   stages |-> IF p + 2 <= n THEN DStages(p) ELSE IF p + 1 = n THEN NoStages(StagesOf(p)) ELSE <<>>]
KidGroups(n) == [g \in 1 .. file.groups |-> KidGroup(g, n)]
KidPhases(n) == [p \in 1 .. Phases |-> KidPhase(p, n)]
KidTypes(n) ==
  {<<"config_type">>} \cup {y \in {<<"group_type">>, <<"phase_type">>} : n >= 1}
    \cup {y \in {<<"stage_type">>} : n >= 2} \cup {y \in {<<"group_strats_type">>} : n >= Phases + 3}
KidIs(n) ==
  Config(IF n >= 1 THEN file.groups ELSE 1, IF n >= 1 THEN Phases ELSE 1,
         IF n >= 1 THEN KidGroups(n) ELSE <<>>, IF n >= 1 THEN KidPhases(n) ELSE <<>>, KidTypes(n))

\* The datatypes, structure by structure.
ItersOver(f, e) == [p \in DOMAIN f |-> [f[p] EXCEPT !.iters = e[p].iters]]
StagesOver(f, e) == [s \in DOMAIN f |-> [type |-> e[s].type, time |-> e[s].time, gran |-> e[s].gran]]
ProcsOver(f, e) == [g \in DOMAIN f |-> [f[g] EXCEPT !.procs = e[g].procs]]
StratsOver(f, e) == [g \in DOMAIN f |-> StructGroupStrats(f[g], e[g])]
SetStrats(d, x, y) == [d EXCEPT !.rs = x, !.ss = y]
EmptyStrats(f) == [g \in DOMAIN f |-> SetStrats(f[g], Empty, Empty)]

\* What each broadcast does to the configuration of a child.
LEMMA StructsAre ==
  ASSUME NEW n, NEW m, NEW g, NEW f, NEW y, NEW c
  PROVE  /\ StructConfig(Config(n, m, g, f, y), c) = Config(c.n_groups, c.n_phases, g, f, y)
         /\ StructPhase(Config(n, m, g, f, y), c) = Config(n, m, g, ItersOver(f, c.phases), y)
         /\ StructGroups(Config(n, m, g, f, y), c) = Config(n, m, ProcsOver(g, c.groups), f, y)
         /\ StructStrategies(Config(n, m, g, f, y), c) = Config(n, m, StratsOver(g, c.groups), f, y)
<1> DEFINE d == Config(n, m, g, f, y)
<1>1. d.groups = g /\ d.phases = f
  BY ConfigFields
<1>2. ASSUME NEW x
      PROVE  [d EXCEPT !.phases = x] = Config(n, m, g, x, y) /\ [d EXCEPT !.groups = x] = Config(n, m, x, f, y)
  BY DEF Config
<1>3. StructConfig(d, c) = Config(c.n_groups, c.n_phases, g, f, y)
  <2> DEFINE a == c.n_groups
             b == c.n_phases
  <2>1. StructConfig(d, c) = [d EXCEPT !.n_groups = a, !.n_phases = b]
    BY DEF StructConfig
  <2> HIDE DEF a, b
  <2>2. [d EXCEPT !.n_groups = a] = Config(a, m, g, f, y)
    BY DEF Config
  <2>3. [Config(a, m, g, f, y) EXCEPT !.n_phases = b] = Config(a, b, g, f, y)
    BY DEF Config
  <2> HIDE DEF d
  <2>4. [d EXCEPT !.n_groups = a, !.n_phases = b] = [[d EXCEPT !.n_groups = a] EXCEPT !.n_phases = b]
    OBVIOUS
  <2> QED BY <2>1, <2>2, <2>3, <2>4 DEF a, b
<1> HIDE DEF d
<1>4. StructPhase(d, c) = [d EXCEPT !.phases = ItersOver(d.phases, c.phases)]
  BY DEF StructPhase, ItersOver
<1>5. StructGroups(d, c) = [d EXCEPT !.groups = ProcsOver(d.groups, c.groups)]
  BY DEF StructGroups, ProcsOver
<1>6. StructStrategies(d, c) = [d EXCEPT !.groups = StratsOver(d.groups, c.groups)]
  BY DEF StructStrategies, StratsOver
<1> QED BY <1>1, <1>2, <1>3, <1>4, <1>5, <1>6 DEF d

\* The allocation of the strategies.
LEMMA MallocStrategiesIs ==
  ASSUME NEW n, NEW m, NEW g, NEW f, NEW y
  PROVE  MallocStrategies(Config(n, m, g, f, y)) = Config(n, m, EmptyStrats(g), f, Added(y, <<"group_strats_type">>))
<1> DEFINE d == Config(n, m, g, f, y)
           x == EmptyStrats(g)
<1>1. d.groups = g
  BY ConfigFields
<1>2. ASSUME NEW e PROVE MallocStrategies(e) = Define([e EXCEPT !.groups = EmptyStrats(e.groups)], <<"group_strats_type">>)
  BY DEF MallocStrategies, EmptyStrats, SetStrats
<1> HIDE DEF x
<1>3. [d EXCEPT !.groups = x] = Config(n, m, x, f, y)
  BY DEF Config
<1>4. MallocStrategies(d) = Define([d EXCEPT !.groups = x], <<"group_strats_type">>)
  <2> HIDE DEF d
  <2> QED BY <1>1, <1>2 DEF x
<1> HIDE DEF d
<1>5. MallocStrategies(d) = Config(n, m, x, f, Added(y, <<"group_strats_type">>))
  BY <1>3, <1>4, Defined
<1> QED BY <1>5 DEF d, x

\* Two keys of a group at once.
LEMMA TwoKeys ==
  ASSUME NEW d, NEW p, NEW u, NEW v, d = [procs |-> p, rs |-> u, ss |-> v], NEW x, NEW y
  PROVE  SetStrats(d, x, y) = [procs |-> p, rs |-> x, ss |-> y]
<1> DEFINE e == [d EXCEPT !.rs = x]
<1>1. SetStrats(d, x, y) = [e EXCEPT !.ss = y]
  BY DEF SetStrats
<1>2. e = [procs |-> p, rs |-> x, ss |-> v]
  OBVIOUS
<1> HIDE DEF e
<1>3. [e EXCEPT !.ss = y] = [procs |-> p, rs |-> x, ss |-> y]
  BY <1>2
<1> QED BY <1>1, <1>3

\* The broadcast of the stages of a phase.
LEMMA StructStageIs ==
  ASSUME NEW n, NEW m, NEW g, NEW f, NEW y, NEW c, NEW p
  PROVE  StructStage(Config(n, m, g, f, y), c, p)
           = Config(n, m, g, SetStages(f, p, StagesOver(f[p].stages, c.phases[p].stages)), y)
<1> DEFINE d == Config(n, m, g, f, y)
           x == StagesOver(f[p].stages, c.phases[p].stages)
<1>1. d.phases = f
  BY ConfigFields
<1>2. StructStage(d, c, p) = [d EXCEPT !.phases[p].stages = StagesOver(d.phases[p].stages, c.phases[p].stages)]
  <2> HIDE DEF d
  <2> QED BY DEF StructStage, StagesOver
<1> HIDE DEF x
<1>3. [d EXCEPT !.phases[p].stages = x] = Config(n, m, g, [f EXCEPT ![p].stages = x], y)
  BY DEF Config
<1> HIDE DEF d
<1> QED BY <1>1, <1>2, <1>3 DEF d, x, SetStages

\* The stages of a phase are set.
LEMMA StagesSet ==
  ASSUME NEW n, NEW f, NEW g, NEW p \in 1 .. n, NEW x, IsArray(f, n), IsArray(g, n),
         NEW u, f[p] = [iters |-> u, stages |-> f[p].stages], g[p] = [iters |-> u, stages |-> x],
         \A i \in 1 .. n : i # p => g[i] = f[i]
  PROVE  SetStages(f, p, x) = g
<1> DEFINE y == [f[p] EXCEPT !.stages = x]
<1>1. y = g[p]
  <2> DEFINE v == f[p]
  <2>1. v = [iters |-> u, stages |-> v.stages]
    OBVIOUS
  <2> HIDE DEF v
  <2>2. [v EXCEPT !.stages = x] = [iters |-> u, stages |-> x]
    BY <2>1
  <2> QED BY <2>2 DEF v
<1> HIDE DEF y
<1>2. [f EXCEPT ![p] = y] = g
  BY <1>1, Replace
<1>3. [f EXCEPT ![p].stages = x] = g
  BY <1>2, FieldOfItem DEF y
<1> QED BY <1>3 DEF SetStages

\* The first broadcast: the structure; then the allocation of groups and phases.
LEMMA FirstBroadcast ==
  ASSUME FileOK, NEW c, c = Declared
  PROVE  MallocResizes(MallocPhases(StructConfig(KidIs(0), c))) = KidIs(1)
<1>0. file.groups \in Nat \ {0} /\ Phases \in Nat \ {0}
  BY DEF FileOK
<1>1. KidIs(0) = Config(1, 1, <<>>, <<>>, KidTypes(0))
  BY DEF KidIs
<1>2. c.n_groups = file.groups /\ c.n_phases = Phases
  BY DeclaredIs, ConfigFields
<1>3. StructConfig(KidIs(0), c) = Config(file.groups, Phases, <<>>, <<>>, KidTypes(0))
  BY <1>1, <1>2, StructsAre
<1>4. MallocPhases(Config(file.groups, Phases, <<>>, <<>>, KidTypes(0)))
        = Config(file.groups, Phases, <<>>, NoPhases(Phases), Added(KidTypes(0), <<"phase_type">>))
  BY Malloc
<1>5. MallocResizes(Config(file.groups, Phases, <<>>, NoPhases(Phases), Added(KidTypes(0), <<"phase_type">>)))
        = Config(file.groups, Phases, NoGroups(file.groups), NoPhases(Phases),
                 Added(Added(KidTypes(0), <<"phase_type">>), <<"group_type">>))
  BY Malloc
<1>6. KidGroups(1) = NoGroups(file.groups)
  BY <1>0 DEF KidGroups, KidGroup, NoGroups, NoGroup
<1>7. KidPhases(1) = NoPhases(Phases)
  <2>1. ASSUME NEW p \in 1 .. Phases PROVE KidPhase(p, 1) = NoPhase
    BY <1>0 DEF KidPhase, NoPhase
  <2> QED BY <2>1 DEF KidPhases, NoPhases
<1>8. KidTypes(1) = Added(Added(KidTypes(0), <<"phase_type">>), <<"group_type">>)
  BY <1>0 DEF KidTypes, Added
<1>9. KidIs(1) = Config(file.groups, Phases, KidGroups(1), KidPhases(1), KidTypes(1))
  BY DEF KidIs
<1> QED BY <1>3, <1>4, <1>5, <1>6, <1>7, <1>8, <1>9

\* The closed form after the first broadcast.
LEMMA KidIsConfig ==
  ASSUME NEW n \in Nat, n >= 1
  PROVE  KidIs(n) = Config(file.groups, Phases, KidGroups(n), KidPhases(n), KidTypes(n))
BY DEF KidIs

\* Until the groups are broadcast they stay as they were allocated.
LEMMA KidGroupsStay ==
  ASSUME FileOK, NEW n \in Nat, n + 1 < Phases + 3
  PROVE  KidGroups(n + 1) = KidGroups(n)
BY DEF KidGroups, KidGroup, FileOK

\* The phase whose stages come next: the array of stages is made.
PhasesBefore(n) == [p \in 1 .. Phases |-> IF p = n THEN KidPhase(p, n) ELSE KidPhase(p, n + 1)]

\* Making the array of its stages brings what comes before to what a child has then.
LEMMA StagesMade ==
  ASSUME FileOK, NEW n \in Nat, 2 <= n, n <= Phases
  PROVE  SetStages(PhasesBefore(n), n, NoStages(StagesOf(n))) = KidPhases(n + 1)
<1> DEFINE f == PhasesBefore(n)
           g == KidPhases(n + 1)
           u == DPhase(n).iters
           x == NoStages(StagesOf(n))
<1>0. n \in 1 .. Phases /\ Phases \in Nat
  BY DEF FileOK
<1>1. IsArray(f, Phases) /\ IsArray(g, Phases)
  BY DEF IsArray, PhasesBefore, KidPhases
<1>2. f[n] = KidPhase(n, n) /\ g[n] = KidPhase(n, n + 1)
  BY <1>0 DEF PhasesBefore, KidPhases
<1>3. KidPhase(n, n + 1) = [iters |-> u, stages |-> x]
  BY DEF KidPhase
<1>4. KidPhase(n, n) = [iters |-> u, stages |-> <<>>]
  BY DEF KidPhase
<1>5. \A i \in 1 .. Phases : i # n => g[i] = f[i]
  BY DEF PhasesBefore, KidPhases
<1> HIDE DEF f, g, u, x
<1>6. f[n] = [iters |-> u, stages |-> f[n].stages] /\ g[n] = [iters |-> u, stages |-> x]
  BY <1>2, <1>3, <1>4
<1>7. SetStages(f, n, x) = g
  BY <1>0, <1>1, <1>5, <1>6, StagesSet
<1> QED BY <1>7 DEF f, g, x

\* The second broadcast: the phases; then the array of stages of the first.
LEMMA SecondBroadcast ==
  ASSUME FileOK, NEW c, c = Declared
  PROVE  MallocStages(StructPhase(KidIs(1), c), 1, StagesOf(1)) = KidIs(2)
<1> DEFINE F == ItersOver(KidPhases(1), c.phases)
           G == KidGroups(1)
           y == KidTypes(1)
<1>0. Phases \in Nat \ {0} /\ 1 \in 1 .. Phases
  BY DEF FileOK
<1>1. c.phases = DPhases
  BY DeclaredIs, ConfigFields
<1>2. StructPhase(KidIs(1), c) = Config(file.groups, Phases, G, F, y)
  <2> HIDE DEF G, y
  <2> QED BY KidIsConfig, StructsAre DEF G, y
<1>3. ASSUME NEW p \in 1 .. Phases PROVE F[p] = [iters |-> DPhase(p).iters, stages |-> <<>>]
  <2>1. KidPhases(1)[p] = [iters |-> <<>>, stages |-> <<>>]
    BY DEF KidPhases, KidPhase
  <2>2. DPhases[p] = DPhase(p)
    BY DEF DPhases
  <2>3. p \in DOMAIN KidPhases(1)
    BY DEF KidPhases
  <2> QED BY <1>1, <2>1, <2>2, <2>3 DEF ItersOver
<1>4. IsArray(F, Phases) /\ IsArray(KidPhases(2), Phases)
  BY DEF IsArray, ItersOver, KidPhases
<1>5. KidPhases(2)[1] = [iters |-> DPhase(1).iters, stages |-> NoStages(StagesOf(1))]
  BY <1>0 DEF KidPhases, KidPhase
<1>6. \A i \in 1 .. Phases : i # 1 => KidPhases(2)[i] = F[i]
  <2>1. ASSUME NEW i \in 1 .. Phases, i # 1 PROVE KidPhases(2)[i] = [iters |-> DPhase(i).iters, stages |-> <<>>]
    BY <2>1 DEF KidPhases, KidPhase
  <2> HIDE DEF F
  <2> QED BY <1>3, <2>1
<1>7. F[1] = [iters |-> DPhase(1).iters, stages |-> <<>>]
  BY <1>0, <1>3
<1> DEFINE x == NoStages(StagesOf(1))
           u == DPhase(1).iters
           E == KidPhases(2)
<1> HIDE DEF F, x, u, E, G, y
<1>8. SetStages(F, 1, x) = E
  <2>1. F[1] = [iters |-> u, stages |-> F[1].stages] /\ E[1] = [iters |-> u, stages |-> x]
    BY <1>5, <1>7 DEF x, u, E
  <2>2. IsArray(F, Phases) /\ IsArray(E, Phases) /\ \A i \in 1 .. Phases : i # 1 => E[i] = F[i]
    BY <1>4, <1>6 DEF E
  <2> QED BY <1>0, <2>1, <2>2, StagesSet
<1>9. MallocStages(Config(file.groups, Phases, G, F, y), 1, StagesOf(1))
        = Config(file.groups, Phases, G, E, Added(y, <<"stage_type">>))
  BY <1>8, MallocOfStages DEF x
<1>10. Added(y, <<"stage_type">>) = KidTypes(2)
  BY <1>0 DEF Added, KidTypes, y
<1>11. KidGroups(2) = G
  <2>1. 1 \in Nat /\ 1 + 1 < Phases + 3 /\ 1 + 1 = 2
    BY <1>0
  <2>2. KidGroups(1 + 1) = KidGroups(1)
    BY <2>1, KidGroupsStay
  <2> QED BY <2>1, <2>2 DEF G
<1>12. KidIs(2) = Config(file.groups, Phases, KidGroups(2), KidPhases(2), KidTypes(2))
  BY KidIsConfig
<1> QED BY <1>2, <1>9, <1>10, <1>11, <1>12 DEF E

\* A broadcast of the stages of a phase.
LEMMA StageBroadcast ==
  ASSUME FileOK, NEW c, c = Declared, NEW n \in Nat, 2 <= n, n <= Phases + 1
  PROVE  StructStage(KidIs(n), c, n - 1) = Config(file.groups, Phases, KidGroups(n), PhasesBefore(n), KidTypes(n))
<1> DEFINE p == n - 1
           f == KidPhases(n)
           g == PhasesBefore(n)
           u == DPhase(p).iters
           x == DStages(p)
<1>0. p \in 1 .. Phases /\ Phases \in Nat
  BY DEF FileOK
<1>1. c.phases[p].stages = x
  <2>1. c.phases = DPhases
    BY DeclaredIs, ConfigFields
  <2> QED BY <1>0, <2>1 DEF DPhases, DPhase
<1>2. f[p] = [iters |-> u, stages |-> NoStages(StagesOf(p))]
  <2>1. f[p] = KidPhase(p, n)
    BY <1>0 DEF KidPhases
  <2>2. n >= 2 /\ ~(p + 2 <= n) /\ p + 1 = n
    OBVIOUS
  <2> QED BY <2>1, <2>2 DEF KidPhase
<1>3. g[p] = [iters |-> u, stages |-> x]
  <2>1. g[p] = KidPhase(p, n + 1)
    BY <1>0 DEF PhasesBefore
  <2>2. n + 1 >= 2 /\ p + 2 <= n + 1
    OBVIOUS
  <2> QED BY <2>1, <2>2 DEF KidPhase
<1>4. StagesOver(NoStages(StagesOf(p)), x) = x
  <2>1. ASSUME NEW s \in 1 .. StagesOf(p)
        PROVE  [type |-> x[s].type, time |-> x[s].time, gran |-> x[s].gran] = x[s]
    BY DEF DStages, DStage
  <2>2. DOMAIN NoStages(StagesOf(p)) = 1 .. StagesOf(p) /\ x = [s \in 1 .. StagesOf(p) |-> x[s]]
    BY DEF NoStages, DStages
  <2> HIDE DEF x
  <2> QED BY <2>1, <2>2 DEF StagesOver
<1>5. IsArray(f, Phases) /\ IsArray(g, Phases)
  BY DEF IsArray, KidPhases, PhasesBefore
<1>6. \A i \in 1 .. Phases : i # p => g[i] = f[i]
  <2>1. ASSUME NEW i \in 1 .. Phases, i # p PROVE g[i] = f[i]
    <3>1. f[i] = KidPhase(i, n) /\ g[i] = IF i = n THEN KidPhase(i, n) ELSE KidPhase(i, n + 1)
      BY DEF KidPhases, PhasesBefore
    <3>2. i # n => KidPhase(i, n) = KidPhase(i, n + 1)
      <4>1. ASSUME i # n
            PROVE  /\ n >= 2 /\ n + 1 >= 2
                   /\ i + 2 <= n <=> i + 2 <= n + 1
                   /\ ~(i + 1 = n) /\ ~(i + 1 = n + 1)
        BY <1>0, <2>1, <4>1
      <4> QED BY <4>1 DEF KidPhase
    <3> QED BY <3>1, <3>2
  <2> QED BY <2>1
<1>7. KidIs(n) = Config(file.groups, Phases, KidGroups(n), f, KidTypes(n))
  BY KidIsConfig
<1> DEFINE G == KidGroups(n)
           y == KidTypes(n)
<1> HIDE DEF p, f, g, u, x, G, y
<1>8. SetStages(f, p, x) = g
  <2>1. f[p] = [iters |-> u, stages |-> f[p].stages]
    BY <1>2
  <2> QED BY <1>0, <1>3, <1>5, <1>6, <2>1, StagesSet
<1>9. StructStage(Config(file.groups, Phases, G, f, y), c, p) = Config(file.groups, Phases, G, SetStages(f, p, StagesOver(f[p].stages, c.phases[p].stages)), y)
  BY StructStageIs
<1>10. f[p].stages = NoStages(StagesOf(p))
  BY <1>2
<1> QED BY <1>1, <1>4, <1>7, <1>8, <1>9, <1>10 DEF p, g, G, y

\* Once all stages are given the phases stay as they are.
LEMMA KidPhasesStay ==
  ASSUME FileOK, NEW n \in Nat, n >= Phases + 2
  PROVE  KidPhases(n) = DPhases
<1>1. ASSUME NEW p \in 1 .. Phases PROVE KidPhase(p, n) = DPhase(p)
  <2>1. n >= 2 /\ p + 2 <= n
    BY DEF FileOK
  <2> QED BY <2>1 DEF KidPhase, DPhase
<1> QED BY <1>1 DEF KidPhases, DPhases

\* The broadcast of the groups, and the allocation of their strategies.
LEMMA GroupBroadcast ==
  ASSUME FileOK, NEW c, c = Declared
  PROVE  MallocStrategies(StructGroups(KidIs(Phases + 2), c)) = KidIs(Phases + 3)
<1> DEFINE n == Phases + 2
           m == Phases + 3
           f == KidGroups(n)
           g == ProcsOver(f, c.groups)
           h == EmptyStrats(g)
<1>0. Phases \in Nat \ {0} /\ n \in Nat /\ m \in Nat /\ n >= 1 /\ m >= 1 /\ m = n + 1
  BY DEF FileOK
<1>1. c.groups = DGroups
  BY DeclaredIs, ConfigFields
<1>2. h = KidGroups(m)
  <2>1. DOMAIN f = 1 .. file.groups
    BY DEF KidGroups
  <2>2. DOMAIN g = 1 .. file.groups
    BY <2>1 DEF ProcsOver
  <2>3. ASSUME NEW i \in 1 .. file.groups PROVE SetStrats(g[i], Empty, Empty) = KidGroup(i, m)
    <3> DEFINE v == DGroup(i).procs
    <3>1. f[i] = [procs |-> <<>>, rs |-> <<>>, ss |-> <<>>]
      BY <1>0 DEF KidGroups, KidGroup
    <3>2. DGroups[i] = DGroup(i)
      BY DEF DGroups
    <3>3. g[i] = [f[i] EXCEPT !.procs = v]
      BY <1>1, <2>1, <3>2 DEF ProcsOver
    <3>4. KidGroup(i, m) = [procs |-> v, rs |-> Empty, ss |-> Empty]
      BY <1>0 DEF KidGroup
    <3> HIDE DEF f, g, v
    <3>5. g[i] = [procs |-> v, rs |-> <<>>, ss |-> <<>>]
      BY <3>1, <3>3
    <3>6. SetStrats(g[i], Empty, Empty) = [procs |-> v, rs |-> Empty, ss |-> Empty]
      BY <3>5, TwoKeys
    <3> QED BY <3>4, <3>6
  <2> HIDE DEF g, m
  <2> QED BY <2>2, <2>3 DEF EmptyStrats, KidGroups
<1>3. KidPhases(m) = KidPhases(n)
  BY <1>0, KidPhasesStay
<1>4. KidTypes(m) = Added(KidTypes(n), <<"group_strats_type">>)
  BY <1>0 DEF KidTypes, Added
<1> DEFINE F == KidPhases(n)
           y == KidTypes(n)
<1> HIDE DEF F, y
<1>5. KidIs(n) = Config(file.groups, Phases, f, F, y)
  BY <1>0, KidIsConfig DEF F, y
<1>6. KidIs(m) = Config(file.groups, Phases, h, F, Added(y, <<"group_strats_type">>))
  BY <1>0, <1>2, <1>3, <1>4, KidIsConfig DEF F, y
<1> HIDE DEF f, g, n, m
<1>7. StructGroups(Config(file.groups, Phases, f, F, y), c) = Config(file.groups, Phases, g, F, y)
  BY StructsAre DEF g
<1>8. MallocStrategies(Config(file.groups, Phases, g, F, y)) = Config(file.groups, Phases, h, F, Added(y, <<"group_strats_type">>))
  BY MallocStrategiesIs
<1> QED BY <1>5, <1>6, <1>7, <1>8 DEF n, m

\* The broadcast of the strategies.
LEMMA StrategyBroadcast ==
  ASSUME FileOK, NEW c, c = Declared
  PROVE  StructStrategies(KidIs(Phases + 3), c) = KidIs(Phases + 4)
<1> DEFINE n == Phases + 3
           m == Phases + 4
           f == KidGroups(n)
           g == StratsOver(f, c.groups)
<1>0. Phases \in Nat \ {0} /\ n \in Nat /\ m \in Nat /\ n >= 1 /\ m >= 1 /\ m = n + 1
  BY DEF FileOK
<1>1. c.groups = DGroups
  BY DeclaredIs, ConfigFields
<1>2. g = KidGroups(m)
  <2>1. DOMAIN f = 1 .. file.groups
    BY DEF KidGroups
  <2>3. ASSUME NEW i \in 1 .. file.groups PROVE StructGroupStrats(f[i], c.groups[i]) = KidGroup(i, m)
    <3> DEFINE v == DGroup(i).procs
               d == DGroup(i)
               r == Over(Empty, d.rs)
               s == Over(Empty, d.ss)
    <3>1. f[i] = [procs |-> v, rs |-> Empty, ss |-> Empty]
      BY <1>0 DEF KidGroups, KidGroup
    <3>2. c.groups[i] = d
      BY <1>1 DEF DGroups
    <3>4. KidGroup(i, m) = [procs |-> v, rs |-> r, ss |-> s]
      BY <1>0 DEF KidGroup
    <3> HIDE DEF f, v, d
    <3>5. StructGroupStrats(f[i], d) = SetStrats(f[i], Over(f[i].rs, d.rs), Over(f[i].ss, d.ss))
      BY DEF StructGroupStrats, SetStrats
    <3>6. Over(f[i].rs, d.rs) = r /\ Over(f[i].ss, d.ss) = s
      BY <3>1
    <3> HIDE DEF r, s
    <3>7. SetStrats(f[i], r, s) = [procs |-> v, rs |-> r, ss |-> s]
      BY <3>1, TwoKeys
    <3> QED BY <3>2, <3>4, <3>5, <3>6, <3>7
  <2> HIDE DEF f, m
  <2> QED BY <2>1, <2>3 DEF StratsOver, KidGroups
<1>3. KidPhases(m) = KidPhases(n)
  BY <1>0, KidPhasesStay
<1>4. KidTypes(m) = KidTypes(n)
  BY <1>0 DEF KidTypes
<1> DEFINE F == KidPhases(n)
           y == KidTypes(n)
<1> HIDE DEF F, y
<1>5. KidIs(n) = Config(file.groups, Phases, f, F, y)
  BY <1>0, KidIsConfig DEF F, y
<1>6. KidIs(m) = Config(file.groups, Phases, g, F, y)
  BY <1>0, <1>2, <1>3, <1>4, KidIsConfig DEF F, y
<1> HIDE DEF f, n, m
<1>7. StructStrategies(Config(file.groups, Phases, f, F, y), c) = Config(file.groups, Phases, g, F, y)
  BY StructsAre
<1> QED BY <1>5, <1>6, <1>7 DEF n, m

\* After the last broadcast a child has what is declared for it.
LEMMA KidIsDeclared ==
  ASSUME FileOK
  PROVE  KidIs(Phases + 4) = DeclaredToKids
<1> DEFINE m == Phases + 4
           x == [g \in DOMAIN DGroups |-> GroupToKids(DGroups[g])]
<1>0. Phases \in Nat \ {0} /\ m \in Nat /\ m >= 1 /\ m >= Phases + 2
  BY DEF FileOK
<1>1. DeclaredToKids = [Declared EXCEPT !.groups = x]
  <2>1. Declared.groups = DGroups
    BY DeclaredIs, ConfigFields
  <2>2. DeclaredToKids = [Declared EXCEPT !.groups = [g \in DOMAIN Declared.groups |-> GroupToKids(Declared.groups[g])]]
    BY DEF DeclaredToKids
  <2> QED BY <2>1, <2>2
<1>2. x = KidGroups(m)
  <2>1. DOMAIN DGroups = 1 .. file.groups
    BY DEF DGroups
  <2>2. ASSUME NEW i \in 1 .. file.groups PROVE GroupToKids(DGroups[i]) = KidGroup(i, m)
    <3> DEFINE d == DGroup(i)
               r == Over(Empty, d.rs)
               s == Over(Empty, d.ss)
    <3>1. DGroups[i] = d
      BY DEF DGroups
    <3>2. d = [procs |-> d.procs, rs |-> d.rs, ss |-> d.ss]
      BY DEF DGroup, NoGroup
    <3>3. KidGroup(i, m) = [procs |-> d.procs, rs |-> r, ss |-> s]
      BY <1>0 DEF KidGroup
    <3> HIDE DEF d
    <3>4. GroupToKids(d) = SetStrats(d, r, s)
      BY DEF GroupToKids, SetStrats
    <3> HIDE DEF r, s
    <3>5. SetStrats(d, r, s) = [procs |-> d.procs, rs |-> r, ss |-> s]
      BY <3>2, TwoKeys
    <3> QED BY <3>1, <3>3, <3>4, <3>5
  <2> HIDE DEF m
  <2> QED BY <2>1, <2>2 DEF KidGroups
<1>3. KidPhases(m) = DPhases
  BY <1>0, KidPhasesStay
<1>4. KidTypes(m) = Types
  BY <1>0 DEF KidTypes, Types
<1> HIDE DEF x
<1>5. [Config(file.groups, Phases, DGroups, DPhases, Types) EXCEPT !.groups = x] = Config(file.groups, Phases, x, DPhases, Types)
  BY DEF Config
<1>6. KidIs(m) = Config(file.groups, Phases, KidGroups(m), KidPhases(m), KidTypes(m))
  BY <1>0, KidIsConfig
<1> QED BY <1>1, <1>2, <1>3, <1>4, <1>5, <1>6, DeclaredIs

\* recv_config_file: a broadcast takes a child from n to n + 1.
LEMMA ReceiveIs ==
  ASSUME FileOK, cfg = Declared, NEW n \in 0 .. Phases + 3, kid = KidIs(n)
  PROVE  Receive(n + 1) = KidIs(n + 1)
<1>0. Phases \in Nat \ {0} /\ n \in Nat
  BY DEF FileOK
<1>1. kid.n_phases = IF n >= 1 THEN Phases ELSE 1
  BY DEF KidIs, Config
<1>2. ASSUME NEW p \in 1 .. Phases PROVE Len(cfg.phases[p].stages) = StagesOf(p)
  <2>1. cfg.phases = DPhases
    BY DeclaredIs, ConfigFields
  <2>2. cfg.phases[p].stages = DStages(p)
    BY <2>1 DEF DPhases, DPhase
  <2>3. StagesOf(p) \in Nat
    BY DEF FileOK
  <2> QED BY <2>2, <2>3 DEF DStages
<1>3. CASE n = 0
  <2>1. Receive(n + 1) = MallocResizes(MallocPhases(StructConfig(kid, cfg)))
    BY <1>1, <1>3 DEF Receive
  <2> QED BY <1>3, <2>1, FirstBroadcast
<1>4. CASE n = 1
  <2>1. Receive(n + 1) = MallocStages(StructPhase(kid, cfg), 1, Len(cfg.phases[1].stages))
    BY <1>0, <1>1, <1>4 DEF Receive
  <2>2. Len(cfg.phases[1].stages) = StagesOf(1)
    BY <1>0, <1>2
  <2> QED BY <1>4, <2>1, <2>2, SecondBroadcast
<1>5. CASE n \in 2 .. Phases
  <2>1. Receive(n + 1) = MallocStages(StructStage(kid, cfg, n - 1), n, Len(cfg.phases[n].stages))
    <3>1. n + 1 # 1 /\ n + 1 # 2 /\ n + 1 \in 3 .. kid.n_phases + 1 /\ n + 1 # kid.n_phases + 2
          /\ n + 1 # kid.n_phases + 3 /\ n + 1 # kid.n_phases + 4
      BY <1>0, <1>1, <1>5
    <3>2. (n + 1) - 1 = n /\ (n + 1) - 2 = n - 1
      BY <1>0
    <3> QED BY <3>1, <3>2 DEF Receive
  <2>2. Len(cfg.phases[n].stages) = StagesOf(n)
    BY <1>0, <1>2, <1>5
  <2>3. StructStage(kid, cfg, n - 1) = Config(file.groups, Phases, KidGroups(n), PhasesBefore(n), KidTypes(n))
    BY <1>0, <1>5, StageBroadcast
  <2> DEFINE G == KidGroups(n)
             F == PhasesBefore(n)
             y == KidTypes(n)
  <2>4. SetStages(F, n, NoStages(StagesOf(n))) = KidPhases(n + 1)
    BY <1>0, <1>5, StagesMade
  <2>5. Added(y, <<"stage_type">>) = KidTypes(n + 1)
    BY <1>0, <1>5 DEF Added, KidTypes
  <2>6. G = KidGroups(n + 1)
    BY <1>0, <1>5, KidGroupsStay
  <2>7. KidIs(n + 1) = Config(file.groups, Phases, KidGroups(n + 1), KidPhases(n + 1), KidTypes(n + 1))
    BY <1>0, KidIsConfig
  <2> HIDE DEF G, F, y
  <2>8. MallocStages(Config(file.groups, Phases, G, F, y), n, StagesOf(n))
          = Config(file.groups, Phases, G, SetStages(F, n, NoStages(StagesOf(n))), Added(y, <<"stage_type">>))
    BY MallocOfStages
  <2>9. StructStage(kid, cfg, n - 1) = Config(file.groups, Phases, G, F, y)
    BY <2>3 DEF G, F, y
  <2> QED BY <2>1, <2>2, <2>4, <2>5, <2>6, <2>7, <2>8, <2>9
<1>6. CASE n = Phases + 1
  <2>1. Receive(n + 1) = StructStage(kid, cfg, n - 1)
    <3>1. n + 1 # 1 /\ n + 1 # 2 /\ n + 1 \notin 3 .. kid.n_phases + 1 /\ n + 1 = kid.n_phases + 2
          /\ n + 1 # kid.n_phases + 3 /\ n + 1 # kid.n_phases + 4
      BY <1>0, <1>1, <1>6
    <3>2. (n + 1) - 2 = n - 1
      BY <1>0
    <3> QED BY <3>1, <3>2 DEF Receive
  <2>2. StructStage(kid, cfg, n - 1) = Config(file.groups, Phases, KidGroups(n), PhasesBefore(n), KidTypes(n))
    BY <1>0, <1>6, StageBroadcast
  <2>3. PhasesBefore(n) = KidPhases(n + 1)
    <3>1. \A p \in 1 .. Phases : p # n
      BY <1>0, <1>6
    <3> QED BY <3>1 DEF PhasesBefore, KidPhases
  <2>4. KidTypes(n + 1) = KidTypes(n)
    BY <1>0, <1>6 DEF KidTypes
  <2>5. KidGroups(n + 1) = KidGroups(n)
    BY <1>0, <1>6, KidGroupsStay
  <2>6. KidIs(n + 1) = Config(file.groups, Phases, KidGroups(n + 1), KidPhases(n + 1), KidTypes(n + 1))
    BY <1>0, KidIsConfig
  <2> QED BY <2>1, <2>2, <2>3, <2>4, <2>5, <2>6
<1>7. CASE n = Phases + 2
  <2>1. Receive(n + 1) = MallocStrategies(StructGroups(kid, cfg))
    <3>1. n + 1 # 1 /\ n + 1 # 2 /\ n + 1 \notin 3 .. kid.n_phases + 1 /\ n + 1 # kid.n_phases + 2
          /\ n + 1 = kid.n_phases + 3 /\ n + 1 # kid.n_phases + 4
      BY <1>0, <1>1, <1>7
    <3> QED BY <3>1 DEF Receive
  <2>2. n + 1 = Phases + 3
    BY <1>0, <1>7
  <2> QED BY <1>7, <2>1, <2>2, GroupBroadcast
<1>8. CASE n = Phases + 3
  <2>1. Receive(n + 1) = StructStrategies(kid, cfg)
    <3>1. n + 1 # 1 /\ n + 1 # 2 /\ n + 1 \notin 3 .. kid.n_phases + 1 /\ n + 1 # kid.n_phases + 2
          /\ n + 1 # kid.n_phases + 3 /\ n + 1 = kid.n_phases + 4
      BY <1>0, <1>1, <1>8
    <3> QED BY <3>1 DEF Receive
  <2>2. n + 1 = Phases + 4
    BY <1>0, <1>8
  <2> QED BY <1>8, <2>1, <2>2, StrategyBroadcast
<1> QED BY <1>0, <1>3, <1>4, <1>5, <1>6, <1>7, <1>8

\* What a child holds grows with each broadcast.
KidStages(n) == IF n = 0 THEN 0 ELSE IF n - 1 <= Phases THEN n - 1 ELSE Phases
KidStrats(n) == IF n >= Phases + 3 THEN file.groups ELSE 0

\* The blocks a child holds after n broadcasts.
LEMMA KidHolds ==
  ASSUME FileOK, NEW n \in 0 .. Phases + 4
  PROVE  Held(KidIs(n)) = Blocks(IF n = 0 THEN 0 ELSE 2, KidStages(n), KidStrats(n), KidStrats(n)) \cup KidTypes(n)
<1> DEFINE c == KidIs(n)
<1>0. Phases \in Nat \ {0} /\ file.groups \in Nat \ {0} /\ n \in Nat
  BY DEF FileOK
<1>1. c.types = KidTypes(n)
  BY ConfigFields DEF KidIs
<1>2. CASE n = 0
  <2>1. c.groups = <<>> /\ c.phases = <<>>
    BY <1>2 DEF KidIs, Config
  <2>2. DOMAIN c.groups = 1 .. 0 /\ DOMAIN c.phases = 1 .. 0
    BY <2>1
  <2>3. KidStages(n) = 0 /\ KidStrats(n) = 0
    BY <1>0, <1>2 DEF KidStages, KidStrats
  <2> HIDE DEF c
  <2>4. HoldsArrays(c, 0)
    BY <2>1 DEF HoldsArrays
  <2>5. HoldsStages(c, 0)
    BY <2>2 DEF HoldsStages
  <2>6. HoldsGroups(c, 0, 0)
    BY <2>2 DEF HoldsGroups
  <2>7. Held(c) = Blocks(0, 0, 0, 0) \cup c.types
    BY <2>4, <2>5, <2>6, BlocksAre
  <2> QED BY <1>1, <1>2, <2>3, <2>7 DEF c
<1>3. CASE n # 0
  <2>0. n >= 1
    BY <1>0, <1>3
  <2>1. c.groups = KidGroups(n) /\ c.phases = KidPhases(n)
    BY <2>0, <1>0, KidIsConfig, ConfigFields
  <2>2. DOMAIN KidGroups(n) = 1 .. file.groups /\ DOMAIN KidPhases(n) = 1 .. Phases
    BY DEF KidGroups, KidPhases
  <2>3. KidGroups(n) # <<>> /\ KidPhases(n) # <<>>
    BY <1>0, <2>2, ArrayIs
  <2>4. ASSUME NEW p \in 1 .. Phases PROVE KidPhases(n)[p].stages # <<>> <=> p <= KidStages(n)
    <3>1. KidPhases(n)[p].stages
            = IF p + 2 <= n THEN DStages(p) ELSE IF p + 1 = n THEN NoStages(StagesOf(p)) ELSE <<>>
      BY DEF KidPhases, KidPhase
    <3>2. DStages(p) # <<>> /\ NoStages(StagesOf(p)) # <<>>
      <4>1. /\ DOMAIN DStages(p) = 1 .. StagesOf(p) /\ DOMAIN NoStages(StagesOf(p)) = 1 .. StagesOf(p)
            /\ StagesOf(p) \in Nat \ {0}
        BY DEF DStages, NoStages, FileOK
      <4> QED BY <4>1, ArrayIs
    <3>3. p <= KidStages(n) <=> p + 2 <= n \/ p + 1 = n
      BY <1>0, <2>0 DEF KidStages
    <3> QED BY <3>1, <3>2, <3>3
  <2>5. ASSUME NEW g \in 1 .. file.groups
        PROVE  (KidGroups(n)[g].rs # <<>> <=> g <= KidStrats(n)) /\ (KidGroups(n)[g].ss # <<>> <=> g <= KidStrats(n))
    <3>1. KidGroups(n)[g] = KidGroup(g, n)
      BY DEF KidGroups
    <3>2. \A x : Over(Empty, x) # <<>>
      BY DEF Over, Empty
    <3>3. Empty # <<>>
      BY DEF Empty
    <3>4. /\ KidGroup(g, n).rs # <<>> <=> n >= Phases + 3
          /\ KidGroup(g, n).ss # <<>> <=> n >= Phases + 3
      BY <1>0, <3>2, <3>3 DEF KidGroup
    <3>5. g <= KidStrats(n) <=> n >= Phases + 3
      BY <1>0 DEF KidStrats
    <3> QED BY <3>1, <3>4, <3>5
  <2>6. KidStages(n) \in 0 .. Phases /\ KidStrats(n) \in 0 .. file.groups
    BY <1>0, <2>0 DEF KidStages, KidStrats
  <2> HIDE DEF c
  <2>7. HoldsArrays(c, 2)
    BY <2>1, <2>3 DEF HoldsArrays
  <2>8. HoldsStages(c, KidStages(n))
    BY <1>0, <2>1, <2>2, <2>4, <2>6 DEF HoldsStages
  <2>9. HoldsGroups(c, KidStrats(n), KidStrats(n))
    BY <1>0, <2>1, <2>2, <2>5, <2>6 DEF HoldsGroups
  <2>10. Held(c) = Blocks(2, KidStages(n), KidStrats(n), KidStrats(n)) \cup c.types
    BY <2>7, <2>8, <2>9, BlocksAre
  <2> QED BY <1>1, <1>3, <2>10 DEF c
<1> QED BY <1>2, <1>3

\* A broadcast releases none of them.
LEMMA KidGrows ==
  ASSUME FileOK, NEW n \in 0 .. Phases + 3
  PROVE  Held(KidIs(n)) \subseteq Held(KidIs(n + 1))
<1>0. Phases \in Nat \ {0} /\ file.groups \in Nat \ {0} /\ n \in Nat /\ n + 1 \in 0 .. Phases + 4 /\ n \in 0 .. Phases + 4
  BY DEF FileOK
<1>1. \A i, j \in Nat : i <= j => StagesHeld(i) \subseteq StagesHeld(j) /\ RsHeld(i) \subseteq RsHeld(j) /\ SsHeld(i) \subseteq SsHeld(j)
  <2>1. ASSUME NEW i \in Nat, NEW j \in Nat, i <= j
        PROVE  StagesHeld(i) \subseteq StagesHeld(j) /\ RsHeld(i) \subseteq RsHeld(j) /\ SsHeld(i) \subseteq SsHeld(j)
    <3>1. 1 .. i \subseteq 1 .. j
      BY <2>1
    <3> QED BY <3>1 DEF StagesHeld, RsHeld, SsHeld
  <2> QED BY <2>1
<1>2. /\ KidStages(n) \in Nat /\ KidStages(n + 1) \in Nat /\ KidStages(n) <= KidStages(n + 1)
  BY <1>0 DEF KidStages
<1>3. KidStrats(n) \in Nat /\ KidStrats(n + 1) \in Nat /\ KidStrats(n) <= KidStrats(n + 1)
  BY <1>0 DEF KidStrats
<1>4. /\ StagesHeld(KidStages(n)) \subseteq StagesHeld(KidStages(n + 1))
      /\ RsHeld(KidStrats(n)) \subseteq RsHeld(KidStrats(n + 1)) /\ SsHeld(KidStrats(n)) \subseteq SsHeld(KidStrats(n + 1))
  BY <1>1, <1>2, <1>3
<1>5. KidTypes(n) \subseteq KidTypes(n + 1)
  BY <1>0 DEF KidTypes
<1>6. ArraysHeld(IF n = 0 THEN 0 ELSE 2) \subseteq ArraysHeld(IF n + 1 = 0 THEN 0 ELSE 2)
  BY <1>0 DEF ArraysHeld
<1>7. Blocks(IF n = 0 THEN 0 ELSE 2, KidStages(n), KidStrats(n), KidStrats(n))
        \subseteq Blocks(IF n + 1 = 0 THEN 0 ELSE 2, KidStages(n + 1), KidStrats(n + 1), KidStrats(n + 1))
  BY <1>4, <1>6 DEF Blocks
<1>8. Held(KidIs(n)) = Blocks(IF n = 0 THEN 0 ELSE 2, KidStages(n), KidStrats(n), KidStrats(n)) \cup KidTypes(n)
  BY <1>0, KidHolds
<1>9. Held(KidIs(n + 1)) = Blocks(IF n + 1 = 0 THEN 0 ELSE 2, KidStages(n + 1), KidStrats(n + 1), KidStrats(n + 1)) \cup KidTypes(n + 1)
  BY <1>0, KidHolds
<1> QED BY <1>5, <1>7, <1>8, <1>9

\* A child before the first broadcast.
LEMMA KidFirst ==
  ASSUME FileOK
  PROVE  Define(NoConfig, <<"config_type">>) = KidIs(0) /\ Held(KidIs(0)) = {<<"config">>, <<"config_type">>}
<1>0. Phases \in Nat /\ file.groups \in Nat
  BY DEF FileOK
<1>1. NoConfig = Config(1, 1, <<>>, <<>>, {})
  BY DEF NoConfig, Config
<1>2. Define(Config(1, 1, <<>>, <<>>, {}), <<"config_type">>) = Config(1, 1, <<>>, <<>>, Added({}, <<"config_type">>))
  BY Defined
<1>3. KidTypes(0) = {<<"config_type">>}
  BY <1>0 DEF KidTypes
<1>4. KidIs(0) = Config(1, 1, <<>>, <<>>, KidTypes(0))
  BY DEF KidIs
<1>5. Added({}, <<"config_type">>) = KidTypes(0)
  BY <1>3 DEF Added
<1>6. Held(KidIs(0)) = Blocks(0, 0, 0, 0) \cup KidTypes(0)
  <2>1. KidStages(0) = 0 /\ KidStrats(0) = 0
    BY <1>0 DEF KidStages, KidStrats
  <2>2. 0 \in 0 .. Phases + 4
    BY <1>0
  <2>3. Held(KidIs(0)) = Blocks(IF 0 = 0 THEN 0 ELSE 2, KidStages(0), KidStrats(0), KidStrats(0)) \cup KidTypes(0)
    BY <2>2, KidHolds
  <2> QED BY <2>1, <2>3
<1>7. Blocks(0, 0, 0, 0) = {<<"config">>}
  BY DEF Blocks, ArraysHeld, StagesHeld, RsHeld, SsHeld
<1> QED BY <1>1, <1>2, <1>3, <1>4, <1>5, <1>6, <1>7

\* The length of an array between two pairs.
LEMMA LengthBetween ==
  ASSUME NEW n \in Nat, NEW f, IsArray(f, n), NEW v, NEW w, NEW x, NEW y
  PROVE  Len(<<v, w>> \o f \o <<x, y>>) = n + 4
<1> DEFINE S == {v, w, x, y} \cup {f[p] : p \in 1 .. n}
<1>1. f \in [1 .. n -> S]
  BY DEF IsArray
<1>2. v \in S /\ w \in S /\ x \in S /\ y \in S
  OBVIOUS
<1> HIDE DEF S
<1>3. f \in Seq(S) /\ Len(f) = n
  BY <1>1
<1>4. <<v, w>> \in Seq(S) /\ Len(<<v, w>>) = 2 /\ <<x, y>> \in Seq(S) /\ Len(<<x, y>>) = 2
  BY <1>2
<1>5. <<v, w>> \o f \in Seq(S) /\ Len(<<v, w>> \o f) = 2 + n
  BY <1>3, <1>4, ConcatProperties
<1>6. Len(<<v, w>> \o f \o <<x, y>>) = (2 + n) + 2
  BY <1>4, <1>5, ConcatProperties
<1> QED BY <1>6

\* send_config_file: as many broadcasts as phases and four.
LEMMA BroadcastsAre ==
  ASSUME FileOK
  PROVE  Len(Broadcasts(Declared)) = Phases + 4
<1> DEFINE c == Declared
           f == [p \in 1 .. c.n_phases |-> <<"stages", IF c.phases = <<>> THEN 0 ELSE Len(c.phases[p].stages)>>]
           v == <<"config", 1>>
           w == <<"phases", c.n_phases>>
           x == <<"groups", c.n_groups>>
           y == <<"strategies", c.n_groups>>
<1>1. c.n_phases = Phases /\ Phases \in Nat
  BY DeclaredIs, ConfigFields DEF FileOK
<1>2. IsArray(f, Phases)
  BY <1>1 DEF IsArray
<1>3. Broadcasts(c) = <<v, w>> \o f \o <<x, y>>
  BY DEF Broadcasts
<1> HIDE DEF f, v, w, x, y, c
<1>4. Len(<<v, w>> \o f \o <<x, y>>) = Phases + 4
  BY <1>1, <1>2, LengthBetween
<1> QED BY <1>3, <1>4 DEF c

\* The file does not change, nor what it declares.
LEMMA SameDeclared ==
  ASSUME file' = file
  PROVE  Declared' = Declared /\ (\A n : KidIs(n)' = KidIs(n)) /\ (\A a : AllRead(a)' <=> AllRead(a))
<1>1. Phases' = Phases /\ \A p : StagesOf(p)' = StagesOf(p)
  BY DEF Phases, StagesOf
<1>2. \A g : DGroup(g)' = DGroup(g)
  BY DEF DGroup, Value, NoGroup
<1>3. \A p, s : DStage(p, s)' = DStage(p, s)
  BY DEF DStage, Value
<1>4. \A p : DStages(p)' = DStages(p)
  BY <1>1, <1>3 DEF DStages
<1>5. \A p : DPhase(p)' = DPhase(p)
  BY <1>4 DEF DPhase, Value
<1>6. DGroups' = DGroups
  BY <1>2 DEF DGroups
<1>7. DPhases' = DPhases
  BY <1>1, <1>5 DEF DPhases
<1>8. Declared' = Declared
  <2>1. Declared' = Config(file'.groups, Phases', DGroups', DPhases', Types)
    BY DEF Declared, Config, DGroups, DPhases, DGroup, DPhase, DStages, DStage, Phases, StagesOf
  <2> QED BY <1>1, <1>6, <1>7, <2>1, DeclaredIs
<1>9. \A g, n : KidGroup(g, n)' = KidGroup(g, n)
  BY <1>1, <1>2 DEF KidGroup, Over, Empty
<1>10. \A p, n : KidPhase(p, n)' = KidPhase(p, n)
  BY <1>1, <1>4, <1>5 DEF KidPhase, NoStages, NoStage
<1>11. \A n : KidGroups(n)' = KidGroups(n)
  BY <1>9 DEF KidGroups
<1>12. \A n : KidPhases(n)' = KidPhases(n)
  BY <1>1, <1>10 DEF KidPhases
<1>13. \A n : KidIs(n)' = KidIs(n)
  BY <1>1, <1>11, <1>12 DEF KidIs, Config, KidTypes
<1>14. \A a : AllRead(a)' <=> AllRead(a)
  BY <1>1 DEF AllRead
<1> QED BY <1>8, <1>13, <1>14

-----------------------------------------------------------------------------
(* The invariant. *)

\* What a reader has is what it has read of the file, for some place in it; the
\* lines of an INI file that come next are those of that place, and a reader that
\* has ended has read all that the file gives.
ReadOK ==
  \E i, k, j, t \in 0 .. 2 :
    /\ Progress(i, k, j, t, at)
    /\ cfg = Read(i, k, j, t, at)
    /\ pc = "ini" => IniOK(i, k, j, t, at)
    /\ pc = "json" => t = 0 /\ j # 1
    /\ pc = "loaded" => i = 2 /\ k = 0 /\ j = 0 /\ t = 0 /\ AllRead(at)
BeforeOK == pc \in {"ini", "json", "loaded", "rejected"} => ReadOK /\ kid = NoConfig /\ sent = 0

\* The group that sends has what the file declares, and a child what as many
\* broadcasts have given.
SendOK ==
  /\ pc \in {"send", "done"} => cfg = Declared /\ sent \in 0 .. Phases + 4 /\ kid = KidIs(sent)
  /\ pc = "done" => sent = Phases + 4

PlaceOK == pc \in {"ini", "json", "loaded", "rejected", "send", "done"} /\ (pc = "json" => file.form = "json")

ReadInv == FileOK /\ PlaceOK /\ BeforeOK /\ SendOK /\ NothingLost

\* The blocks of a process are owned one by one.
LEMMA OwnUnion == \A w, x, y : Own(w, x \cup y) = Own(w, x) \cup Own(w, y)
BY DEF Own

\* So are those that it frees.
LEMMA OwnGiven == \A w, x, y : Own(w, x) \ Own(w, y) = Own(w, x \ y)
BY DEF Own

\* What the blocks are while one process reads.
LEMMA HeapRead ==
  ASSUME pc \in {"ini", "json", "loaded"}
  PROVE  NothingLost <=> heap = Own("root", Held(cfg))
BY DEF NothingLost

\* The initial states.
LEMMA ReadInit == Init => ReadInv
<1> SUFFICES ASSUME Init PROVE ReadInv
  OBVIOUS
<1>0. PICK f \in Files : /\ file = f
                         /\ f.given \in (IF f.form = "json" THEN {f.groups} ELSE {f.groups - 1, f.groups, f.groups + 1})
  BY DEF Init
<1>1. FileOK
  <2>1. /\ f.form \in {"ini", "json"} /\ f.groups \in 1 .. MaxGroups /\ f.given \in 0 .. MaxGroups + 1
        /\ f.stages \in UNION {[1 .. n -> 1 .. MaxStages] : n \in 1 .. MaxPhases}
    BY DEF Files
  <2>2. MaxGroups \in Nat \ {0} /\ MaxPhases \in Nat \ {0} /\ MaxStages \in Nat \ {0}
    BY ConfigFileAssumption
  <2>3. PICK n \in 1 .. MaxPhases : f.stages \in [1 .. n -> 1 .. MaxStages]
    BY <2>1
  <2>4. f.groups \in Nat \ {0} /\ f.given \in Nat /\ (f.form = "json" => f.given = f.groups)
    BY <1>0, <2>1, <2>2
  <2>5. Len(f.stages) = n
    BY <2>2, <2>3
  <2>6. Phases = n /\ \A p \in 1 .. n : StagesOf(p) \in Nat \ {0}
    <3>1. Phases = n
      BY <1>0, <2>5 DEF Phases
    <3>2. \A p \in 1 .. n : f.stages[p] \in 1 .. MaxStages
      BY <2>3
    <3>3. \A p \in 1 .. n : f.stages[p] \in Nat \ {0}
      BY <2>2, <3>2
    <3> QED BY <1>0, <3>1, <3>3 DEF StagesOf
  <2>7. n \in Nat \ {0}
    BY <2>2
  <2> QED BY <1>0, <2>1, <2>4, <2>6, <2>7 DEF FileOK
<1>2. /\ pc = file.form /\ at = [group |-> 0, phase |-> 0, stage |-> 0]
      /\ cfg = NoConfig /\ kid = NoConfig /\ sent = 0 /\ heap = Own("root", {<<"config">>})
      /\ line = IF file.form = "ini" THEN FirstLines ELSE [part \in DOMAIN FirstLines |-> NoLine]
  BY DEF Init
<1>3. pc \in {"ini", "json"} /\ PlaceOK
  BY <1>1, <1>2 DEF FileOK, PlaceOK
<1>4. Progress(0, 0, 0, 0, at)
  <2>1. at.group = 0 /\ at.phase = 0 /\ at \in [group : Nat, phase : Nat, stage : Nat]
    BY <1>2
  <2> QED BY <1>1, <2>1 DEF Progress, FileOK
<1>5. cfg = Read(0, 0, 0, 0, at)
  <2>1. at.group = 0 /\ at.phase = 0
    BY <1>2
  <2>2. ReadTypes(0, 0, at) = {}
    BY DEF ReadTypes
  <2>3. Read(0, 0, 0, 0, at) = Config(1, 1, <<>>, <<>>, ReadTypes(0, 0, at))
    BY DEF Read
  <2> QED BY <1>2, <2>2, <2>3 DEF Config, NoConfig
<1>6. pc = "ini" => IniOK(0, 0, 0, 0, at)
  <2> SUFFICES ASSUME pc = "ini" PROVE IniOK(0, 0, 0, 0, at)
    OBVIOUS
  <2>1. line = FirstLines
    BY <1>2
  <2>2. /\ line = [general |-> line.general, phases |-> line.phases, groups |-> line.groups]
        /\ line.general = Line(<<"general">>, "Total_Resizes")
        /\ line.phases = Line(<<"phase", 0>>, "Total_Iters")
        /\ line.groups = IF file.given = 0 THEN NoLine ELSE Line(<<"resize", 0>>, "Procs")
    BY <2>1 DEF FirstLines
  <2>3. line.general = GeneralLine(0)
    BY <2>2 DEF GeneralLine
  <2>4. at.group = 0 /\ at.phase = 0
    BY <1>2
  <2>5. PhaseLineOK(line.phases, 0, 0, at)
    <3>1. 0 # Phases
      BY <1>1 DEF FileOK
    <3> QED BY <2>2, <2>4, <3>1 DEF PhaseLineOK, PhaseLine
  <2>6. GroupLineOK(line.groups, 0, at)
    <3>1. 0 < file.groups /\ file.given \in Nat
      BY <1>1 DEF FileOK
    <3>2. GroupLine(0, 0) = Line(<<"resize", 0>>, "Procs")
      BY DEF GroupLine
    <3> QED BY <2>2, <2>4, <3>1, <3>2 DEF GroupLineOK
  <2>7. at.group <= file.given
    BY <1>1, <2>4 DEF FileOK
  <2> QED BY <2>2, <2>3, <2>5, <2>6, <2>7 DEF IniOK
<1>7. BeforeOK
  <2>1. pc # "loaded"
    BY <1>3
  <2>2. ReadOK
    BY <1>4, <1>5, <1>6, <2>1 DEF ReadOK
  <2> QED BY <1>2, <2>2 DEF BeforeOK
<1>8. SendOK
  BY <1>3 DEF SendOK
<1>9. NothingLost
  <2>1. Held(cfg) = Blocks(0, 0, 0, 0) \cup ReadTypes(0, 0, at)
    <3>1. StagesOn(0, at) = 0 /\ RsOn(0, at) = 0 /\ at.group = 0
      BY <1>2 DEF StagesOn, RsOn
    <3> QED BY <1>1, <1>4, <1>5, <3>1, HeldRead
  <2>2. ReadTypes(0, 0, at) = {} /\ Blocks(0, 0, 0, 0) = {<<"config">>}
    BY DEF ReadTypes, Blocks, ArraysHeld, StagesHeld, RsHeld, SsHeld
  <2>3. Held(cfg) = {<<"config">>}
    BY <2>1, <2>2
  <2> QED BY <1>2, <1>3, <2>3, HeapRead
<1> QED BY <1>1, <1>3, <1>7, <1>8, <1>9 DEF ReadInv

\* An item read.
LEMMA ItemRead ==
  ASSUME ReadInv, pc \in {"ini", "json"},
         NEW i \in 0 .. 2, NEW k \in 0 .. 2, NEW j \in 0 .. 2, NEW t \in 0 .. 2, NEW h,
         Reads(cfg, i, k, j, t, h), cfg' = h.cfg, at' = h.at, heap' = heap \cup Own("root", h.new),
         UNCHANGED <<file, pc, kid, sent>>,
         pc = "ini" => IniOK(i, k, j, t, at)', pc = "json" => t = 0 /\ j # 1
  PROVE  ReadInv'
<1>0. FileOK /\ PlaceOK /\ BeforeOK /\ SendOK /\ NothingLost
  BY DEF ReadInv
<1>1. /\ Progress(i, k, j, t, at') /\ cfg' = Read(i, k, j, t, at')
      /\ Held(cfg') = Held(cfg) \cup h.new
  BY DEF Reads, Goes
<1>2. Progress(i, k, j, t, at)' /\ (cfg = Read(i, k, j, t, at))'
  BY <1>1, SameFile
<1>3. ReadOK'
  BY <1>2 DEF ReadOK
<1>4. BeforeOK'
  BY <1>0, <1>3 DEF BeforeOK
<1>5. FileOK' /\ PlaceOK' /\ SendOK'
  <2>1. FileOK' /\ PlaceOK'
    BY <1>0, SameFile DEF PlaceOK
  <2> QED BY <2>1 DEF SendOK
<1>6. NothingLost'
  <2>1. heap = Own("root", Held(cfg))
    BY <1>0, HeapRead
  <2>2. heap' = Own("root", Held(cfg'))
    BY <1>1, <2>1, OwnUnion
  <2> QED BY <2>2 DEF NothingLost
<1> QED BY <1>4, <1>5, <1>6 DEF ReadInv

\* A line of an INI file.
LEMMA IniLineStep ==
  ASSUME ReadInv, NEW part \in {"general", "phases", "groups"}, IniLine(part)
  PROVE  ReadInv'
<1> DEFINE l == line[part]
           h == Handler(cfg, at, l)
<1>0. /\ pc = "ini" /\ l # NoLine /\ (part = "general" \/ line.general = NoLine)
      /\ cfg' = h.cfg /\ at' = h.at /\ heap' = heap \cup Own("root", h.new)
      /\ line' = [line EXCEPT ![part] = LineAfter(l)]
      /\ UNCHANGED <<file, pc, kid, sent>>
  BY DEF IniLine
<1>1. FileOK /\ ReadOK
  BY <1>0 DEF ReadInv, BeforeOK
<1>2. PICK i, k, j, t \in 0 .. 2 :
        Progress(i, k, j, t, at) /\ cfg = Read(i, k, j, t, at) /\ IniOK(i, k, j, t, at)
  BY <1>0, <1>1 DEF ReadOK
<1>3. /\ line = [general |-> line.general, phases |-> line.phases, groups |-> line.groups]
      /\ line.general = GeneralLine(i) /\ PhaseLineOK(line.phases, j, t, at)
      /\ GroupLineOK(line.groups, k, at) /\ at.group <= file.given
  BY <1>2 DEF IniOK
<1>4. CASE part = "general"
  <2>1. l = line.general
    BY <1>4
  <2>2. /\ i < 2 /\ k = 0 /\ j = 0 /\ t = 0 /\ h.at = at /\ Reads(cfg, i + 1, 0, 0, 0, h)
        /\ LineAfter(l) = GeneralLine(i + 1)
    <3> HIDE DEF l
    <3> QED BY <1>0, <1>1, <1>2, <1>3, <2>1, GeneralLineRead
  <2>3. /\ line'.general = LineAfter(l) /\ line'.phases = line.phases /\ line'.groups = line.groups
        /\ line' = [general |-> line'.general, phases |-> line'.phases, groups |-> line'.groups]
    <3> HIDE DEF l
    <3> QED BY <1>0, <1>3, <1>4
  <2> HIDE DEF l, h
  <2>4. PICK m \in 0 .. 2 : m = i + 1
    BY <2>2
  <2>5. IniOK(m, 0, 0, 0, at)'
    <3>1. line'.general = GeneralLine(m)'
      BY <2>2, <2>3, <2>4 DEF GeneralLine, Line, NoLine
    <3>2. PhaseLineOK(line.phases, 0, 0, at)' /\ GroupLineOK(line.groups, 0, at)'
      BY <1>0, <1>3, <2>2, <2>3, SameFile
    <3>3. (at.group <= file.given)'
      BY <1>0, <1>3, <2>2
    <3> QED BY <2>3, <3>1, <3>2, <3>3 DEF IniOK
  <2>6. Reads(cfg, m, 0, 0, 0, h)
    BY <2>2, <2>4
  <2> QED BY <1>0, <2>5, <2>6, ItemRead
<1>5. CASE part = "phases"
  <2>1. l = line.phases /\ line.general = NoLine
    BY <1>0, <1>5
  <2>2. i = 2
    BY <1>3, <2>1, PartsEnd
  <2>3. PICK jj, tt \in 0 .. 2 : /\ Reads(cfg, 2, k, jj, tt, h)
                                 /\ PhaseLineOK(LineAfter(l), jj, tt, h.at)
                                 /\ h.at.group = at.group
    <3> HIDE DEF l, h
    <3>1. PhaseLineOK(l, j, t, at) /\ l # NoLine
      BY <1>0, <1>3, <2>1
    <3> QED BY <1>1, <1>2, <2>2, <3>1, PhaseLineRead DEF h
  <2>4. /\ line'.phases = LineAfter(l) /\ line'.general = line.general /\ line'.groups = line.groups
        /\ line' = [general |-> line'.general, phases |-> line'.phases, groups |-> line'.groups]
    <3> HIDE DEF l
    <3> QED BY <1>0, <1>3, <1>5
  <2> HIDE DEF l, h
  <2>5. IniOK(2, k, jj, tt, at)'
    <3>1. line'.general = GeneralLine(2)'
      BY <1>3, <2>2, <2>4 DEF GeneralLine, Line, NoLine
    <3>2. PhaseLineOK(line.phases, jj, tt, at)'
      BY <1>0, <2>3, <2>4, SameFile
    <3>3. at'.group = at.group
      BY <1>0, <2>3
    <3>4. GroupLineOK(line.groups, k, at')
      BY <1>3, <3>3 DEF GroupLineOK
    <3>5. GroupLineOK(line.groups, k, at)'
      BY <1>0, <2>4, <3>4, SameFile
    <3>6. (at.group <= file.given)'
      BY <1>0, <1>3, <3>3
    <3> QED BY <2>4, <3>1, <3>2, <3>5, <3>6 DEF IniOK
  <2>6. 2 \in 0 .. 2
    OBVIOUS
  <2> QED BY <1>0, <2>3, <2>5, <2>6, ItemRead
<1>6. CASE part = "groups"
  <2>1. l = line.groups /\ line.general = NoLine
    BY <1>0, <1>6
  <2>2. i = 2
    BY <1>3, <2>1, PartsEnd
  <2>3. PICK kk \in 0 .. 2 : /\ Reads(cfg, 2, kk, j, t, h)
                             /\ GroupLineOK(LineAfter(l), kk, h.at)
                             /\ h.at.group <= file.given
                             /\ h.at.phase = at.phase /\ h.at.stage = at.stage
    <3> HIDE DEF l, h
    <3>1. GroupLineOK(l, k, at) /\ l # NoLine
      BY <1>0, <1>3, <2>1
    <3> QED BY <1>1, <1>2, <1>3, <2>2, <3>1, GroupLineRead DEF h
  <2>4. /\ line'.groups = LineAfter(l) /\ line'.general = line.general /\ line'.phases = line.phases
        /\ line' = [general |-> line'.general, phases |-> line'.phases, groups |-> line'.groups]
    <3> HIDE DEF l
    <3> QED BY <1>0, <1>3, <1>6
  <2> HIDE DEF l, h
  <2>5. IniOK(2, kk, j, t, at)'
    <3>1. line'.general = GeneralLine(2)'
      BY <1>3, <2>2, <2>4 DEF GeneralLine, Line, NoLine
    <3>2. GroupLineOK(line.groups, kk, at)'
      BY <1>0, <2>3, <2>4, SameFile
    <3>3. at'.phase = at.phase /\ at'.stage = at.stage
      BY <1>0, <2>3
    <3>4. PhaseLineOK(line.phases, j, t, at')
      BY <1>3, <3>3 DEF PhaseLineOK, PhaseLine
    <3>5. PhaseLineOK(line.phases, j, t, at)'
      BY <1>0, <2>4, <3>4, SameFile
    <3>6. (at.group <= file.given)'
      BY <1>0, <2>3
    <3> QED BY <2>4, <3>1, <3>2, <3>5, <3>6 DEF IniOK
  <2>6. 2 \in 0 .. 2
    OBVIOUS
  <2> QED BY <1>0, <2>3, <2>5, <2>6, ItemRead
<1> QED BY <1>4, <1>5, <1>6

\* The end of an INI file: all that it gives has been read.
LEMMA IniEndStep == ReadInv /\ IniEnd => ReadInv'
<1> SUFFICES ASSUME ReadInv, IniEnd PROVE ReadInv'
  OBVIOUS
<1>0. /\ pc = "ini" /\ \A part \in DOMAIN line : line[part] = NoLine
      /\ pc' = "loaded" /\ UNCHANGED <<file, line, at, cfg, kid, sent, heap>>
  BY DEF IniEnd
<1>1. FileOK /\ ReadOK /\ kid = NoConfig /\ sent = 0 /\ NothingLost
  BY <1>0 DEF ReadInv, BeforeOK
<1>2. PICK i, k, j, t \in 0 .. 2 :
        Progress(i, k, j, t, at) /\ cfg = Read(i, k, j, t, at) /\ IniOK(i, k, j, t, at)
  BY <1>0, <1>1 DEF ReadOK
<1>3. /\ line = [general |-> line.general, phases |-> line.phases, groups |-> line.groups]
      /\ line.general = GeneralLine(i) /\ line.phases = PhaseLine(j, t, at)
      /\ GroupLineOK(line.groups, k, at) /\ at.group <= file.given
  BY <1>2 DEF IniOK, PhaseLineOK
<1>4. DOMAIN line = {"general", "phases", "groups"}
  BY <1>3
<1>5. line.general = NoLine /\ line.phases = NoLine /\ line.groups = NoLine
  BY <1>0, <1>4
<1>6. i = 2 /\ at.phase = Phases
  BY <1>3, <1>5, PartsEnd
<1>7. j = 0 /\ t = 0
  BY <1>1, <1>2, <1>6 DEF Progress, FileOK
<1>8. k = 0 /\ AllRead(at)
  <2>1. /\ at.group \in Nat /\ at.group <= file.groups /\ file.groups \in Nat /\ file.given \in Nat /\ k \in 0 .. 2
        /\ (k > 0 => at.group < file.groups)
    BY <1>1, <1>2 DEF Progress, FileOK
  <2>2. CASE at.group < file.groups
    <3>1. ~(at.group < file.given) /\ k = 0
      BY <1>3, <1>5, <2>2, PartsEnd DEF GroupLineOK
    <3> QED BY <1>3, <1>6, <2>1, <3>1 DEF AllRead
  <2>3. CASE at.group = file.groups
    BY <1>3, <1>6, <2>1, <2>3 DEF AllRead
  <2> QED BY <2>1, <2>2, <2>3
<1>9. ReadOK'
  <2>1. Progress(2, 0, 0, 0, at) /\ cfg = Read(2, 0, 0, 0, at)
    BY <1>2, <1>6, <1>7, <1>8
  <2>2. Progress(2, 0, 0, 0, at)' /\ (cfg = Read(2, 0, 0, 0, at))' /\ AllRead(at)'
    BY <1>0, <1>8, <2>1, SameFile, SameDeclared
  <2>3. 0 \in 0 .. 2 /\ 2 \in 0 .. 2
    OBVIOUS
  <2> QED BY <1>0, <2>2, <2>3 DEF ReadOK
<1>10. NothingLost'
  <2>1. heap = Own("root", Held(cfg))
    BY <1>0, <1>1, HeapRead
  <2> QED BY <1>0, <2>1 DEF NothingLost
<1>11. FileOK'
  BY <1>0, <1>1, SameFile
<1> QED BY <1>0, <1>1, <1>9, <1>10, <1>11 DEF ReadInv, BeforeOK, SendOK, PlaceOK

\* The items of a JSON file, given the place in it.
LEMMA JsonStep ==
  ASSUME ReadInv, NEW c, NEW b, NEW new, Json(c, b, new),
         NEW i \in 0 .. 2, NEW k \in 0 .. 2, NEW j \in 0 .. 2, j # 1, Reads(cfg, i, k, j, 0, Outcome(c, b, new))
  PROVE  ReadInv'
<1> DEFINE h == Outcome(c, b, new)
<1>1. /\ pc = "json" /\ cfg' = h.cfg /\ at' = h.at /\ heap' = heap \cup Own("root", h.new)
      /\ UNCHANGED <<file, pc, kid, sent>>
  BY OutcomeIs DEF Json
<1> HIDE DEF h
<1>2. Reads(cfg, i, k, j, 0, h)
  BY DEF h
<1>3. 0 \in 0 .. 2
  OBVIOUS
<1> QED BY <1>1, <1>2, <1>3, ItemRead

\* A step of the JSON reader.
LEMMA JsonSteps ==
  ASSUME ReadInv, \/ JsonResizes \/ JsonPhases \/ JsonPhase \/ JsonStage
                  \/ JsonGroup \/ JsonRedistribution \/ JsonSpawn
  PROVE  ReadInv'
<1>0. pc = "json"
  BY DEF JsonResizes, JsonPhases, JsonPhase, JsonStage, JsonGroup, JsonRedistribution, JsonSpawn, Json
<1>1. FileOK /\ ReadOK
  BY <1>0 DEF ReadInv, BeforeOK
<1>2. PICK i, k, j, t \in 0 .. 2 :
        Progress(i, k, j, t, at) /\ cfg = Read(i, k, j, t, at) /\ t = 0 /\ j # 1
  BY <1>0, <1>1 DEF ReadOK
<1>3. /\ cfg.groups = <<>> <=> i = 0
      /\ cfg.phases = <<>> <=> i < 2
      /\ i = 2 => cfg.n_groups = file.groups /\ cfg.n_phases = Phases
      /\ i = 2 /\ at.phase < Phases => (cfg.phases[at.phase + 1].stages = <<>> <=> j # 2)
  BY <1>1, <1>2, ReadTells
<1>4. 0 \in 0 .. 2 /\ 1 \in 0 .. 2 /\ 2 \in 0 .. 2 /\ 0 # 1 /\ 2 # 1
  OBVIOUS
<1>5. CASE JsonResizes
  <2>1. cfg.groups = <<>> /\ Json(MallocResizes([cfg EXCEPT !.n_groups = file.groups]), at, {<<"groups">>, <<"group_type">>})
    BY <1>5 DEF JsonResizes
  <2>2. Reads(cfg, 1, 0, 0, 0, Outcome(MallocResizes([cfg EXCEPT !.n_groups = file.groups]), at, {<<"groups">>, <<"group_type">>}))
    BY <1>1, <1>2, <2>1, JsonGeneralRead
  <2> QED BY <1>4, <2>1, <2>2, JsonStep
<1>6. CASE JsonPhases
  <2>1. /\ cfg.groups # <<>> /\ cfg.phases = <<>>
        /\ Json(MallocPhases([cfg EXCEPT !.n_phases = Phases]), at, {<<"phases">>, <<"phase_type">>})
    BY <1>6 DEF JsonPhases, Phases
  <2>2. Reads(cfg, 2, 0, 0, 0, Outcome(MallocPhases([cfg EXCEPT !.n_phases = Phases]), at, {<<"phases">>, <<"phase_type">>}))
    BY <1>1, <1>2, <2>1, JsonGeneralRead
  <2> QED BY <1>4, <2>1, <2>2, JsonStep
<1>7. CASE JsonPhase
  <2> DEFINE p == at.phase + 1
             c == MallocStages(SetIters(cfg, p, Value(<<"phase", at.phase>>, "Total_Iters")), p, StagesOf(p))
             b == [at EXCEPT !.stage = 0]
             new == {<<"stages", p>>, <<"stage_type">>}
  <2>1. /\ cfg.phases # <<>> /\ at.phase < cfg.n_phases /\ cfg.phases[p].stages = <<>> /\ Json(c, b, new)
    BY <1>7 DEF JsonPhase, SetIters, StagesOf
  <2>2. i = 2 /\ at.phase < Phases /\ j = 0
    BY <1>2, <1>3, <2>1
  <2>3. Reads(cfg, 2, k, 2, 0, Outcome(c, b, new))
    BY <1>1, <1>2, <2>2, JsonPhaseRead
  <2> HIDE DEF c, b, new
  <2> QED BY <1>4, <2>1, <2>3, JsonStep
<1>8. CASE JsonStage
  <2> DEFINE p == at.phase + 1
             s == at.stage + 1
             x == [type |-> Value(<<"stage", at.phase, at.stage>>, "Stage_Type"),
                   time |-> Value(<<"stage", at.phase, at.stage>>, "Stage_Time"),
                   gran |-> IF <<at.phase, at.stage>> \in file.gran
                              THEN Value(<<"stage", at.phase, at.stage>>, "Granularity") ELSE cfg.phases[p].stages[s].gran]
  <2>1. /\ cfg.phases # <<>> /\ at.phase < cfg.n_phases /\ cfg.phases[p].stages # <<>>
        /\ Json(SetStage(cfg, p, s, x), StageEnds(cfg, at), {})
    BY <1>8 DEF JsonStage, SetStage
  <2>2. i = 2 /\ at.phase < Phases /\ j = 2
    BY <1>2, <1>3, <2>1
  <2>3. PICK jj \in {0, 2} : Reads(cfg, 2, k, jj, 0, Outcome(SetStage(cfg, p, s, x), StageEnds(cfg, at), {}))
    BY <1>1, <1>2, <2>2, JsonStageRead
  <2>4. jj \in 0 .. 2 /\ jj # 1
    OBVIOUS
  <2> HIDE DEF p, s, x
  <2> QED BY <1>4, <2>1, <2>3, <2>4, JsonStep
<1>9. CASE JsonGroup \/ JsonRedistribution \/ JsonSpawn
  <2> DEFINE g == at.group + 1
  <2>1. InGroups
    BY <1>9 DEF JsonGroup, JsonRedistribution, JsonSpawn
  <2>2. i = 2 /\ at.phase = Phases /\ at.group < file.groups
    BY <1>3, <2>1 DEF InGroups
  <2>3. j = 0
    BY <1>1, <1>2, <2>2 DEF Progress, FileOK
  <2>4. CASE JsonGroup
    <3>1. cfg.groups[g].procs = <<>> /\ Json(SetProcs(cfg, g, Value(<<"resize", at.group>>, "Procs")), at, {})
      BY <2>4 DEF JsonGroup, GroupOf, SetProcs
    <3>2. Reads(cfg, 2, 1, 0, 0, Outcome(SetProcs(cfg, g, Value(<<"resize", at.group>>, "Procs")), at, {}))
      BY <1>1, <1>2, <2>2, <2>3, <3>1, JsonGroupRead
    <3> HIDE DEF g
    <3> QED BY <1>4, <3>1, <3>2, JsonStep
  <2>5. CASE JsonRedistribution
    <3>1. /\ cfg.groups[g].procs # <<>> /\ cfg.groups[g].rs = <<>>
          /\ Json(SetRs(cfg, g, Value(<<"resize", at.group>>, "Redistribution_Strategy")), at, {<<"rs", g>>})
      BY <2>5 DEF JsonRedistribution, GroupOf, SetRs
    <3>2. Reads(cfg, 2, 2, 0, 0, Outcome(SetRs(cfg, g, Value(<<"resize", at.group>>, "Redistribution_Strategy")), at, {<<"rs", g>>}))
      BY <1>1, <1>2, <2>2, <2>3, <3>1, JsonGroupRead
    <3> HIDE DEF g
    <3> QED BY <1>4, <3>1, <3>2, JsonStep
  <2>6. CASE JsonSpawn
    <3>1. /\ cfg.groups[g].rs # <<>>
          /\ Json(SetSs(cfg, g, Value(<<"resize", at.group>>, "Spawn_Strategy")), NextGroup(at), {<<"ss", g>>})
      BY <2>6 DEF JsonSpawn, GroupOf, SetSs, NextGroup
    <3>2. Reads(cfg, 2, 0, 0, 0, Outcome(SetSs(cfg, g, Value(<<"resize", at.group>>, "Spawn_Strategy")), NextGroup(at), {<<"ss", g>>}))
      BY <1>1, <1>2, <2>2, <2>3, <3>1, JsonGroupRead
    <3> HIDE DEF g
    <3> QED BY <1>4, <3>1, <3>2, JsonStep
  <2> QED BY <1>9, <2>4, <2>5, <2>6
<1> QED BY <1>5, <1>6, <1>7, <1>8, <1>9

\* The JSON reader gives up: what it frees leaves only datatypes.
LEMMA JsonRejectStep == ReadInv /\ JsonReject => ReadInv'
<1> SUFFICES ASSUME ReadInv, JsonReject PROVE ReadInv'
  OBVIOUS
<1>0. /\ pc = "json" /\ pc' = "rejected" /\ heap' = heap \ Own("root", FreeConfigPartial(cfg))
      /\ UNCHANGED <<file, line, at, cfg, kid, sent>>
  BY DEF JsonReject, Unreadable
<1>1. FileOK /\ ReadOK /\ kid = NoConfig /\ sent = 0 /\ NothingLost
  BY <1>0 DEF ReadInv, BeforeOK
<1>2. PICK i, k, j, t \in 0 .. 2 : Progress(i, k, j, t, at) /\ cfg = Read(i, k, j, t, at)
  BY <1>0, <1>1 DEF ReadOK
<1>3. ReadOK'
  <2>1. Progress(i, k, j, t, at)' /\ (cfg = Read(i, k, j, t, at))'
    BY <1>0, <1>2, SameFile
  <2> QED BY <1>0, <2>1 DEF ReadOK
<1>4. NothingLost'
  <2> DEFINE b == Blocks(i, StagesOn(j, at), RsOn(k, at), at.group)
             y == ReadTypes(i, j, at)
  <2>1. Held(cfg) = b \cup y /\ FreeConfigPartial(cfg) = b
    BY <1>1, <1>2, HeldRead
  <2>2. cfg.types = y
    BY <1>2, ConfigFields DEF Read
  <2>3. b \cap y = {}
    BY TypesApart, ReadTypesAre
  <2>4. heap = Own("root", Held(cfg))
    BY <1>0, <1>1, HeapRead
  <2> HIDE DEF b, y
  <2>5. (b \cup y) \ b = y
    BY <2>3
  <2>6. heap' = Own("root", cfg.types)
    BY <1>0, <2>1, <2>2, <2>4, <2>5, OwnGiven
  <2> QED BY <1>0, <2>6 DEF NothingLost
<1>5. FileOK'
  BY <1>0, <1>1, SameFile
<1> QED BY <1>0, <1>1, <1>3, <1>4, <1>5 DEF ReadInv, BeforeOK, SendOK, PlaceOK

\* The end of a JSON file.
LEMMA JsonEndStep == ReadInv /\ JsonEnd => ReadInv'
<1> SUFFICES ASSUME ReadInv, JsonEnd PROVE ReadInv'
  OBVIOUS
<1>0. /\ pc = "json" /\ cfg.phases # <<>> /\ at.phase = cfg.n_phases /\ at.group = cfg.n_groups
      /\ pc' = "loaded" /\ UNCHANGED <<file, line, at, cfg, kid, sent, heap>>
  BY DEF JsonEnd
<1>1. FileOK /\ ReadOK /\ kid = NoConfig /\ sent = 0 /\ NothingLost /\ file.form = "json"
  BY <1>0 DEF ReadInv, BeforeOK, PlaceOK
<1>2. PICK i, k, j, t \in 0 .. 2 : Progress(i, k, j, t, at) /\ cfg = Read(i, k, j, t, at) /\ t = 0 /\ j # 1
  BY <1>0, <1>1 DEF ReadOK
<1>3. i = 2 /\ at.phase = Phases /\ at.group = file.groups
  <2>1. /\ cfg.phases = <<>> <=> i < 2
        /\ i = 2 => cfg.n_groups = file.groups /\ cfg.n_phases = Phases
    BY <1>1, <1>2, ReadTells
  <2> QED BY <1>0, <2>1
<1>4. j = 0 /\ k = 0 /\ AllRead(at)
  BY <1>1, <1>2, <1>3 DEF Progress, FileOK, AllRead
<1>9. ReadOK'
  <2>1. Progress(2, 0, 0, 0, at) /\ cfg = Read(2, 0, 0, 0, at)
    BY <1>2, <1>3, <1>4
  <2>2. Progress(2, 0, 0, 0, at)' /\ (cfg = Read(2, 0, 0, 0, at))' /\ AllRead(at)'
    BY <1>0, <1>4, <2>1, SameFile, SameDeclared
  <2>3. 0 \in 0 .. 2 /\ 2 \in 0 .. 2
    OBVIOUS
  <2> QED BY <1>0, <2>2, <2>3 DEF ReadOK
<1>10. NothingLost'
  <2>1. heap = Own("root", Held(cfg))
    BY <1>0, <1>1, HeapRead
  <2> QED BY <1>0, <2>1 DEF NothingLost
<1>11. FileOK'
  BY <1>0, <1>1, SameFile
<1> QED BY <1>0, <1>1, <1>9, <1>10, <1>11 DEF ReadInv, BeforeOK, SendOK, PlaceOK

\* init_config: the first group has what the file declares.
LEMMA InitConfigStep == ReadInv /\ InitConfig => ReadInv'
<1> SUFFICES ASSUME ReadInv, InitConfig PROVE ReadInv'
  OBVIOUS
<1>0. /\ pc = "loaded" /\ pc' = "send"
      /\ cfg' = Define(Define(CheckGranularity(cfg), <<"config_type">>), <<"group_strats_type">>)
      /\ kid' = Define(kid, <<"config_type">>)
      /\ heap' = heap \cup Own("root", {<<"config_type">>, <<"group_strats_type">>})
                      \cup Own("kid", {<<"config">>, <<"config_type">>})
      /\ UNCHANGED <<file, line, at, sent>>
  BY DEF InitConfig
<1>1. FileOK /\ ReadOK /\ kid = NoConfig /\ sent = 0 /\ NothingLost
  BY <1>0 DEF ReadInv, BeforeOK
<1>2. cfg = Read(2, 0, 0, 0, at) /\ Progress(2, 0, 0, 0, at) /\ AllRead(at)
  BY <1>0, <1>1 DEF ReadOK
<1>3. cfg' = Declared /\ Held(Declared) = Held(cfg) \cup {<<"config_type">>, <<"group_strats_type">>}
  BY <1>0, <1>1, <1>2, LoadedIs
<1>4. kid' = KidIs(0) /\ Held(KidIs(0)) = {<<"config">>, <<"config_type">>}
  BY <1>0, <1>1, KidFirst
<1>5. FileOK' /\ Declared' = Declared /\ Phases' = Phases /\ (\A n : KidIs(n)' = KidIs(n))
  BY <1>0, <1>1, SameFile, SameDeclared
<1>6. NothingLost'
  <2>1. heap = Own("root", Held(cfg))
    BY <1>0, <1>1, HeapRead
  <2>2. heap' = Own("root", Held(cfg')) \cup Own("kid", Held(kid'))
    BY <1>0, <1>3, <1>4, <2>1, OwnUnion
  <2> QED BY <1>0, <2>2 DEF NothingLost
<1>7. SendOK'
  <2>1. cfg' = Declared' /\ (kid = KidIs(sent))'
    BY <1>0, <1>1, <1>3, <1>4, <1>5
  <2>2. sent' \in 0 .. Phases' + 4
    BY <1>0, <1>1, <1>5 DEF FileOK
  <2> QED BY <1>0, <2>1, <2>2 DEF SendOK
<1> QED BY <1>0, <1>5, <1>6, <1>7 DEF ReadInv, BeforeOK, PlaceOK

\* A broadcast.
LEMMA BroadcastStep == ReadInv /\ Broadcast => ReadInv'
<1> SUFFICES ASSUME ReadInv, Broadcast PROVE ReadInv'
  OBVIOUS
<1>0. /\ pc = "send" /\ sent < Len(Broadcasts(cfg)) /\ sent' = sent + 1 /\ kid' = Receive(sent + 1)
      /\ heap' = heap \cup Own("kid", Held(Receive(sent + 1)) \ Held(kid))
      /\ UNCHANGED <<file, pc, line, at, cfg>>
  BY DEF Broadcast
<1>1. FileOK /\ cfg = Declared /\ sent \in 0 .. Phases + 4 /\ kid = KidIs(sent) /\ NothingLost
  BY <1>0 DEF ReadInv, SendOK
<1>2. sent \in 0 .. Phases + 3 /\ sent + 1 \in 0 .. Phases + 4
  <2>1. Len(Broadcasts(cfg)) = Phases + 4 /\ Phases \in Nat
    BY <1>1, BroadcastsAre DEF FileOK
  <2> QED BY <1>0, <1>1, <2>1
<1>3. PICK n \in 0 .. Phases + 3 : n = sent
  BY <1>2
<1>4. kid' = KidIs(n + 1) /\ Held(kid) \subseteq Held(kid')
  <2>1. Receive(n + 1) = KidIs(n + 1)
    BY <1>1, <1>3, ReceiveIs
  <2>2. Held(KidIs(n)) \subseteq Held(KidIs(n + 1))
    BY <1>1, KidGrows
  <2> QED BY <1>0, <1>1, <1>3, <2>1, <2>2
<1>5. FileOK' /\ Declared' = Declared /\ Phases' = Phases /\ (\A m : KidIs(m)' = KidIs(m))
  BY <1>0, <1>1, SameFile, SameDeclared
<1>6. NothingLost'
  <2>1. heap = Own("root", Held(cfg)) \cup Own("kid", Held(kid))
    BY <1>0, <1>1 DEF NothingLost
  <2>2. heap' = Own("root", Held(cfg)) \cup (Own("kid", Held(kid)) \cup Own("kid", Held(kid') \ Held(kid)))
    BY <1>0, <2>1
  <2>3. Held(kid) \cup (Held(kid') \ Held(kid)) = Held(kid')
    BY <1>4
  <2>4. heap' = Own("root", Held(cfg')) \cup Own("kid", Held(kid'))
    BY <1>0, <2>2, <2>3, OwnUnion
  <2> QED BY <1>0, <2>4 DEF NothingLost
<1>7. SendOK'
  <2>1. cfg' = Declared'
    BY <1>0, <1>1, <1>5
  <2>2. sent' = n + 1 /\ (kid = KidIs(sent))'
    BY <1>0, <1>3, <1>4, <1>5
  <2>3. sent' \in 0 .. Phases' + 4
    BY <1>0, <1>2, <1>5
  <2> QED BY <1>0, <2>1, <2>2, <2>3 DEF SendOK
<1> QED BY <1>0, <1>5, <1>6, <1>7 DEF ReadInv, BeforeOK, PlaceOK

\* Both groups end.
LEMMA FreeStep == ReadInv /\ Free => ReadInv'
<1> SUFFICES ASSUME ReadInv, Free PROVE ReadInv'
  OBVIOUS
<1>0. /\ pc = "send" /\ sent = Len(Broadcasts(cfg)) /\ pc' = "done"
      /\ heap' = heap \ (Own("root", FreeConfig(cfg)) \cup Own("kid", FreeConfig(kid)))
      /\ UNCHANGED <<file, line, at, cfg, kid, sent>>
  BY DEF Free
<1>1. FileOK /\ cfg = Declared /\ sent \in 0 .. Phases + 4 /\ kid = KidIs(sent) /\ NothingLost
  BY <1>0 DEF ReadInv, SendOK
<1>2. sent = Phases + 4 /\ Phases \in Nat
  BY <1>0, <1>1, BroadcastsAre DEF FileOK
<1>3. cfg.types = Types /\ kid.types = Types
  <2>1. cfg.types = Types
    BY <1>1, DeclaredIs, ConfigFields
  <2>2. kid.types = KidTypes(Phases + 4)
    BY <1>1, <1>2, ConfigFields DEF KidIs
  <2>3. KidTypes(Phases + 4) = Types
    BY <1>2 DEF KidTypes, Types
  <2> QED BY <2>1, <2>2, <2>3
<1>4. Held(cfg) = FreeConfig(cfg) /\ Held(kid) = FreeConfig(kid)
  BY <1>3 DEF Held, FreeConfig
<1>5. FileOK' /\ Declared' = Declared /\ Phases' = Phases /\ (\A m : KidIs(m)' = KidIs(m))
  BY <1>0, <1>1, SameFile, SameDeclared
<1>6. NothingLost'
  <2>1. heap = Own("root", Held(cfg)) \cup Own("kid", Held(kid))
    BY <1>0, <1>1 DEF NothingLost
  <2>2. heap' = {}
    BY <1>0, <1>4, <2>1
  <2> QED BY <1>0, <2>2 DEF NothingLost
<1>7. SendOK'
  <2>1. cfg' = Declared' /\ (kid = KidIs(sent))' /\ (sent \in 0 .. Phases + 4)' /\ sent' = Phases' + 4
    BY <1>0, <1>1, <1>2, <1>5
  <2> QED BY <2>1 DEF SendOK
<1> QED BY <1>0, <1>5, <1>6, <1>7 DEF ReadInv, BeforeOK, PlaceOK

\* Every step.
LEMMA ReadNext == ReadInv /\ [Next]_vars => ReadInv'
<1> SUFFICES ASSUME ReadInv, [Next]_vars PROVE ReadInv'
  OBVIOUS
<1>1. ASSUME NEW part \in {"general", "phases", "groups"}, IniLine(part) PROVE ReadInv'
  BY <1>1, IniLineStep
<1>2. CASE IniEnd
  BY <1>2, IniEndStep
<1>3. CASE \/ JsonResizes \/ JsonPhases \/ JsonPhase \/ JsonStage \/ JsonGroup \/ JsonRedistribution \/ JsonSpawn
  BY <1>3, JsonSteps
<1>4. CASE JsonReject
  BY <1>4, JsonRejectStep
<1>5. CASE JsonEnd
  BY <1>5, JsonEndStep
<1>6. CASE InitConfig
  BY <1>6, InitConfigStep
<1>7. CASE Broadcast
  BY <1>7, BroadcastStep
<1>8. CASE Free
  BY <1>8, FreeStep
<1>9. CASE UNCHANGED vars
  <2>1. UNCHANGED <<file, pc, line, at, cfg, kid, sent, heap>>
    BY <1>9 DEF vars
  <2>2. FileOK' /\ Declared' = Declared /\ Phases' = Phases /\ (\A m : KidIs(m)' = KidIs(m))
    BY <2>1, SameFile, SameDeclared DEF ReadInv
  <2>3. ReadOK => ReadOK'
    <3> SUFFICES ASSUME ReadOK PROVE ReadOK'
      OBVIOUS
    <3>1. PICK i, k, j, t \in 0 .. 2 :
            /\ Progress(i, k, j, t, at)
            /\ cfg = Read(i, k, j, t, at)
            /\ pc = "ini" => IniOK(i, k, j, t, at)
            /\ pc = "json" => t = 0 /\ j # 1
            /\ pc = "loaded" => i = 2 /\ k = 0 /\ j = 0 /\ t = 0 /\ AllRead(at)
      BY DEF ReadOK
    <3>2. Progress(i, k, j, t, at)' /\ (cfg = Read(i, k, j, t, at))' /\ (AllRead(at) => AllRead(at)')
      BY <2>1, <3>1, SameFile, SameDeclared
    <3>3. IniOK(i, k, j, t, at) => IniOK(i, k, j, t, at)'
      <4> SUFFICES ASSUME IniOK(i, k, j, t, at) PROVE IniOK(i, k, j, t, at)'
        OBVIOUS
      <4>1. /\ line = [general |-> line.general, phases |-> line.phases, groups |-> line.groups]
            /\ line.general = GeneralLine(i) /\ PhaseLineOK(line.phases, j, t, at)
            /\ GroupLineOK(line.groups, k, at) /\ at.group <= file.given
        BY DEF IniOK
      <4>2. PhaseLineOK(line.phases, j, t, at)' /\ GroupLineOK(line.groups, k, at)'
        BY <2>1, <4>1, SameFile
      <4>3. line'.general = GeneralLine(i)'
        BY <2>1, <4>1 DEF GeneralLine, Line, NoLine
      <4> QED BY <2>1, <4>1, <4>2, <4>3 DEF IniOK
    <3> QED BY <2>1, <3>1, <3>2, <3>3 DEF ReadOK
  <2>4. BeforeOK'
    BY <2>1, <2>3 DEF ReadInv, BeforeOK
  <2>5. SendOK'
    <3>1. SendOK
      BY DEF ReadInv
    <3>2. (kid = KidIs(sent)) => (kid = KidIs(sent))'
      BY <2>1, <2>2
    <3> QED BY <2>1, <2>2, <3>1, <3>2 DEF SendOK
  <2>6. NothingLost'
    BY <2>1 DEF ReadInv, NothingLost
  <2>7. PlaceOK'
    BY <2>1 DEF ReadInv, PlaceOK
  <2> QED BY <2>2, <2>4, <2>5, <2>6, <2>7 DEF ReadInv
<1> QED BY <1>1, <1>2, <1>3, <1>4, <1>5, <1>6, <1>7, <1>8, <1>9 DEF Next, Stopped

\* The invariant of the readers, of init_config and of the broadcasts.
THEOREM ReadInvariant == Spec => []ReadInv
<1> QED BY ReadInit, ReadNext, PTL DEF Spec

\* Faithful: whatever the file and its form, and wherever the groups come among the
\* phases, each in the order of its index, the first group has what the file
\* declares, and the children what is declared for them.
THEOREM FaithfulToTheFile == Spec => []Faithful
<1>1. ReadInv => Faithful
  <2> SUFFICES ASSUME ReadInv PROVE Faithful
    OBVIOUS
  <2>1. pc \in {"send", "done"} => cfg = Declared
    BY DEF ReadInv, SendOK
  <2>2. pc = "done" => kid = DeclaredToKids
    BY KidIsDeclared DEF ReadInv, SendOK
  <2> QED BY <2>1, <2>2 DEF Faithful
<1> QED BY <1>1, ReadInvariant, PTL

\* NothingLost: no block and no datatype is lost, at whatever item the JSON reader
\* gives up.
THEOREM NothingIsLost == Spec => []NothingLost
<1>1. ReadInv => NothingLost
  BY DEF ReadInv
<1> QED BY <1>1, ReadInvariant, PTL

-----------------------------------------------------------------------------
(* The configuration that is set and checked. *)

\* A strategy added to a set that has no exclusive pair leaves none.
LEMMA SpawnStaysExclusive ==
  ASSUME NEW S \in SUBSET SpawnNames, NEW o \in 0 .. 5,
         "PARALLEL" \in S => S \intersect {"SINGLE", "MULTIPLE"} = {}
  PROVE  /\ SetSpawnStrat(S, o) \subseteq SpawnNames
         /\ "PARALLEL" \in SetSpawnStrat(S, o) =>
              SetSpawnStrat(S, o) \intersect {"SINGLE", "MULTIPLE"} = {}
<1>1. CASE o = 0
  BY <1>1 DEF SetSpawnStrat
<1>2. CASE o \in 1 .. 5
  <2>1. SpawnStrats[o] \in {"PTHREAD", "SINGLE", "INTERCOMM", "MULTIPLE", "PARALLEL"}
    BY <1>2 DEF SpawnStrats
  <2>2. SpawnStrats[o] \in SpawnNames
    BY <1>2 DEF SpawnNames
  <2> QED
    BY <1>2, <2>1, <2>2 DEF SetSpawnStrat, SpawnExcludes
<1> QED
  BY <1>1, <1>2

\* A redistribution strategy replaces the one that was set.
LEMMA RedIsOne ==
  ASSUME NEW S, NEW o \in 0 .. 3
  PROVE  SetRedStrat(S, o) \subseteq RedNames /\ \A a, b \in SetRedStrat(S, o) : a = b
BY DEF SetRedStrat, RedStrats, RedNames

\* What the keys hold after any call of a setter.
LEMMA Setters ==
  ASSUME TypeOK, Exclusive, NEW o \in Arguments
  PROVE  /\ NewMethod(o) \in {"BASELINE", "MERGE"}
         /\ NewRedMethod(o) \in {"BASELINE", "POINT", "RMA_LOCK", "RMA_LOCKALL"}
         /\ NewSpawn(o) \subseteq SpawnNames
         /\ "PARALLEL" \in NewSpawn(o) => NewSpawn(o) \intersect {"SINGLE", "MULTIPLE"} = {}
         /\ NewRed(o) \subseteq RedNames
         /\ \A a, b \in NewRed(o) : a = b
<1>1. NewMethod(o) \in {"BASELINE", "MERGE"}
  BY DEF NewMethod, Methods, TypeOK
<1>2. NewRedMethod(o) \in {"BASELINE", "POINT", "RMA_LOCK", "RMA_LOCKALL"}
  BY DEF NewRedMethod, RedMethods, TypeOK
<1>3. /\ NewSpawn(o) \subseteq SpawnNames
      /\ "PARALLEL" \in NewSpawn(o) => NewSpawn(o) \intersect {"SINGLE", "MULTIPLE"} = {}
  BY SpawnStaysExclusive DEF NewSpawn, TypeOK, Exclusive
<1>4. NewRed(o) \subseteq RedNames /\ \A a, b \in NewRed(o) : a = b
  BY RedIsOne DEF NewRed, TypeOK, Exclusive
<1> QED
  BY <1>1, <1>2, <1>3, <1>4

\* The three invariants together: each is preserved with the help of the others.
ConfigInv == TypeOK /\ Exclusive /\ Admissible

\* What MAM_Init sets is admissible.
LEMMA SettingsBegin == SettingsInit => ConfigInv
<1> SUFFICES ASSUME SettingsInit PROVE ConfigInv
  OBVIOUS
<1>1. method \in {"BASELINE", "MERGE"}
  BY DEF SettingsInit, Methods
<1>2. redMethod \in {"BASELINE", "POINT", "RMA_LOCK", "RMA_LOCKALL"}
  BY DEF SettingsInit, RedMethods
<1>3. spawn \subseteq SpawnNames /\ ("PARALLEL" \in spawn => spawn \intersect {"SINGLE", "MULTIPLE"} = {})
  BY SpawnStaysExclusive DEF SettingsInit
<1>4. red \subseteq RedNames /\ \A a, b \in red : a = b
  BY RedIsOne DEF SettingsInit
<1> QED
  BY <1>1, <1>2, <1>3, <1>4 DEF SettingsInit, ConfigInv, TypeOK, Exclusive, Admissible

\* MAM_Check_configuration establishes Admissible from any configuration.
LEMMA StartAdmissible == ConfigInv /\ Start => ConfigInv'
<1> SUFFICES ASSUME ConfigInv, Start PROVE ConfigInv'
  OBVIOUS
<1>1. PICK inter \in BOOLEAN :
        internode' = inter /\ method' = CheckedMethod(inter) /\ spawn' = CheckedSpawn(inter)
  BY DEF Start
<1>2. spawn' \subseteq spawn
  BY <1>1 DEF CheckedSpawn
<1>3. CASE redMethod \in {"RMA_LOCK", "RMA_LOCKALL"} /\ red \intersect {"WAIT_TARGETS", "PTHREAD"} = {}
  <2>1. red' = {"WAIT_TARGETS"}
    BY <1>3 DEF Start, CheckedRed, SetRedStrat, RedStrats
  <2>2. "WAIT_TARGETS" \in RedNames
    BY DEF RedNames, RedStrats
  <2>3. TypeOK'
    BY <1>1, <1>2, <2>1, <2>2 DEF ConfigInv, TypeOK, Start, CheckedMethod
  <2>4. Exclusive'
    BY <1>2, <2>1 DEF ConfigInv, Exclusive
  <2>5. Admissible'
    BY <1>1, <2>1 DEF ConfigInv, TypeOK, Start, Admissible, CheckedMethod, CheckedSpawn
  <2> QED
    BY <2>3, <2>4, <2>5 DEF ConfigInv
<1>4. CASE ~(redMethod \in {"RMA_LOCK", "RMA_LOCKALL"} /\ red \intersect {"WAIT_TARGETS", "PTHREAD"} = {})
  <2>1. red' = red
    BY <1>4 DEF Start, CheckedRed
  <2>2. TypeOK'
    BY <1>1, <1>2, <2>1 DEF ConfigInv, TypeOK, Start, CheckedMethod
  <2>3. Exclusive'
    BY <1>2, <2>1 DEF ConfigInv, Exclusive
  <2>4. Admissible'
    BY <1>1, <1>4, <2>1 DEF ConfigInv, TypeOK, Start, Admissible, CheckedMethod, CheckedSpawn
  <2> QED
    BY <2>2, <2>3, <2>4 DEF ConfigInv
<1> QED
  BY <1>3, <1>4

\* Every step.
LEMMA SettingsStep == ConfigInv /\ [SettingsNext]_settings => ConfigInv'
<1> SUFFICES ASSUME ConfigInv, [SettingsNext]_settings PROVE ConfigInv'
  OBVIOUS
<1>1. ASSUME NEW m \in Arguments, NEW s \in Arguments, NEW rm \in Arguments, NEW rs \in Arguments,
             SetConfiguration(m, s, rm, rs)
      PROVE  ConfigInv'
  BY <1>1, Setters DEF SetConfiguration, ConfigInv, TypeOK, Exclusive, Admissible
<1>2. ASSUME NEW o \in Arguments, SetKey(o)
      PROVE  ConfigInv'
  BY <1>2, Setters DEF SetKey, ConfigInv, TypeOK, Exclusive, Admissible
<1>3. ASSUME NEW n \in Procs, SetTargetNumber(n)
      PROVE  ConfigInv'
  BY <1>3 DEF SetTargetNumber, conf, ConfigInv, TypeOK, Exclusive, Admissible
<1>4. CASE Start
  BY <1>4, StartAdmissible
<1>5. CASE Commit
  BY <1>5 DEF Commit, conf, ConfigInv, TypeOK, Exclusive, Admissible
<1>6. CASE UNCHANGED settings
  BY <1>6 DEF settings, conf, ConfigInv, TypeOK, Exclusive, Admissible
<1> QED
  BY <1>1, <1>2, <1>3, <1>4, <1>5, <1>6 DEF SettingsNext

\* The configuration that is set, at every step.
LEMMA ConfigInvariance == SettingsSpec => []ConfigInv
<1> QED
  BY SettingsBegin, SettingsStep, PTL DEF SettingsSpec

\* No sequence of calls to the setters leaves two strategies that exclude each other.
THEOREM StrategiesExclusive == SettingsSpec => []Exclusive
<1>1. ConfigInv => Exclusive
  BY DEF ConfigInv
<1> QED
  BY <1>1, ConfigInvariance, PTL

\* A reconfiguration runs with a configuration its stages can carry out.
THEOREM AlwaysAdmissible == SettingsSpec => []Admissible
<1>1. ConfigInv => Admissible
  BY DEF ConfigInv
<1> QED
  BY <1>1, ConfigInvariance, PTL
=============================================================================
