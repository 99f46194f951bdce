---------------------------- MODULE StagesProofs ----------------------------
(***************************************************************************)
(* The emulation, for any groups, stages that the configuration may have,  *)
(* costs and numbers of iterations.  When no rank can be misled alone, by  *)
(* a file that does not open or by the uninitialised flag of the wait that *)
(* calibrates, the ranks meet in the same collective calls and do the same *)
(* work.  When no other wait is limited by time either, no rank loses a    *)
(* request.                                                                *)
(***************************************************************************)
EXTENDS Stages, SequenceTheorems, TLAPS

-----------------------------------------------------------------------------
(* The configuration and the memory of a process. *)

N == Len(plan.stages)
Kinds == {"compute", "point", "collective", "gather", "ipoint", "wait", "write", "read"}

PlanOK ==
  /\ plan.stages \in Seq([kind : Kinds, id : Nat, bytes : Nat, capped : BOOLEAN, involved : Nat])
  /\ plan.procs[1] \in Nat \ {0} /\ plan.procs[2] \in Nat \ {0}
  /\ plan.factors[1] \in Nat \ {0} /\ plan.factors[2] \in Nat \ {0}
  /\ plan.merge \in BOOLEAN /\ plan.rigid \in BOOLEAN

\* The processes of each group and those spawned for the second.
CommOf(g) ==
  IF g = 1 THEN [r \in 1 .. plan.procs[1] |-> r]
  ELSE [r \in 1 .. plan.procs[2] |-> IF Merge THEN r ELSE plan.procs[1] + r]
KidsOf ==
  [r \in 1 .. (IF Merge THEN plan.procs[2] - plan.procs[1] ELSE plan.procs[2]) |-> plan.procs[1] + r]

InitNames == {"barrier", "p2p", "collective", "post", "waitall", "measure", "bops", "btop", "realloc"}
LapNames == {"clock", "btotal", "waitpair", "cancel"}
SendNames == {"grp", "iter", "phase", "run_id", "config", "phases", "stages", "groups", "strategies", "results"}
Names == InitNames \cup LapNames \cup SendNames
Items == Names \X Nat \X Nat
Of(names, s) == names \X {s} \X Nat
Fields == {"st", "mode", "s", "todo", "iter", "late", "len", "live", "active", "posted"}
Cells == {"ops", "top", "reqs", "count", "my", "counts"}

\* Nothing misleads a rank alone: if t_capped may be set in the wait that
\* calibrates, no asynchronous exchange is calibrated, and if a file may fail to
\* open, no stage has files.
Sound ==
  /\ TRUE \in Garbage => \A s \in StageIds : plan.stages[s].kind = "ipoint" => plan.stages[s].bytes # 0
  /\ FALSE \in Opens => \A s \in StageIds : plan.stages[s].kind \notin {"write", "read"}

\* No wait of the configuration is limited by time.
Uncapped == \A s \in StageIds : plan.stages[s].kind = "wait" => ~plan.stages[s].capped

IsProc(q) == DOMAIN q = Fields /\ q.todo \in Seq(Items)
Stored(q) == DOMAIN q.st = StageIds /\ \A s \in StageIds : DOMAIN q.st[s] = Cells
Has(list, name) == \E i \in 1 .. Len(list) : list[i][1] = name

-----------------------------------------------------------------------------
(* The calls of an initialisation, of a stage and of an iteration. *)

\* The stages whose initialisation calls the other ranks.
Calibrated(s) ==
  LET x == plan.stages[s]
  IN  /\ compute
      /\ \/ x.kind = "compute"
         \/ x.bytes = 0 /\ (x.kind = "ipoint" \/ (x.kind # "wait" /\ ~x.capped))

CommCalls(s) ==
  << <<"barrier", s, 0>> >> \o Times(Calibration, <<Call(s), s, 0>>)
    \o << <<"barrier", s, 1>>, <<"measure", s, 0>>, <<"bops", s, 0>> >>
IPointCalls(s) ==
  << <<"barrier", s, 0>> >> \o Posts(s, Calibration) \o << <<"waitall", s, 0>> >>
    \o << <<"barrier", s, 1>>, <<"measure", s, 0>>, <<"bops", s, 0>>, <<"realloc", s, 0>> >>
FileCalls(s) ==
  << <<"barrier", s, 0>>, <<"barrier", s, 1>>, <<"measure", s, 0>>, <<"bops", s, 0>>, <<"btop", s, 0>> >>
ComputeCalls(s) == << <<"measure", s, 0>>, <<"bops", s, 0>>, <<"btop", s, 0>> >>

InitCalls(s) ==
  LET k == plan.stages[s].kind
  IN  IF ~Calibrated(s) THEN <<>>
      ELSE IF k = "compute" THEN ComputeCalls(s)
      ELSE IF k = "ipoint" THEN IPointCalls(s)
      ELSE IF k \in {"write", "read"} THEN FileCalls(s)
      ELSE CommCalls(s)

RunNames(s) ==
  IF s = 0 THEN {"barrier"}
  ELSE LET k == plan.stages[s].kind
       IN  IF k = "point" THEN {"barrier", "p2p", "clock", "btotal"}
           ELSE IF k \in {"collective", "gather"} THEN {"barrier", "collective", "clock", "btotal"}
           ELSE IF k = "wait" THEN {"barrier", "waitall", "waitpair", "clock", "btotal", "cancel"}
           ELSE IF k = "ipoint" THEN {"barrier", "post"}
           ELSE {"barrier"}

\* The stages whose time of an operation is agreed on, those whose operations
\* are messages, and the operations of a stage that needs no call.
UsesTop(s) ==
  LET x == plan.stages[s]
  IN  x.kind = "compute" \/ (x.kind \in {"write", "read"} /\ x.bytes = 0 /\ ~x.capped)
Messages(s) == plan.stages[s].kind \in {"point", "collective", "gather", "ipoint", "wait"}
LocalOps(s, top) ==
  IF plan.stages[s].kind = "wait" THEN Calibration
  ELSE IF UsesTop(s) THEN CeilDiv(Goal(plan.stages[s]), top) ELSE 1

\* What a rank gathers.
GatherOK(x, s, r) ==
  /\ x.my = SamBlock(RealBytes(plan.stages[s]), r, numP)
  /\ x.counts = [i \in 1 .. numP |-> SamBlock(RealBytes(plan.stages[s]), i - 1, numP)]

-----------------------------------------------------------------------------
(* The places where a rank may be: the initialisation of a stage, a stage of *)
(* an iteration, the end. Ranks in different places have no call between.    *)

Phase(m) == IF m = "init" THEN 0 ELSE IF m = "run" THEN 1 ELSE IF m = "ready" THEN 2 ELSE IF m = "gone" THEN 3 ELSE 4
Place(q) == <<Phase(q.mode), IF q.mode = "run" THEN q.iter ELSE 0, IF q.mode \in {"init", "run"} THEN q.s ELSE 0>>
Places ==
  ({0} \X {0} \X (0 .. N)) \cup ({1} \X (0 .. Iters - 1) \X (0 .. N)) \cup {<<2, 0, 0>>, <<3, 0, 0>>}
Before(a, b) == a[1] < b[1] \/ (a[1] = b[1] /\ (a[2] < b[2] \/ (a[2] = b[2] /\ a[3] < b[3])))
Following(a) ==
  IF a[1] = 0 THEN IF a[3] < N THEN <<0, 0, a[3] + 1>> ELSE <<1, 0, 0>>
  ELSE IF a[1] = 1 THEN IF a[3] < N THEN <<1, a[2], a[3] + 1>>
                        ELSE IF a[2] + 1 < Iters THEN <<1, a[2] + 1, 0>> ELSE <<2, 0, 0>>
  ELSE <<3, 0, 0>>

\* The calls of a process when it comes to a place, and the places without.
Calls(q, a) ==
  IF a[1] = 0 THEN IF a[3] = 0 THEN <<>> ELSE InitCalls(a[3])
  ELSE IF a[1] = 1 THEN IF a[3] = 0 THEN IF a[2] = 0 THEN Barrier(0) ELSE Barrier(0) \o Barrier(0)
                        ELSE Process(q, a[3]) \o Barrier(a[3])
  ELSE IF a[1] = 2 THEN Barrier(0)
  ELSE <<>>
QuietStage(x) ==
  x.kind \in {"compute", "write", "read", "ipoint"} \/ (x.kind \in {"point", "wait"} /\ ~x.capped)
Quiet(a) ==
  IF a[1] = 0 THEN a[3] = 0 \/ ~Calibrated(a[3])
  ELSE IF a[1] = 1 THEN ~plan.rigid /\ (a[3] = 0 \/ QuietStage(plan.stages[a[3]]))
  ELSE IF a[1] = 2 THEN ~plan.rigid
  ELSE TRUE
QuietBetween(a, b) == \A c \in Places : Before(a, c) /\ Before(c, b) => Quiet(c)

IsCall(x) == x[1] \in Collectives
NoCalls(list) == \A i \in 1 .. Len(list) : ~IsCall(list[i])

\* list a is b without some of its first items, none of them a call.
Ahead(a, b) ==
  \E n \in 0 .. Len(b) : /\ Len(a) = Len(b) - n
                         /\ \A i \in 1 .. Len(a) : a[i] = b[n + i]
                         /\ \A i \in 1 .. n : ~IsCall(b[i])

\* x has to make the next call of y, or y has none to make before x does.
Behind(x, y) ==
  \/ Place(x) = Place(y) /\ Ahead(y.todo, x.todo)
  \/ /\ Before(Place(x), Place(y)) /\ y.mode # "config"
     /\ NoCalls(x.todo) /\ QuietBetween(Place(x), Place(y)) /\ Ahead(y.todo, Calls(y, Place(y)))

-----------------------------------------------------------------------------
(* What the ranks agree on. *)

\* Stages that a rank has come to, and those whose operations and whose time
\* of an operation are agreed on.
Reached(q, s) == q.mode \in {"run", "ready", "gone"} \/ (q.mode = "init" /\ s <= q.s)
Settled(q, s) ==
  q.mode \in {"run", "ready", "gone"}
    \/ (q.mode = "init" /\ (s < q.s \/ (s = q.s /\ ~Has(q.todo, "bops"))))
TopSettled(p, q, s) ==
  \/ group = 2
  \/ q.mode \in {"run", "ready", "gone"}
  \/ q.mode = "init" /\ (s < q.s \/ (s = q.s /\ ~Has(q.todo, "btop")))
  \/ q.mode = "config" /\ (p \in Kids => ~Has(q.todo, "stages"))

\* A measure goes with the broadcast of what it finds.
MeasuresShared(list, s) ==
  \A i \in 1 .. Len(list) : list[i][1] = "measure" =>
    /\ i + 1 <= Len(list) /\ list[i + 1][1] = "bops"
    /\ UsesTop(s) => i + 2 <= Len(list) /\ list[i + 2][1] = "btop"

TodoOK(q) ==
  \/ /\ q.mode = "init" /\ q.s \in 0 .. N /\ q.iter = 0 /\ q.todo \in Seq(Of(InitNames, q.s))
     /\ MeasuresShared(q.todo, q.s) /\ (q.todo # <<>> => q.s # 0 /\ Calibrated(q.s))
  \/ /\ q.mode = "run" /\ q.s \in 0 .. N /\ q.iter \in 0 .. Iters - 1
     /\ q.todo \in Seq(Of(RunNames(q.s), q.s))
  \/ q.mode = "ready" /\ q.todo \in Seq(Of({"barrier"}, 0))
  \/ q.mode = "gone" /\ q.todo = <<>> /\ group = 2
  \/ q.mode = "config" /\ q.todo \in Seq(Of(SendNames, 0)) /\ group = 1

DataOK(p, q) ==
  \A s \in StageIds :
    /\ Reached(q, s) /\ Messages(s) => q.st[s].ops \in Nat \ {0}
    /\ Settled(q, s) /\ ~Calibrated(s) => q.st[s].ops = LocalOps(s, q.st[s].top)
    /\ Reached(q, s) /\ plan.stages[s].kind = "gather" => GatherOK(q.st[s], s, Rank(p))

ProcOK(p, q) ==
  /\ IsProc(q) /\ TodoOK(q) /\ DataOK(p, q)
  /\ (p \in Kids /\ Has(q.todo, "stages")) \/ Stored(q)
  /\ p \in Kids => q.mode = "config"

AgreeOps(x, y) == \A s \in StageIds : Settled(x, s) /\ Settled(y, s) => x.st[s].ops = y.st[s].ops
AgreeTop(p, q, x, y) ==
  \A s \in StageIds : UsesTop(s) /\ TopSettled(p, x, s) /\ TopSettled(q, y, s) => x.st[s].top = y.st[s].top
Pair(p, q, x, y) == (Behind(x, y) \/ Behind(y, x)) /\ AgreeOps(x, y) /\ AgreeTop(p, q, x, y)

Together(m) ==
  /\ \A p \in Talking : ProcOK(p, m[p])
  /\ \A p, q \in Talking : Pair(p, q, m[p], m[q])

Shape ==
  /\ PlanOK /\ group \in {1, 2} /\ comm = CommOf(group)
  /\ kids \in {<<>>, KidsOf} /\ (group = 2 => kids = <<>>)
  /\ Talking \subseteq DOMAIN proc /\ (group = 1 => DOMAIN proc = Talking)
  /\ \A p \in DOMAIN proc \ Talking : proc[p].todo = <<>>

-----------------------------------------------------------------------------
(* Lists of calls. *)

LEMMA CollectivesAre == Collectives = {"barrier", "collective", "bops", "btop", "btotal"} \cup SendNames
<1>1. UserSends = << "grp", "iter", "phase", "run_id", "config", "phases", "stages", "groups", "strategies", "results" >>
  BY DEF UserSends
<1>2. Len(UserSends) = 10 /\ DOMAIN UserSends = 1 .. 10
  BY <1>1
<1>3. \A x : x \in SendNames => \E i \in 1 .. 10 : UserSends[i] = x
  BY <1>1 DEF SendNames
<1>4. \A i \in 1 .. 10 : UserSends[i] \in SendNames
  <2>1. \A i \in 1 .. 10 : i = 1 \/ i = 2 \/ i = 3 \/ i = 4 \/ i = 5 \/ i = 6 \/ i = 7 \/ i = 8 \/ i = 9 \/ i = 10
    OBVIOUS
  <2> QED BY <1>1, <2>1 DEF SendNames
<1>5. Range(UserSends) = SendNames
  BY <1>2, <1>3, <1>4 DEF Range
<1> QED BY <1>5 DEF Collectives

\* The literal lists of the program are sequences.
LEMMA Lists ==
  ASSUME NEW S, NEW a \in S, NEW b \in S, NEW c \in S, NEW d \in S, NEW e \in S
  PROVE  /\ <<a>> \in Seq(S) /\ Len(<<a>>) = 1 /\ <<a>>[1] = a
         /\ <<a, b, c>> \in Seq(S) /\ Len(<<a, b, c>>) = 3
         /\ <<a, b, c>>[1] = a /\ <<a, b, c>>[2] = b /\ <<a, b, c>>[3] = c
         /\ <<a, b, c, d>> \in Seq(S) /\ Len(<<a, b, c, d>>) = 4
         /\ <<a, b, c, d>>[1] = a /\ <<a, b, c, d>>[2] = b /\ <<a, b, c, d>>[3] = c /\ <<a, b, c, d>>[4] = d
         /\ <<a, b, c, d, e>> \in Seq(S) /\ Len(<<a, b, c, d, e>>) = 5
         /\ <<a, b, c, d, e>>[1] = a /\ <<a, b, c, d, e>>[2] = b /\ <<a, b, c, d, e>>[3] = c
         /\ <<a, b, c, d, e>>[4] = d /\ <<a, b, c, d, e>>[5] = e
OBVIOUS
LEMMA TimesIs ==
  ASSUME NEW S, NEW a \in S, NEW n \in Nat
  PROVE  Times(n, a) \in Seq(S) /\ Len(Times(n, a)) = n /\ \A i \in 1 .. n : Times(n, a)[i] = a
BY DEF Times

\* What joining two lists gives.
LEMMA Joined ==
  ASSUME NEW S, NEW a \in Seq(S), NEW b \in Seq(S)
  PROVE  /\ a \o b \in Seq(S) /\ Len(a \o b) = Len(a) + Len(b) /\ Len(a) \in Nat /\ Len(b) \in Nat
         /\ \A i \in 1 .. Len(a) : (a \o b)[i] = a[i]
         /\ \A i \in 1 .. Len(b) : (a \o b)[Len(a) + i] = b[i]
         /\ \A i \in 1 .. Len(a \o b) : i \in 1 .. Len(a) \/ \E k \in 1 .. Len(b) : i = Len(a) + k
<1>1. a \o b \in Seq(S) /\ Len(a \o b) = Len(a) + Len(b) /\ Len(a) \in Nat /\ Len(b) \in Nat
  BY ConcatProperties
<1>2. \A i \in 1 .. Len(a \o b) : (a \o b)[i] = IF i <= Len(a) THEN a[i] ELSE b[i - Len(a)]
  BY ConcatProperties
<1> DEFINE c == a \o b
<1> HIDE DEF c
<1>3. Len(c) = Len(a) + Len(b) /\ \A i \in 1 .. Len(c) : c[i] = IF i <= Len(a) THEN a[i] ELSE b[i - Len(a)]
  BY <1>1, <1>2 DEF c
<1>4. \A i \in 1 .. Len(a) : c[i] = a[i]
  BY <1>1, <1>3
<1>5. \A i \in 1 .. Len(b) : c[Len(a) + i] = b[i]
  <2>1. ASSUME NEW i \in 1 .. Len(b) PROVE c[Len(a) + i] = b[i]
    <3>1. Len(a) + i \in 1 .. Len(c) /\ ~(Len(a) + i <= Len(a)) /\ (Len(a) + i) - Len(a) = i
      BY <1>1, <1>3
    <3> QED BY <1>3, <3>1
  <2> QED BY <2>1
<1>6. \A i \in 1 .. Len(c) : i \in 1 .. Len(a) \/ \E k \in 1 .. Len(b) : i = Len(a) + k
  <2>1. ASSUME NEW i \in 1 .. Len(c), i > Len(a) PROVE \E k \in 1 .. Len(b) : i = Len(a) + k
    <3>1. i - Len(a) \in 1 .. Len(b) /\ i = Len(a) + (i - Len(a))
      BY <1>1, <1>3, <2>1
    <3> QED BY <3>1
  <2> QED BY <1>1, <1>3, <2>1
<1> QED BY <1>1, <1>4, <1>5, <1>6 DEF c

\* What is left of a list without its first item.
LEMMA TailIs ==
  ASSUME NEW S, NEW a \in Seq(S), a # <<>>
  PROVE  /\ Tail(a) \in Seq(S) /\ Len(Tail(a)) = Len(a) - 1 /\ Len(a) \in Nat \ {0}
         /\ \A i \in 1 .. Len(Tail(a)) : Tail(a)[i] = a[i + 1]
         /\ Head(a) = a[1] /\ a[1] \in S
<1>1. Len(a) \in Nat \ {0}
  BY EmptySeq
<1> QED BY <1>1, HeadTailProperties

LEMMA EmptyIs ==
  ASSUME NEW S, NEW a \in Seq(S)
  PROVE  (a = <<>> <=> Len(a) = 0) /\ Len(a) \in Nat
BY EmptySeq

LEMMA AheadSame == ASSUME NEW S, NEW a \in Seq(S) PROVE Ahead(a, a)
<1>1. Len(a) \in Nat
  OBVIOUS
<1>2. 0 \in 0 .. Len(a) /\ Len(a) = Len(a) - 0 /\ (\A i \in 1 .. Len(a) : a[i] = a[0 + i]) /\ \A i \in 1 .. 0 : ~IsCall(a[i])
  BY <1>1
<1> QED BY Zenon, <1>2 DEF Ahead

LEMMA AheadTail == ASSUME NEW S, NEW a \in Seq(S), a # <<>>, ~IsCall(Head(a)) PROVE Ahead(Tail(a), a)
<1>1. 1 \in 0 .. Len(a) /\ Len(Tail(a)) = Len(a) - 1 /\ (\A i \in 1 .. Len(Tail(a)) : Tail(a)[i] = a[1 + i])
  BY TailIs
<1>2. \A i \in 1 .. 1 : ~IsCall(a[i])
  BY TailIs
<1> QED BY <1>1, <1>2 DEF Ahead

LEMMA AheadMore ==
  ASSUME NEW S, NEW a \in Seq(S), NEW b \in Seq(S), NEW c \in Seq(S), Ahead(a, b), Ahead(b, c)
  PROVE  Ahead(a, c)
<1>0. Len(a) \in Nat /\ Len(b) \in Nat /\ Len(c) \in Nat
  OBVIOUS
<1>1. PICK n \in 0 .. Len(b) : Len(a) = Len(b) - n /\ (\A i \in 1 .. Len(a) : a[i] = b[n + i]) /\ \A i \in 1 .. n : ~IsCall(b[i])
  BY DEF Ahead
<1>2. PICK m \in 0 .. Len(c) : Len(b) = Len(c) - m /\ (\A i \in 1 .. Len(b) : b[i] = c[m + i]) /\ \A i \in 1 .. m : ~IsCall(c[i])
  BY DEF Ahead
<1>3. m + n \in 0 .. Len(c) /\ Len(a) = Len(c) - (m + n)
  BY <1>0, <1>1, <1>2
<1>4. \A i \in 1 .. Len(a) : a[i] = c[(m + n) + i]
  <2>1. ASSUME NEW i \in 1 .. Len(a) PROVE a[i] = c[(m + n) + i]
    <3>1. n + i \in 1 .. Len(b) /\ m + (n + i) = (m + n) + i
      BY <1>0, <1>1, <1>2
    <3> QED BY <1>1, <1>2, <3>1
  <2> QED BY <2>1
<1>5. \A i \in 1 .. m + n : ~IsCall(c[i])
  <2>1. ASSUME NEW i \in 1 .. m + n PROVE ~IsCall(c[i])
    <3>1. CASE i <= m
      BY <1>0, <1>1, <1>2, <3>1
    <3>2. CASE i > m
      <4>1. i - m \in 1 .. n /\ i - m \in 1 .. Len(b) /\ m + (i - m) = i
        BY <1>0, <1>1, <1>2, <3>2
      <4>2. b[i - m] = c[i] /\ ~IsCall(b[i - m])
        BY <1>1, <1>2, <4>1
      <4> QED BY <4>2 DEF IsCall
    <3> QED BY <1>0, <1>1, <1>2, <3>1, <3>2
  <2> QED BY <2>1
<1> QED BY <1>3, <1>4, <1>5 DEF Ahead

\* A list that is ahead of another is the same list, or the other goes first.
LEMMA AheadOrSame ==
  ASSUME NEW S, NEW a \in Seq(S), NEW b \in Seq(S), Ahead(a, b)
  PROVE  a = b \/ (b # <<>> /\ ~IsCall(b[1]) /\ Ahead(a, Tail(b)))
<1>0. Len(a) \in Nat /\ Len(b) \in Nat
  OBVIOUS
<1>1. PICK n \in 0 .. Len(b) : Len(a) = Len(b) - n /\ (\A i \in 1 .. Len(a) : a[i] = b[n + i]) /\ \A i \in 1 .. n : ~IsCall(b[i])
  BY DEF Ahead
<1>2. CASE n = 0
  <2>1. Len(a) = Len(b) /\ \A i \in 1 .. Len(a) : a[i] = b[i]
    BY <1>0, <1>1, <1>2
  <2> QED BY <2>1, SeqEqual
<1>3. CASE n # 0
  <2>1. b # <<>> /\ ~IsCall(b[1])
    BY <1>0, <1>1, <1>3, EmptyIs
  <2>2. Len(Tail(b)) = Len(b) - 1 /\ \A i \in 1 .. Len(Tail(b)) : Tail(b)[i] = b[i + 1]
    BY <2>1, TailIs
  <2>3. n - 1 \in 0 .. Len(Tail(b)) /\ Len(a) = Len(Tail(b)) - (n - 1)
    BY <1>0, <1>1, <1>3, <2>2
  <2>4. \A i \in 1 .. Len(a) : a[i] = Tail(b)[(n - 1) + i]
    <3>1. ASSUME NEW i \in 1 .. Len(a) PROVE a[i] = Tail(b)[(n - 1) + i]
      <4>1. (n - 1) + i \in 1 .. Len(Tail(b)) /\ ((n - 1) + i) + 1 = n + i
        BY <1>0, <1>1, <1>3, <2>2
      <4> QED BY <1>1, <2>2, <4>1
    <3> QED BY <3>1
  <2>5. \A i \in 1 .. n - 1 : ~IsCall(Tail(b)[i])
    <3>1. ASSUME NEW i \in 1 .. n - 1 PROVE ~IsCall(Tail(b)[i])
      <4>1. i \in 1 .. Len(Tail(b)) /\ i + 1 \in 1 .. n
        BY <1>0, <1>1, <1>3, <2>2
      <4> QED BY <1>1, <2>2, <4>1
    <3> QED BY <3>1
  <2> QED BY <2>1, <2>3, <2>4, <2>5 DEF Ahead
<1> QED BY <1>2, <1>3

\* Nothing is ahead of a call, of an empty list, or of a list without calls
\* with a call.
LEMMA AheadFacts ==
  ASSUME NEW S, NEW a \in Seq(S), NEW b \in Seq(S), Ahead(a, b)
  PROVE  /\ b # <<>> /\ IsCall(b[1]) => a = b
         /\ b = <<>> => a = <<>>
         /\ a = <<>> => NoCalls(b)
         /\ NoCalls(b) => NoCalls(a)
<1>0. Len(a) \in Nat /\ Len(b) \in Nat
  OBVIOUS
<1>1. PICK n \in 0 .. Len(b) : Len(a) = Len(b) - n /\ (\A i \in 1 .. Len(a) : a[i] = b[n + i]) /\ \A i \in 1 .. n : ~IsCall(b[i])
  BY DEF Ahead
<1>2. b # <<>> /\ IsCall(b[1]) => a = b
  BY AheadOrSame
<1>3. b = <<>> => a = <<>>
  BY <1>0, <1>1, EmptyIs
<1>4. a = <<>> => NoCalls(b)
  BY <1>0, <1>1, EmptyIs DEF NoCalls
<1>5. NoCalls(b) => NoCalls(a)
  <2>1. ASSUME NoCalls(b), NEW i \in 1 .. Len(a) PROVE ~IsCall(a[i])
    <3>1. n + i \in 1 .. Len(b) /\ a[i] = b[n + i]
      BY <1>0, <1>1
    <3> QED BY <2>1, <3>1 DEF NoCalls
  <2> QED BY <2>1 DEF NoCalls
<1> QED BY <1>2, <1>3, <1>4, <1>5

LEMMA NoCallsTail == ASSUME NEW S, NEW a \in Seq(S), a # <<>>, NoCalls(a) PROVE NoCalls(Tail(a))
<1>1. ASSUME NEW i \in 1 .. Len(Tail(a)) PROVE ~IsCall(Tail(a)[i])
  <2>1. i + 1 \in 1 .. Len(a) /\ Tail(a)[i] = a[i + 1]
    BY TailIs
  <2> QED BY <2>1 DEF NoCalls
<1> QED BY <1>1 DEF NoCalls

\* What a list has is in its first item or in the others.
LEMMA HasTail ==
  ASSUME NEW S, NEW a \in Seq(S), a # <<>>, NEW name
  PROVE  (Has(Tail(a), name) => Has(a, name)) /\ (Has(a, name) => Head(a)[1] = name \/ Has(Tail(a), name))
<1>1. ASSUME Has(Tail(a), name) PROVE Has(a, name)
  <2>1. PICK i \in 1 .. Len(Tail(a)) : Tail(a)[i][1] = name
    BY <1>1 DEF Has
  <2>2. i + 1 \in 1 .. Len(a) /\ Tail(a)[i] = a[i + 1]
    BY TailIs
  <2> QED BY <2>1, <2>2 DEF Has
<1>2. ASSUME Has(a, name), Head(a)[1] # name PROVE Has(Tail(a), name)
  <2>1. PICK i \in 1 .. Len(a) : a[i][1] = name
    BY <1>2 DEF Has
  <2>2. i # 1
    BY <1>2, <2>1, TailIs
  <2>3. i - 1 \in 1 .. Len(Tail(a)) /\ Tail(a)[i - 1] = a[(i - 1) + 1] /\ (i - 1) + 1 = i
    <3>1. i \in Int /\ i - 1 \in 1 .. Len(Tail(a)) /\ (i - 1) + 1 = i
      BY <2>2, TailIs
    <3> QED BY <3>1, TailIs
  <2> QED BY <2>1, <2>3 DEF Has
<1> QED BY <1>1, <1>2

-----------------------------------------------------------------------------
(* The calls of an initialisation and of a stage. *)

LEMMA HasJoined ==
  ASSUME NEW S, NEW a \in Seq(S), NEW b \in Seq(S), NEW name
  PROVE  Has(a \o b, name) <=> Has(a, name) \/ Has(b, name)
<1>1. ASSUME Has(a \o b, name) PROVE Has(a, name) \/ Has(b, name)
  <2>1. PICK i \in 1 .. Len(a \o b) : (a \o b)[i][1] = name
    BY <1>1 DEF Has
  <2>2. CASE i \in 1 .. Len(a)
    <3>1. (a \o b)[i] = a[i]
      BY <2>2, Joined
    <3> QED BY <2>1, <2>2, <3>1 DEF Has
  <2>3. ASSUME NEW k \in 1 .. Len(b), i = Len(a) + k PROVE Has(b, name)
    <3>1. (a \o b)[i] = b[k]
      BY <2>3, Joined
    <3> QED BY <2>1, <3>1 DEF Has
  <2> QED BY <2>2, <2>3, Joined
<1>2. ASSUME Has(a, name) PROVE Has(a \o b, name)
  <2>1. PICK i \in 1 .. Len(a) : a[i][1] = name
    BY <1>2 DEF Has
  <2>2. i \in 1 .. Len(a \o b) /\ (a \o b)[i] = a[i]
    BY Joined
  <2> QED BY <2>1, <2>2 DEF Has
<1>3. ASSUME Has(b, name) PROVE Has(a \o b, name)
  <2>1. PICK i \in 1 .. Len(b) : b[i][1] = name
    BY <1>3 DEF Has
  <2>2. Len(a) + i \in 1 .. Len(a \o b) /\ (a \o b)[Len(a) + i] = b[i]
    BY Joined
  <2> QED BY <2>1, <2>2 DEF Has
<1> QED BY <1>1, <1>2, <1>3

LEMMA NoCallsJoined ==
  ASSUME NEW S, NEW a \in Seq(S), NEW b \in Seq(S)
  PROVE  NoCalls(a \o b) <=> NoCalls(a) /\ NoCalls(b)
<1>1. ASSUME NoCalls(a \o b) PROVE NoCalls(a) /\ NoCalls(b)
  <2>1. ASSUME NEW i \in 1 .. Len(a) PROVE ~IsCall(a[i])
    <3>1. i \in 1 .. Len(a \o b) /\ (a \o b)[i] = a[i]
      BY Joined
    <3> QED BY <1>1, <3>1 DEF NoCalls
  <2>2. ASSUME NEW i \in 1 .. Len(b) PROVE ~IsCall(b[i])
    <3>1. Len(a) + i \in 1 .. Len(a \o b) /\ (a \o b)[Len(a) + i] = b[i]
      BY Joined
    <3> QED BY <1>1, <3>1 DEF NoCalls
  <2> QED BY <2>1, <2>2 DEF NoCalls
<1>2. ASSUME NoCalls(a), NoCalls(b) PROVE NoCalls(a \o b)
  <2>1. ASSUME NEW i \in 1 .. Len(a \o b) PROVE ~IsCall((a \o b)[i])
    <3>1. CASE i \in 1 .. Len(a)
      <4>1. (a \o b)[i] = a[i]
        BY <3>1, Joined
      <4> QED BY <1>2, <3>1, <4>1 DEF NoCalls
    <3>2. ASSUME NEW k \in 1 .. Len(b), i = Len(a) + k PROVE ~IsCall((a \o b)[i])
      <4>1. (a \o b)[i] = b[k]
        BY <3>2, Joined
      <4> QED BY <1>2, <4>1 DEF NoCalls
    <3>3. i \in 1 .. Len(a) \/ \E k \in 1 .. Len(b) : i = Len(a) + k
      BY Joined
    <3> QED BY <3>1, <3>2, <3>3
  <2> QED BY <2>1 DEF NoCalls
<1> QED BY <1>1, <1>2

\* A measure after items that do not measure.
LEMMA SharedJoined ==
  ASSUME NEW S, NEW a \in Seq(S), NEW b \in Seq(S), NEW s, ~Has(a, "measure"), MeasuresShared(b, s)
  PROVE  MeasuresShared(a \o b, s)
<1> DEFINE c == a \o b
<1>1. Len(c) = Len(a) + Len(b) /\ Len(a) \in Nat /\ Len(b) \in Nat
  BY Joined
<1>2. (\A i \in 1 .. Len(a) : c[i] = a[i]) /\ (\A i \in 1 .. Len(b) : c[Len(a) + i] = b[i])
  BY Joined
<1>3. \A i \in 1 .. Len(c) : i \in 1 .. Len(a) \/ \E k \in 1 .. Len(b) : i = Len(a) + k
  BY Joined
<1> HIDE DEF c
<1>4. ASSUME NEW i \in 1 .. Len(c), c[i][1] = "measure"
      PROVE  /\ i + 1 <= Len(c) /\ c[i + 1][1] = "bops"
             /\ UsesTop(s) => i + 2 <= Len(c) /\ c[i + 2][1] = "btop"
  <2>1. i \notin 1 .. Len(a)
    BY <1>2, <1>4 DEF Has
  <2>2. PICK k \in 1 .. Len(b) : i = Len(a) + k
    BY <1>3, <2>1
  <2>3. b[k][1] = "measure"
    BY <1>2, <1>4, <2>2
  <2>4. /\ k + 1 <= Len(b) /\ b[k + 1][1] = "bops"
        /\ UsesTop(s) => k + 2 <= Len(b) /\ b[k + 2][1] = "btop"
    BY <2>3 DEF MeasuresShared
  <2>5. i + 1 <= Len(c) /\ c[i + 1] = b[k + 1]
    <3>1. k + 1 \in 1 .. Len(b) /\ Len(a) + (k + 1) = i + 1 /\ i + 1 <= Len(c)
      BY <1>1, <2>2, <2>4
    <3> QED BY <1>2, <3>1
  <2>6. k + 2 <= Len(b) => i + 2 <= Len(c) /\ c[i + 2] = b[k + 2]
    <3>1. ASSUME k + 2 <= Len(b) PROVE k + 2 \in 1 .. Len(b) /\ Len(a) + (k + 2) = i + 2 /\ i + 2 <= Len(c)
      BY <1>1, <2>2, <3>1
    <3> QED BY <1>2, <3>1
  <2> QED BY <2>4, <2>5, <2>6
<1> QED BY <1>4 DEF MeasuresShared, c

LEMMA SharedTail ==
  ASSUME NEW S, NEW a \in Seq(S), a # <<>>, NEW s, MeasuresShared(a, s)
  PROVE  MeasuresShared(Tail(a), s)
<1> DEFINE b == Tail(a)
<1>1. Len(b) = Len(a) - 1 /\ Len(a) \in Nat \ {0} /\ \A i \in 1 .. Len(b) : b[i] = a[i + 1]
  BY TailIs
<1> HIDE DEF b
<1>2. ASSUME NEW i \in 1 .. Len(b), b[i][1] = "measure"
      PROVE  /\ i + 1 <= Len(b) /\ b[i + 1][1] = "bops"
             /\ UsesTop(s) => i + 2 <= Len(b) /\ b[i + 2][1] = "btop"
  <2>1. i + 1 \in 1 .. Len(a) /\ a[i + 1][1] = "measure"
    BY <1>1, <1>2
  <2>2. /\ (i + 1) + 1 <= Len(a) /\ a[(i + 1) + 1][1] = "bops"
        /\ UsesTop(s) => (i + 1) + 2 <= Len(a) /\ a[(i + 1) + 2][1] = "btop"
    BY <2>1 DEF MeasuresShared
  <2>3. i + 1 \in 1 .. Len(b) /\ b[i + 1] = a[(i + 1) + 1]
    BY <1>1, <2>2
  <2>4. UsesTop(s) => i + 2 \in 1 .. Len(b) /\ (i + 2) + 1 = (i + 1) + 2
    BY <1>1, <2>2
  <2> QED BY <1>1, <2>2, <2>3, <2>4
<1> QED BY <1>2 DEF MeasuresShared, b

LEMMA ItemIs ==
  ASSUME NEW names, NEW k \in names, NEW s, NEW i \in Nat
  PROVE  <<k, s, i>> \in Of(names, s)
BY DEF Of

\* Items of a list: the name is one of the names and the stage is s.
LEMMA NamesIs ==
  ASSUME NEW names, NEW s, NEW a \in Seq(Of(names, s)), NEW i \in 1 .. Len(a)
  PROVE  a[i] \in Of(names, s) /\ a[i][1] \in names /\ a[i][2] = s /\ a[i][3] \in Nat
<1>1. a[i] \in Of(names, s)
  BY ElementOfSeq
<1> QED BY <1>1 DEF Of

LEMMA HasNames ==
  ASSUME NEW names, NEW s, NEW a \in Seq(Of(names, s)), NEW k, k \notin names
  PROVE  ~Has(a, k)
BY NamesIs DEF Has

LEMMA NoCallsNames ==
  ASSUME NEW names, NEW s, NEW a \in Seq(Of(names, s)), names \cap Collectives = {}
  PROVE  NoCalls(a)
BY NamesIs DEF NoCalls, IsCall

LEMMA WiderNames ==
  ASSUME NEW names, NEW more, names \subseteq more, NEW s, NEW a \in Seq(Of(names, s))
  PROVE  a \in Seq(Of(more, s))
<1>1. Of(names, s) \subseteq Of(more, s)
  BY DEF Of
<1> QED BY <1>1

\* The items of a sequence are items.
LEMMA ItemsAre ==
  ASSUME NEW names, names \subseteq Names, NEW s \in Nat, NEW a \in Seq(Of(names, s))
  PROVE  a \in Seq(Items)
<1>1. Of(names, s) \subseteq Items
  BY DEF Of, Items
<1> QED BY <1>1

LEMMA StageIs ==
  ASSUME PlanOK, NEW s \in StageIds
  PROVE  /\ N \in Nat /\ StageIds = 1 .. N /\ s \in Nat \ {0} /\ s <= N
         /\ plan.stages[s].kind \in Kinds /\ plan.stages[s].bytes \in Nat /\ plan.stages[s].capped \in BOOLEAN
<1>1. plan.stages[s] \in [kind : Kinds, id : Nat, bytes : Nat, capped : BOOLEAN, involved : Nat]
  BY ElementOfSeq DEF PlanOK, StageIds
<1>2. N \in Nat
  BY DEF PlanOK, N
<1> QED BY <1>1, <1>2 DEF StageIds, N

LEMMA NStages == ASSUME PlanOK PROVE N \in Nat /\ StageIds = 1 .. N /\ Len(plan.stages) = N
BY DEF PlanOK, N, StageIds

LEMMA CalibrationIs == Calibration \in Nat \ {0} /\ Iters \in Nat \ {0} /\ StageTime \in Nat \ {0} /\ Costs \subseteq Nat \ {0} /\ Procs \subseteq Nat \ {0} /\ Factors \subseteq Nat \ {0}
BY StagesAssumption

LEMMA CallIs ==
  ASSUME NEW s, plan.stages[s].kind \in {"point", "collective", "gather"}
  PROVE  Call(s) = IF plan.stages[s].kind = "point" THEN "p2p" ELSE "collective"
BY DEF Call

\* What the checks of a list of the initialisation come to.
InitFacts(list, s) ==
  /\ list \in Seq(Of(InitNames, s)) /\ MeasuresShared(list, s)
  /\ Has(list, "bops") /\ (UsesTop(s) => Has(list, "btop")) /\ ~NoCalls(list) /\ list # <<>>

\* A list with the end of an initialisation.
LEMMA InitEnds ==
  ASSUME NEW s, NEW a \in Seq(Of(InitNames, s)), NEW b, InitFacts(b, s), ~Has(a, "measure")
  PROVE  InitFacts(a \o b, s)
<1>1. b \in Seq(Of(InitNames, s)) /\ b # <<>>
  BY DEF InitFacts
<1>2. a \o b \in Seq(Of(InitNames, s)) /\ a \o b # <<>>
  BY <1>1, Joined, EmptyIs
<1>3. MeasuresShared(a \o b, s)
  BY <1>1, SharedJoined DEF InitFacts
<1>4. Has(a \o b, "bops") /\ (UsesTop(s) => Has(a \o b, "btop"))
  BY <1>1, HasJoined DEF InitFacts
<1>5. ~NoCalls(a \o b)
  BY <1>1, NoCallsJoined DEF InitFacts
<1> QED BY <1>2, <1>3, <1>4, <1>5 DEF InitFacts

LEMMA TopEnd == ASSUME NEW s PROVE InitFacts(ComputeCalls(s), s)
<1> DEFINE a == <<"measure", s, 0>>
           b == <<"bops", s, 0>>
           c == <<"btop", s, 0>>
<1>1. a \in Of(InitNames, s) /\ b \in Of(InitNames, s) /\ c \in Of(InitNames, s)
  BY ItemIs DEF InitNames
<1>2. a[1] = "measure" /\ b[1] = "bops" /\ c[1] = "btop"
  OBVIOUS
<1> HIDE DEF a, b, c
<1>3. /\ <<a, b, c>> \in Seq(Of(InitNames, s)) /\ Len(<<a, b, c>>) = 3
      /\ <<a, b, c>>[1] = a /\ <<a, b, c>>[2] = b /\ <<a, b, c>>[3] = c
  BY <1>1, Lists
<1> DEFINE l == <<a, b, c>>
<1> HIDE DEF l
<1>4. l \in Seq(Of(InitNames, s)) /\ Len(l) = 3 /\ l[1] = a /\ l[2] = b /\ l[3] = c
  BY <1>3 DEF l
<1>5. MeasuresShared(l, s)
  <2>1. ASSUME NEW i \in 1 .. Len(l), l[i][1] = "measure"
        PROVE  /\ i + 1 <= Len(l) /\ l[i + 1][1] = "bops"
               /\ UsesTop(s) => i + 2 <= Len(l) /\ l[i + 2][1] = "btop"
    <3>1. i = 1 \/ i = 2 \/ i = 3
      BY <1>4
    <3>2. i = 1
      BY <1>2, <1>4, <2>1, <3>1
    <3>3. i + 1 = 2 /\ i + 2 = 3
      BY <3>2
    <3> QED BY <1>2, <1>4, <3>2, <3>3
  <2> QED BY <2>1 DEF MeasuresShared
<1>6. Has(l, "bops") /\ Has(l, "btop")
  BY <1>2, <1>4 DEF Has
<1>7. ~NoCalls(l) /\ l # <<>>
  <2>1. 2 \in 1 .. Len(l) /\ l[2][1] \in Collectives
    BY <1>2, <1>4, CollectivesAre
  <2>2. Len(l) # 0 /\ l \in Seq(Of(InitNames, s))
    BY <1>4
  <2>3. l # <<>>
    BY <2>2, EmptyIs
  <2> QED BY <2>1, <2>3 DEF NoCalls, IsCall
<1>8. InitFacts(l, s)
  BY <1>4, <1>5, <1>6, <1>7 DEF InitFacts
<1> QED BY <1>8 DEF l, a, b, c, ComputeCalls

LEMMA ShortEnd ==
  ASSUME NEW s, ~UsesTop(s)
  PROVE  InitFacts(<< <<"barrier", s, 1>>, <<"measure", s, 0>>, <<"bops", s, 0>> >>, s)
<1> DEFINE a == <<"barrier", s, 1>>
           b == <<"measure", s, 0>>
           c == <<"bops", s, 0>>
<1>1. a \in Of(InitNames, s) /\ b \in Of(InitNames, s) /\ c \in Of(InitNames, s)
  BY ItemIs DEF InitNames
<1>2. a[1] = "barrier" /\ b[1] = "measure" /\ c[1] = "bops"
  OBVIOUS
<1> HIDE DEF a, b, c
<1>3. /\ <<a, b, c>> \in Seq(Of(InitNames, s)) /\ Len(<<a, b, c>>) = 3
      /\ <<a, b, c>>[1] = a /\ <<a, b, c>>[2] = b /\ <<a, b, c>>[3] = c
  BY <1>1, Lists
<1> DEFINE l == <<a, b, c>>
<1> HIDE DEF l
<1>4. l \in Seq(Of(InitNames, s)) /\ Len(l) = 3 /\ l[1] = a /\ l[2] = b /\ l[3] = c
  BY <1>3 DEF l
<1>5. MeasuresShared(l, s)
  <2>1. ASSUME NEW i \in 1 .. Len(l), l[i][1] = "measure" PROVE i + 1 <= Len(l) /\ l[i + 1][1] = "bops"
    <3>1. i = 1 \/ i = 2 \/ i = 3
      BY <1>4
    <3>2. i = 2
      BY <1>2, <1>4, <2>1, <3>1
    <3>3. i + 1 = 3
      BY <3>2
    <3> QED BY <1>2, <1>4, <3>2, <3>3
  <2> QED BY <2>1 DEF MeasuresShared
<1>6. Has(l, "bops")
  BY <1>2, <1>4 DEF Has
<1>7. ~NoCalls(l) /\ l # <<>>
  <2>1. 3 \in 1 .. Len(l) /\ l[3][1] \in Collectives
    BY <1>2, <1>4, CollectivesAre
  <2>2. Len(l) # 0 /\ l \in Seq(Of(InitNames, s))
    BY <1>4
  <2>3. l # <<>>
    BY <2>2, EmptyIs
  <2> QED BY <2>1, <2>3 DEF NoCalls, IsCall
<1>8. InitFacts(l, s)
  BY <1>4, <1>5, <1>6, <1>7 DEF InitFacts
<1> QED BY <1>8 DEF l, a, b, c

LEMMA OpsEnd ==
  ASSUME NEW s, ~UsesTop(s)
  PROVE  InitFacts(<< <<"barrier", s, 1>>, <<"measure", s, 0>>, <<"bops", s, 0>>, <<"realloc", s, 0>> >>, s)
<1> DEFINE a == <<"barrier", s, 1>>
           b == <<"measure", s, 0>>
           c == <<"bops", s, 0>>
           d == <<"realloc", s, 0>>
<1>1. a \in Of(InitNames, s) /\ b \in Of(InitNames, s) /\ c \in Of(InitNames, s) /\ d \in Of(InitNames, s)
  BY ItemIs DEF InitNames
<1>2. a[1] = "barrier" /\ b[1] = "measure" /\ c[1] = "bops" /\ d[1] # "measure"
  OBVIOUS
<1> HIDE DEF a, b, c, d
<1>3. /\ <<a, b, c, d>> \in Seq(Of(InitNames, s)) /\ Len(<<a, b, c, d>>) = 4
      /\ <<a, b, c, d>>[1] = a /\ <<a, b, c, d>>[2] = b /\ <<a, b, c, d>>[3] = c /\ <<a, b, c, d>>[4] = d
  BY <1>1, Lists
<1> DEFINE l == <<a, b, c, d>>
<1> HIDE DEF l
<1>4. l \in Seq(Of(InitNames, s)) /\ Len(l) = 4 /\ l[1] = a /\ l[2] = b /\ l[3] = c /\ l[4] = d
  BY <1>3 DEF l
<1>5. MeasuresShared(l, s)
  <2>1. ASSUME NEW i \in 1 .. Len(l), l[i][1] = "measure" PROVE i + 1 <= Len(l) /\ l[i + 1][1] = "bops"
    <3>1. i = 1 \/ i = 2 \/ i = 3 \/ i = 4
      BY <1>4
    <3>2. i = 2
      BY <1>2, <1>4, <2>1, <3>1
    <3>3. i + 1 = 3
      BY <3>2
    <3> QED BY <1>2, <1>4, <3>2, <3>3
  <2> QED BY <2>1 DEF MeasuresShared
<1>6. Has(l, "bops")
  BY <1>2, <1>4 DEF Has
<1>7. ~NoCalls(l) /\ l # <<>>
  <2>1. 3 \in 1 .. Len(l) /\ l[3][1] \in Collectives
    BY <1>2, <1>4, CollectivesAre
  <2>2. Len(l) # 0 /\ l \in Seq(Of(InitNames, s))
    BY <1>4
  <2>3. l # <<>>
    BY <2>2, EmptyIs
  <2> QED BY <2>1, <2>3 DEF NoCalls, IsCall
<1>8. InitFacts(l, s)
  BY <1>4, <1>5, <1>6, <1>7 DEF InitFacts
<1> QED BY <1>8 DEF l, a, b, c, d


LEMMA TimesNames ==
  ASSUME NEW names, NEW s, NEW k \in names, NEW n \in Nat, k # "measure"
  PROVE  /\ Times(n, <<k, s, 0>>) \in Seq(Of(names, s)) /\ ~Has(Times(n, <<k, s, 0>>), "measure")
         /\ NoCalls(Times(n, <<k, s, 0>>)) <=> n = 0 \/ k \notin Collectives
<1> DEFINE x == <<k, s, 0>>
<1>1. x \in Of(names, s) /\ x[1] = k
  BY ItemIs
<1> HIDE DEF x
<1>2. Times(n, x) \in Seq(Of(names, s)) /\ Len(Times(n, x)) = n /\ \A i \in 1 .. n : Times(n, x)[i] = x
  BY <1>1, TimesIs
<1>3. ~Has(Times(n, x), "measure")
  BY <1>1, <1>2 DEF Has
<1>4. NoCalls(Times(n, x)) <=> n = 0 \/ k \notin Collectives
  <2>1. ASSUME n # 0, k \in Collectives PROVE ~NoCalls(Times(n, x))
    <3>1. 1 \in 1 .. n
      BY <2>1
    <3> QED BY <1>1, <1>2, <2>1, <3>1 DEF NoCalls, IsCall
  <2>2. ASSUME n = 0 \/ k \notin Collectives PROVE NoCalls(Times(n, x))
    BY <1>1, <1>2, <2>2 DEF NoCalls, IsCall
  <2> QED BY <2>1, <2>2
<1> QED BY <1>2, <1>3, <1>4 DEF x

LEMMA PostsNames ==
  ASSUME NEW names, NEW s, "post" \in names, NEW n \in Nat
  PROVE  Posts(s, n) \in Seq(Of(names, s)) /\ ~Has(Posts(s, n), "measure") /\ NoCalls(Posts(s, n))
<1>1. Posts(s, n) \in Seq(Of(names, s)) /\ Len(Posts(s, n)) = n /\ \A i \in 1 .. n : Posts(s, n)[i] = <<"post", s, i>>
  BY ItemIs DEF Posts
<1>2. \A i \in 1 .. n : Posts(s, n)[i][1] = "post"
  BY <1>1
<1>3. "post" \notin Collectives
  BY CollectivesAre DEF SendNames
<1> QED BY <1>1, <1>2, <1>3 DEF Has, NoCalls, IsCall

LEMMA OneName ==
  ASSUME NEW names, NEW s, NEW k \in names, NEW i \in Nat
  PROVE  LET l == << <<k, s, i>> >>
         IN  /\ l \in Seq(Of(names, s)) /\ l # <<>>
             /\ k # "measure" => ~Has(l, "measure")
             /\ NoCalls(l) <=> k \notin Collectives
<1> DEFINE x == <<k, s, i>>
<1>1. x \in Of(names, s) /\ x[1] = k
  BY ItemIs
<1> HIDE DEF x
<1>2. <<x>> \in Seq(Of(names, s)) /\ Len(<<x>>) = 1 /\ <<x>>[1] = x
  BY <1>1, Lists
<1>3. <<x>> # <<>>
  BY <1>2, EmptyIs
<1>4. (k # "measure" => ~Has(<<x>>, "measure")) /\ (NoCalls(<<x>>) <=> k \notin Collectives)
  BY <1>1, <1>2 DEF Has, NoCalls, IsCall
<1> QED BY <1>2, <1>3, <1>4 DEF x

\* The calls of the initialisations.
LEMMA CommIs ==
  ASSUME NEW s, ~UsesTop(s), Call(s) \in {"p2p", "collective"}
  PROVE  InitFacts(CommCalls(s), s)
<1> DEFINE a == << <<"barrier", s, 0>> >>
           b == Times(Calibration, <<Call(s), s, 0>>)
           c == << <<"barrier", s, 1>>, <<"measure", s, 0>>, <<"bops", s, 0>> >>
<1>1. a \in Seq(Of(InitNames, s)) /\ ~Has(a, "measure")
  BY OneName DEF InitNames
<1>2. b \in Seq(Of(InitNames, s)) /\ ~Has(b, "measure")
  <2>1. Call(s) \in InitNames /\ Call(s) # "measure" /\ Calibration \in Nat
    BY CalibrationIs DEF InitNames
  <2> QED BY <2>1, TimesNames
<1>3. InitFacts(c, s)
  BY ShortEnd
<1>4. CommCalls(s) = (a \o b) \o c
  BY DEF CommCalls
<1> HIDE DEF a, b, c
<1>5. a \o b \in Seq(Of(InitNames, s)) /\ ~Has(a \o b, "measure")
  BY <1>1, <1>2, Joined, HasJoined
<1> QED BY <1>3, <1>4, <1>5, InitEnds

LEMMA IPointIs ==
  ASSUME NEW s, ~UsesTop(s)
  PROVE  InitFacts(IPointCalls(s), s)
<1> DEFINE a == << <<"barrier", s, 0>> >>
           b == Posts(s, Calibration)
           w == << <<"waitall", s, 0>> >>
           c == << <<"barrier", s, 1>>, <<"measure", s, 0>>, <<"bops", s, 0>>, <<"realloc", s, 0>> >>
<1>1. a \in Seq(Of(InitNames, s)) /\ ~Has(a, "measure") /\ w \in Seq(Of(InitNames, s)) /\ ~Has(w, "measure")
  BY OneName DEF InitNames
<1>2. b \in Seq(Of(InitNames, s)) /\ ~Has(b, "measure")
  <2>1. "post" \in InitNames /\ Calibration \in Nat
    BY CalibrationIs DEF InitNames
  <2> QED BY <2>1, PostsNames
<1>3. InitFacts(c, s)
  BY OpsEnd
<1>4. IPointCalls(s) = ((a \o b) \o w) \o c
  BY DEF IPointCalls
<1> HIDE DEF a, b, c, w
<1>5. a \o b \in Seq(Of(InitNames, s)) /\ ~Has(a \o b, "measure")
  BY <1>1, <1>2, Joined, HasJoined
<1> DEFINE d == a \o b
<1> HIDE DEF d
<1>6. d \o w \in Seq(Of(InitNames, s)) /\ ~Has(d \o w, "measure")
  <2>1. d \in Seq(Of(InitNames, s)) /\ ~Has(d, "measure")
    BY <1>5 DEF d
  <2> QED BY <1>1, <2>1, Joined, HasJoined
<1>7. IPointCalls(s) = (d \o w) \o c
  BY <1>4 DEF d
<1> QED BY <1>3, <1>6, <1>7, InitEnds

LEMMA FileIs == ASSUME NEW s PROVE InitFacts(FileCalls(s), s)
<1> DEFINE a == << <<"barrier", s, 0>> >>
           b == << <<"barrier", s, 1>> >>
           c == << <<"measure", s, 0>>, <<"bops", s, 0>>, <<"btop", s, 0>> >>
<1>1. a \in Seq(Of(InitNames, s)) /\ ~Has(a, "measure") /\ b \in Seq(Of(InitNames, s)) /\ ~Has(b, "measure")
  BY OneName DEF InitNames
<1>2. InitFacts(c, s)
  BY TopEnd DEF ComputeCalls
<1>3. FileCalls(s) = a \o (b \o c)
  BY DEF FileCalls
<1> HIDE DEF a, b, c
<1>4. InitFacts(b \o c, s)
  BY <1>1, <1>2, InitEnds
<1> QED BY <1>1, <1>3, <1>4, InitEnds

LEMMA InitIs ==
  ASSUME PlanOK, NEW s \in StageIds
  PROVE  /\ InitCalls(s) \in Seq(Of(InitNames, s)) /\ MeasuresShared(InitCalls(s), s)
         /\ ~Calibrated(s) => InitCalls(s) = <<>>
         /\ Calibrated(s) => InitFacts(InitCalls(s), s)
         /\ NoCalls(InitCalls(s)) <=> ~Calibrated(s)
<1> DEFINE k == plan.stages[s].kind
<1>0. k \in Kinds
  BY StageIs
<1>1. CASE ~Calibrated(s)
  <2>1. InitCalls(s) = <<>>
    BY <1>1 DEF InitCalls
  <2>2. <<>> \in Seq(Of(InitNames, s)) /\ Len(<<>>) = 0
    OBVIOUS
  <2>3. MeasuresShared(<<>>, s) /\ NoCalls(<<>>)
    BY <2>2 DEF MeasuresShared, NoCalls
  <2> QED BY <1>1, <2>1, <2>2, <2>3
<1>2. CASE Calibrated(s)
  <2>1. InitFacts(InitCalls(s), s)
    <3>1. CASE k = "compute"
      BY <1>2, <3>1, TopEnd DEF InitCalls
    <3>2. CASE k = "ipoint"
      <4>1. ~UsesTop(s)
        BY <3>2 DEF UsesTop
      <4> QED BY <1>2, <3>2, <4>1, IPointIs DEF InitCalls
    <3>3. CASE k \in {"write", "read"}
      <4>1. k # "compute" /\ k # "ipoint"
        BY <3>3
      <4> QED BY <1>2, <3>3, <4>1, FileIs DEF InitCalls
    <3>4. CASE k \in {"point", "collective", "gather"}
      <4>1. ~UsesTop(s) /\ Call(s) \in {"p2p", "collective"}
        BY <3>4, CallIs DEF UsesTop
      <4>2. k # "compute" /\ k # "ipoint" /\ k \notin {"write", "read"}
        BY <3>4
      <4> QED BY <1>2, <4>1, <4>2, CommIs DEF InitCalls
    <3>5. k # "wait"
      BY <1>2 DEF Calibrated
    <3> QED BY <1>0, <3>1, <3>2, <3>3, <3>4, <3>5 DEF Kinds
  <2> QED BY <1>2, <2>1 DEF InitFacts
<1> QED BY <1>1, <1>2

\* A turn of a stage limited by time, and the calls of a stage.
LEMMA LapIs ==
  ASSUME PlanOK, NEW s \in StageIds, NEW i \in Nat,
         plan.stages[s].kind \in {"point", "collective", "gather", "wait"}
  PROVE  Lap(s, i) \in Seq(Of(RunNames(s), s)) /\ ~NoCalls(Lap(s, i))
<1> DEFINE k == plan.stages[s].kind
<1>0. s # 0 /\ s \in Nat
  BY StageIs
<1>1. CASE k = "wait"
  <2> DEFINE a == <<"waitpair", s, i>>
             b == <<"clock", s, i>>
             c == <<"btotal", s, i>>
  <2>1. Lap(s, i) = <<a, b, c>>
    BY <1>1 DEF Lap, WaitLap
  <2>2. {"waitpair", "clock", "btotal"} \subseteq RunNames(s)
    BY <1>0, <1>1 DEF RunNames
  <2>3. a \in Of(RunNames(s), s) /\ b \in Of(RunNames(s), s) /\ c \in Of(RunNames(s), s)
    BY <2>2, ItemIs
  <2>4. c[1] = "btotal"
    OBVIOUS
  <2> HIDE DEF a, b, c
  <2>5. <<a, b, c>> \in Seq(Of(RunNames(s), s)) /\ Len(<<a, b, c>>) = 3 /\ <<a, b, c>>[3] = c
    BY <2>3, Lists
  <2> QED BY <2>1, <2>4, <2>5, CollectivesAre DEF NoCalls, IsCall
<1>2. CASE k \in {"point", "collective", "gather"}
  <2> DEFINE a == <<Call(s), s, 0>>
             b == <<"clock", s, 0>>
             c == <<"btotal", s, 0>>
  <2>1. Lap(s, i) = <<a, b, c>>
    BY <1>2 DEF Lap
  <2>2. {Call(s), "clock", "btotal"} \subseteq RunNames(s)
    BY <1>0, <1>2, CallIs DEF RunNames
  <2>3. a \in Of(RunNames(s), s) /\ b \in Of(RunNames(s), s) /\ c \in Of(RunNames(s), s)
    BY <2>2, ItemIs
  <2>4. c[1] = "btotal"
    OBVIOUS
  <2> HIDE DEF a, b, c
  <2>5. <<a, b, c>> \in Seq(Of(RunNames(s), s)) /\ Len(<<a, b, c>>) = 3 /\ <<a, b, c>>[3] = c
    BY <2>3, Lists
  <2> QED BY <2>1, <2>4, <2>5, CollectivesAre DEF NoCalls, IsCall
<1> QED BY <1>1, <1>2

\* A barrier is a call, and there is one when the iterations are rigid.
LEMMA BarrierIs ==
  ASSUME PlanOK, NEW s, NEW names, "barrier" \in names
  PROVE  Barrier(s) \in Seq(Of(names, s)) /\ (NoCalls(Barrier(s)) <=> ~plan.rigid)
<1>1. CASE plan.rigid
  <2>1. Barrier(s) = << <<"barrier", s, 0>> >>
    BY <1>1 DEF Barrier
  <2>2. << <<"barrier", s, 0>> >> \in Seq(Of(names, s)) /\ (NoCalls(<< <<"barrier", s, 0>> >>) <=> "barrier" \notin Collectives)
    BY OneName
  <2> QED BY <1>1, <2>1, <2>2, CollectivesAre
<1>2. CASE ~plan.rigid
  <2>1. Barrier(s) = <<>>
    BY <1>2 DEF Barrier
  <2>2. <<>> \in Seq(Of(names, s)) /\ Len(<<>>) = 0
    OBVIOUS
  <2>3. NoCalls(<<>>)
    BY <2>2 DEF NoCalls
  <2> QED BY <1>2, <2>1, <2>2, <2>3
<1> QED BY <1>1, <1>2

LEMMA ProcessIs ==
  ASSUME PlanOK, NEW s \in StageIds, NEW q, Messages(s) => q.st[s].ops \in Nat \ {0}
  PROVE  Process(q, s) \in Seq(Of(RunNames(s), s)) /\ (NoCalls(Process(q, s)) <=> QuietStage(plan.stages[s]))
<1> DEFINE x == plan.stages[s]
           n == q.st[s].ops
<1>0. x.kind \in Kinds /\ x.capped \in BOOLEAN /\ s # 0 /\ s \in Nat
  BY StageIs
<1>1. CASE x.kind \in {"compute", "write", "read"}
  <2>1. Process(q, s) = <<>>
    BY <1>1 DEF Process, Limited
  <2>4. QuietStage(x)
    BY <1>1 DEF QuietStage
  <2>2. <<>> \in Seq(Of(RunNames(s), s)) /\ Len(<<>>) = 0
    OBVIOUS
  <2>3. NoCalls(<<>>)
    BY <2>2 DEF NoCalls
  <2> QED BY <2>1, <2>2, <2>3, <2>4
<1>2. CASE x.kind = "ipoint"
  <2>1. Process(q, s) = Posts(s, n) /\ QuietStage(x)
    BY <1>2 DEF Process, QuietStage, Limited
  <2>2. "post" \in RunNames(s) /\ n \in Nat
    BY <1>0, <1>2 DEF RunNames, Messages
  <2> QED BY <2>1, <2>2, PostsNames
<1>3. CASE x.kind = "wait" /\ ~x.capped
  <2>1. Process(q, s) = << <<"waitall", s, 0>> >> /\ QuietStage(x)
    BY <1>3 DEF Process, QuietStage, Limited
  <2>2. "waitall" \in RunNames(s) /\ "waitall" \notin Collectives
    BY <1>0, <1>3, CollectivesAre DEF RunNames, SendNames
  <2> QED BY <2>1, <2>2, OneName
<1>4. CASE x.kind \in {"point", "collective", "gather", "wait"} /\ x.capped
  <2>1. Process(q, s) = Lap(s, 1) /\ ~QuietStage(x)
    <3>1. x.kind \notin {"compute", "write", "read"} /\ x.kind # "ipoint"
      BY <1>4
    <3> QED BY <1>4, <3>1 DEF Process, QuietStage, Limited
  <2> QED BY <1>4, <2>1, LapIs
<1>5. CASE x.kind \in {"point", "collective", "gather"} /\ ~x.capped
  <2>1. Process(q, s) = Times(n, <<Call(s), s, 0>>)
    <3>1. x.kind \notin {"compute", "write", "read"} /\ x.kind # "ipoint" /\ x.kind # "wait"
      BY <1>5
    <3> QED BY <1>5, <3>1 DEF Process, Limited
  <2>2. n \in Nat \ {0} /\ Call(s) \in RunNames(s) /\ Call(s) # "measure"
    BY <1>0, <1>5, CallIs DEF RunNames, Messages
  <2>3. Call(s) \notin Collectives <=> QuietStage(x)
    BY <1>5, CallIs, CollectivesAre DEF QuietStage, SendNames
  <2> QED BY <2>1, <2>2, <2>3, TimesNames
<1> QED BY <1>0, <1>1, <1>2, <1>3, <1>4, <1>5 DEF Kinds

\* The calls of a stage depend on the operations and not on the rank.
LEMMA ProcessSame ==
  ASSUME NEW s, NEW x, NEW y, x.st[s].ops = y.st[s].ops
  PROVE  Process(x, s) = Process(y, s)
BY DEF Process

\* The calls of a place: the names are those of the mode, and the place is
\* quiet when there are no collective calls.
LEMMA CallsAre ==
  ASSUME PlanOK, NEW a \in Places, NEW q,
         a[1] = 1 /\ a[3] # 0 /\ Messages(a[3]) => q.st[a[3]].ops \in Nat \ {0}
  PROVE  /\ a[1] = 0 => Calls(q, a) \in Seq(Of(InitNames, a[3])) /\ MeasuresShared(Calls(q, a), a[3])
         /\ a[1] = 1 => Calls(q, a) \in Seq(Of(RunNames(a[3]), a[3]))
         /\ a[1] = 2 => Calls(q, a) \in Seq(Of({"barrier"}, 0))
         /\ a[1] = 3 => Calls(q, a) = <<>>
         /\ NoCalls(Calls(q, a)) <=> Quiet(a)
<1>0. N \in Nat /\ StageIds = 1 .. N
  BY NStages
<1>1. CASE a[1] = 0
  <2>1. a[3] \in 0 .. N
    BY <1>1 DEF Places
  <2>2. CASE a[3] = 0
    <3>1. Calls(q, a) = <<>> /\ Quiet(a)
      BY <1>1, <2>2 DEF Calls, Quiet
    <3>2. <<>> \in Seq(Of(InitNames, a[3])) /\ Len(<<>>) = 0
      OBVIOUS
    <3>3. NoCalls(<<>>) /\ MeasuresShared(<<>>, a[3])
      BY <3>2 DEF NoCalls, MeasuresShared
    <3> QED BY <1>1, <3>1, <3>2, <3>3
  <2>3. CASE a[3] # 0
    <3>1. a[3] \in StageIds
      BY <1>0, <2>1, <2>3
    <3>2. Calls(q, a) = InitCalls(a[3]) /\ (Quiet(a) <=> ~Calibrated(a[3]))
      BY <1>1, <2>3 DEF Calls, Quiet
    <3> QED BY <1>1, <3>1, <3>2, InitIs
  <2> QED BY <2>2, <2>3
<1>2. CASE a[1] = 1
  <2>1. a[3] \in 0 .. N
    BY <1>2 DEF Places
  <2>2. CASE a[3] = 0
    <3>1. "barrier" \in RunNames(0)
      BY DEF RunNames
    <3>2. Barrier(0) \in Seq(Of(RunNames(0), 0)) /\ (NoCalls(Barrier(0)) <=> ~plan.rigid)
      BY <3>1, BarrierIs
    <3>3. /\ Barrier(0) \o Barrier(0) \in Seq(Of(RunNames(0), 0))
          /\ NoCalls(Barrier(0) \o Barrier(0)) <=> ~plan.rigid
      BY <3>2, Joined, NoCallsJoined
    <3>4. Calls(q, a) \in {Barrier(0), Barrier(0) \o Barrier(0)} /\ (Quiet(a) <=> ~plan.rigid)
      BY <1>2, <2>2 DEF Calls, Quiet
    <3>5. Calls(q, a) \in Seq(Of(RunNames(0), 0)) /\ (NoCalls(Calls(q, a)) <=> ~plan.rigid)
      BY <3>2, <3>3, <3>4
    <3>6. a[1] # 0 /\ a[1] # 2 /\ a[1] # 3
      BY <1>2
    <3> QED BY <1>2, <2>2, <3>4, <3>5, <3>6
  <2>3. CASE a[3] # 0
    <3> DEFINE s == a[3]
    <3>1. s \in StageIds
      BY <1>0, <2>1, <2>3
    <3>2. "barrier" \in RunNames(s)
      BY DEF RunNames
    <3>3. Barrier(s) \in Seq(Of(RunNames(s), s)) /\ (NoCalls(Barrier(s)) <=> ~plan.rigid)
      BY <3>2, BarrierIs
    <3>4. Process(q, s) \in Seq(Of(RunNames(s), s)) /\ (NoCalls(Process(q, s)) <=> QuietStage(plan.stages[s]))
      BY <1>2, <2>3, <3>1, ProcessIs
    <3>5. Calls(q, a) = Process(q, s) \o Barrier(s) /\ (Quiet(a) <=> ~plan.rigid /\ QuietStage(plan.stages[s]))
      BY <1>2, <2>3 DEF Calls, Quiet
    <3>6. Process(q, s) \o Barrier(s) \in Seq(Of(RunNames(s), s))
      BY <3>3, <3>4, Joined
    <3>7. NoCalls(Process(q, s) \o Barrier(s)) <=> NoCalls(Process(q, s)) /\ NoCalls(Barrier(s))
      BY <3>3, <3>4, NoCallsJoined
    <3> QED BY <1>2, <3>3, <3>4, <3>5, <3>6, <3>7
  <2> QED BY <2>2, <2>3
<1>3. CASE a[1] = 2
  <2>1. Calls(q, a) = Barrier(0) /\ (Quiet(a) <=> ~plan.rigid)
    BY <1>3 DEF Calls, Quiet
  <2>2. Barrier(0) \in Seq(Of({"barrier"}, 0)) /\ (NoCalls(Barrier(0)) <=> ~plan.rigid)
    BY BarrierIs
  <2> QED BY <1>3, <2>1, <2>2
<1>4. CASE a[1] = 3
  <2>1. Calls(q, a) = <<>> /\ Quiet(a)
    BY <1>4 DEF Calls, Quiet
  <2>2. Len(<<>>) = 0
    OBVIOUS
  <2>3. NoCalls(<<>>)
    BY <2>2 DEF NoCalls
  <2> QED BY <1>4, <2>1, <2>3
<1>5. a[1] \in 0 .. 3
  BY DEF Places
<1> QED BY <1>1, <1>2, <1>3, <1>4, <1>5

-----------------------------------------------------------------------------
(* The order of the places. *)

LEMMA PlaceIs ==
  ASSUME PlanOK, NEW a \in Places
  PROVE  /\ a = <<a[1], a[2], a[3]>> /\ a[1] \in 0 .. 3 /\ a[2] \in Nat /\ a[3] \in 0 .. N
         /\ a[1] # 1 => a[2] = 0
         /\ a[1] = 1 => a[2] \in 0 .. Iters - 1
         /\ a[1] \in {2, 3} => a[3] = 0
<1>1. N \in Nat /\ Iters \in Nat
  BY NStages, CalibrationIs
<1> QED BY <1>1 DEF Places

LEMMA BeforeMore ==
  ASSUME PlanOK, NEW a \in Places, NEW b \in Places, NEW c \in Places
  PROVE  /\ Before(a, b) /\ Before(b, c) => Before(a, c)
         /\ ~Before(a, a)
         /\ Before(a, b) => a # b /\ ~Before(b, a)
<1>1. /\ a[1] \in Int /\ a[2] \in Int /\ a[3] \in Int /\ b[1] \in Int /\ b[2] \in Int /\ b[3] \in Int
      /\ c[1] \in Int /\ c[2] \in Int /\ c[3] \in Int
  BY NStages, PlaceIs
<1> QED BY <1>1 DEF Before

LEMMA BeforeTotal ==
  ASSUME PlanOK, NEW a \in Places, NEW b \in Places
  PROVE  a = b \/ Before(a, b) \/ Before(b, a)
<1>1. /\ a = <<a[1], a[2], a[3]>> /\ b = <<b[1], b[2], b[3]>>
      /\ a[1] \in Int /\ a[2] \in Int /\ a[3] \in Int /\ b[1] \in Int /\ b[2] \in Int /\ b[3] \in Int
  BY NStages, PlaceIs
<1>2. a[1] = b[1] /\ a[2] = b[2] /\ a[3] = b[3] => a = b
  BY <1>1
<1> QED BY <1>1, <1>2 DEF Before

\* Nothing is between a place and the following one.
LEMMA FollowingIs ==
  ASSUME PlanOK, NEW a \in Places, a[1] # 3
  PROVE  /\ Following(a) \in Places /\ Before(a, Following(a))
         /\ \A b \in Places : Before(a, b) => b = Following(a) \/ Before(Following(a), b)
<1> DEFINE f == Following(a)
<1>0. N \in Nat /\ Iters \in Nat \ {0}
  BY NStages, CalibrationIs
<1>1. /\ a = <<a[1], a[2], a[3]>> /\ a[1] \in 0 .. 2 /\ a[2] \in Nat /\ a[3] \in 0 .. N
      /\ a[1] # 1 => a[2] = 0
      /\ a[1] = 1 => a[2] \in 0 .. Iters - 1
      /\ a[1] = 2 => a[3] = 0
  BY PlaceIs
<1>2. CASE a[1] = 0 /\ a[3] < N
  <2>1. f = <<0, 0, a[3] + 1>>
    BY <1>2 DEF Following
  <2>2. f \in Places /\ Before(a, f)
    BY <1>0, <1>1, <1>2, <2>1 DEF Places, Before
  <2>3. ASSUME NEW b \in Places, Before(a, b) PROVE b = f \/ Before(f, b)
    <3>1. b = <<b[1], b[2], b[3]>> /\ b[1] \in 0 .. 3 /\ b[2] \in Nat /\ b[3] \in 0 .. N /\ (b[1] # 1 => b[2] = 0)
      BY PlaceIs
    <3>2. b[1] = 0 => b[3] = a[3] + 1 \/ a[3] + 1 < b[3]
      BY <1>0, <1>1, <1>2, <2>3, <3>1 DEF Before
    <3>3. b[1] = 0 /\ b[3] = a[3] + 1 => b = f
      BY <2>1, <3>1
    <3> QED BY <1>0, <2>1, <3>1, <3>2, <3>3 DEF Before
  <2> QED BY <2>2, <2>3
<1>3. CASE a[1] = 0 /\ ~(a[3] < N)
  <2>1. f = <<1, 0, 0>>
    BY <1>3 DEF Following
  <2>2. f \in Places /\ Before(a, f)
    BY <1>0, <1>1, <1>3, <2>1 DEF Places, Before
  <2>3. ASSUME NEW b \in Places, Before(a, b) PROVE b = f \/ Before(f, b)
    <3>1. b = <<b[1], b[2], b[3]>> /\ b[1] \in 0 .. 3 /\ b[2] \in Nat /\ b[3] \in 0 .. N /\ (b[1] # 1 => b[2] = 0)
      BY PlaceIs
    <3>2. b[1] # 0
      BY <1>0, <1>1, <1>3, <2>3, <3>1 DEF Before
    <3>3. b[1] = 1 /\ b[2] = 0 /\ b[3] = 0 => b = f
      BY <2>1, <3>1
    <3> QED BY <1>0, <2>1, <3>1, <3>2, <3>3 DEF Before
  <2> QED BY <2>2, <2>3
<1>4. CASE a[1] = 1 /\ a[3] < N
  <2>1. f = <<1, a[2], a[3] + 1>>
    BY <1>4 DEF Following
  <2>2. f \in Places /\ Before(a, f)
    BY <1>0, <1>1, <1>4, <2>1 DEF Places, Before
  <2>3. ASSUME NEW b \in Places, Before(a, b) PROVE b = f \/ Before(f, b)
    <3>1. b = <<b[1], b[2], b[3]>> /\ b[1] \in 0 .. 3 /\ b[2] \in Nat /\ b[3] \in 0 .. N
      BY PlaceIs
    <3>2. b[1] = 1 /\ b[2] = a[2] => b[3] = a[3] + 1 \/ a[3] + 1 < b[3]
      BY <1>0, <1>1, <1>4, <2>3, <3>1 DEF Before
    <3>3. b[1] = 1 /\ b[2] = a[2] /\ b[3] = a[3] + 1 => b = f
      BY <2>1, <3>1
    <3>4. b[1] > 1 \/ (b[1] = 1 /\ b[2] >= a[2])
      BY <1>0, <1>1, <1>4, <2>3, <3>1 DEF Before
    <3> QED BY <1>0, <1>1, <2>1, <3>1, <3>2, <3>3, <3>4 DEF Before
  <2> QED BY <2>2, <2>3
<1>5. CASE a[1] = 1 /\ ~(a[3] < N) /\ a[2] + 1 < Iters
  <2>1. f = <<1, a[2] + 1, 0>>
    BY <1>5 DEF Following
  <2>2. f \in Places /\ Before(a, f)
    <3>1. a[2] + 1 \in 0 .. Iters - 1 /\ 0 \in 0 .. N
      BY <1>0, <1>1, <1>5
    <3>2. f \in Places
      BY <2>1, <3>1 DEF Places
    <3> QED BY <1>0, <1>1, <1>5, <2>1, <3>2 DEF Before
  <2>3. ASSUME NEW b \in Places, Before(a, b) PROVE b = f \/ Before(f, b)
    <3>1. b = <<b[1], b[2], b[3]>> /\ b[1] \in 0 .. 3 /\ b[2] \in Nat /\ b[3] \in 0 .. N
      BY PlaceIs
    <3>2. b[1] > 1 \/ (b[1] = 1 /\ b[2] > a[2])
      BY <1>0, <1>1, <1>5, <2>3, <3>1 DEF Before
    <3>3. b[1] = 1 /\ b[2] = a[2] + 1 /\ b[3] = 0 => b = f
      BY <2>1, <3>1
    <3> QED BY <1>0, <1>1, <2>1, <3>1, <3>2, <3>3 DEF Before
  <2> QED BY <2>2, <2>3
<1>6. CASE a[1] = 1 /\ ~(a[3] < N) /\ ~(a[2] + 1 < Iters)
  <2>1. f = <<2, 0, 0>>
    BY <1>6 DEF Following
  <2>2. f \in Places /\ Before(a, f)
    BY <1>6, <2>1 DEF Places, Before
  <2>3. ASSUME NEW b \in Places, Before(a, b) PROVE b = f \/ Before(f, b)
    <3>1. /\ b = <<b[1], b[2], b[3]>> /\ b[1] \in 0 .. 3 /\ b[2] \in Nat /\ b[3] \in 0 .. N
          /\ b[1] # 1 => b[2] = 0
          /\ b[1] = 1 => b[2] \in 0 .. Iters - 1
          /\ b[1] \in {2, 3} => b[3] = 0
      BY PlaceIs
    <3>2. b[1] = 2 \/ b[1] = 3
      BY <1>0, <1>1, <1>6, <2>3, <3>1 DEF Before
    <3>3. b[1] = 2 => b = f
      BY <2>1, <3>1
    <3> QED BY <2>1, <3>2, <3>3 DEF Before
  <2> QED BY <2>2, <2>3
<1>7. CASE a[1] = 2
  <2>1. f = <<3, 0, 0>>
    BY <1>7 DEF Following
  <2>2. f \in Places /\ Before(a, f)
    BY <1>7, <2>1 DEF Places, Before
  <2>3. ASSUME NEW b \in Places, Before(a, b) PROVE b = f \/ Before(f, b)
    <3>1. /\ b = <<b[1], b[2], b[3]>> /\ b[1] \in 0 .. 3 /\ b[2] \in Nat /\ b[3] \in 0 .. N
          /\ b[1] # 1 => b[2] = 0
          /\ b[1] \in {2, 3} => b[3] = 0
      BY PlaceIs
    <3>2. b[1] = 3
      BY <1>1, <1>7, <2>3, <3>1 DEF Before
    <3> QED BY <2>1, <3>1, <3>2
  <2> QED BY <2>2, <2>3
<1>8. a[1] = 0 \/ a[1] = 1 \/ a[1] = 2
  BY <1>1
<1> QED BY <1>2, <1>3, <1>4, <1>5, <1>6, <1>7, <1>8

-----------------------------------------------------------------------------
(* Two ranks, one ahead of the other. *)

\* The place of a rank, and the calls it had when it came to it.
Placed(q) ==
  /\ q.todo \in Seq(Items)
  /\ q.mode # "config" =>
       /\ Place(q) \in Places /\ Calls(q, Place(q)) \in Seq(Items)
       /\ NoCalls(Calls(q, Place(q))) <=> Quiet(Place(q))
  /\ q.mode = "config" => Place(q) = <<4, 0, 0>>

Near(x, y) == Behind(x, y) \/ Behind(y, x)

\* A rank that is behind is in a place of the same communicator.
LEMMA BehindPlaces ==
  ASSUME PlanOK, NEW x, NEW y, Placed(x), Placed(y), Before(Place(x), Place(y)), y.mode # "config"
  PROVE  Place(x) \in Places /\ Place(y) \in Places /\ x.mode # "config"
<1>1. Place(y) \in Places
  BY DEF Placed
<1>2. Place(y)[1] \in 0 .. 3
  BY <1>1, PlaceIs
<1>3. x.mode # "config"
  <2>1. ASSUME x.mode = "config" PROVE FALSE
    <3>1. Place(x) = <<4, 0, 0>>
      BY <2>1 DEF Placed
    <3> HIDE DEF Place
    <3> QED BY <1>2, <3>1 DEF Before
  <2> QED BY <2>1
<1> QED BY <1>1, <1>3 DEF Placed

\* Two ranks with a collective call to make are in the same place, with the
\* same calls to make.
LEMMA MeetInCall ==
  ASSUME NEW x, NEW y, Placed(x), Placed(y), Near(x, y),
         x.todo # <<>>, y.todo # <<>>, IsCall(Head(x.todo)), IsCall(Head(y.todo))
  PROVE  Place(x) = Place(y) /\ x.todo = y.todo
<1> SUFFICES ASSUME NEW a, NEW b, Placed(a), Placed(b), Behind(a, b), a.todo # <<>>, IsCall(Head(a.todo))
             PROVE  Place(a) = Place(b) /\ b.todo = a.todo
  BY DEF Near
<1>1. a.todo \in Seq(Items) /\ b.todo \in Seq(Items) /\ Head(a.todo) = a.todo[1] /\ 1 \in 1 .. Len(a.todo)
  <2>1. a.todo \in Seq(Items) /\ b.todo \in Seq(Items)
    BY DEF Placed
  <2>2. Len(a.todo) \in Nat \ {0} /\ Head(a.todo) = a.todo[1]
    BY <2>1, TailIs
  <2> QED BY <2>1, <2>2
<1>2. ~NoCalls(a.todo)
  BY <1>1 DEF NoCalls
<1>3. Place(a) = Place(b) /\ Ahead(b.todo, a.todo)
  BY <1>2 DEF Behind
<1> QED BY <1>1, <1>3, AheadFacts

\* A rank that does what no other takes part in.
LEMMA NearDrop ==
  ASSUME PlanOK, NEW x, NEW y, NEW z, Placed(x), Placed(y), Placed(z), Near(x, y),
         Place(z) = Place(y), z.mode = y.mode, Calls(z, Place(z)) = Calls(y, Place(y)),
         y.todo # <<>>, ~IsCall(Head(y.todo)), z.todo = Tail(y.todo)
  PROVE  Near(x, z)
<1>1. x.todo \in Seq(Items) /\ y.todo \in Seq(Items) /\ z.todo \in Seq(Items)
  BY DEF Placed
<1>2. Ahead(z.todo, y.todo)
  BY <1>1, AheadTail
<1>3. CASE Place(x) = Place(y) /\ Ahead(y.todo, x.todo)
  <2>1. Ahead(z.todo, x.todo)
    BY <1>1, <1>2, <1>3, AheadMore
  <2> QED BY <1>3, <2>1 DEF Near, Behind
<1>4. CASE /\ Before(Place(x), Place(y)) /\ y.mode # "config"
           /\ NoCalls(x.todo) /\ QuietBetween(Place(x), Place(y)) /\ Ahead(y.todo, Calls(y, Place(y)))
  <2>1. Calls(y, Place(y)) \in Seq(Items)
    BY <1>4 DEF Placed
  <2>2. Ahead(z.todo, Calls(z, Place(z)))
    BY <1>1, <1>2, <1>4, <2>1, AheadMore
  <2> QED BY <1>4, <2>2 DEF Near, Behind
<1>5. CASE Place(y) = Place(x) /\ Ahead(x.todo, y.todo)
  <2>1. CASE x.todo = y.todo
    <3>1. Ahead(z.todo, x.todo)
      BY <1>2, <2>1
    <3> QED BY <1>5, <3>1 DEF Near, Behind
  <2>2. CASE x.todo # y.todo
    <3>1. Ahead(x.todo, z.todo)
      BY <1>1, <1>5, <2>2, AheadOrSame
    <3> QED BY <1>5, <3>1 DEF Near, Behind
  <2> QED BY <2>1, <2>2
<1>6. CASE /\ Before(Place(y), Place(x)) /\ x.mode # "config"
           /\ NoCalls(y.todo) /\ QuietBetween(Place(y), Place(x)) /\ Ahead(x.todo, Calls(x, Place(x)))
  <2>1. NoCalls(z.todo)
    BY <1>1, <1>6, NoCallsTail
  <2> QED BY <1>6, <2>1 DEF Near, Behind
<1> QED BY <1>3, <1>4, <1>5, <1>6 DEF Near, Behind

\* A rank that comes to the next place.
LEMMA NearMove ==
  ASSUME PlanOK, NEW x, NEW y, NEW z, Placed(x), Placed(y), Placed(z), Near(x, y),
         y.mode # "config", y.todo = <<>>, Place(y)[1] # 3,
         z.mode # "config", Place(z) = Following(Place(y)), z.todo = Calls(z, Place(z)),
         x.mode # "config" /\ Place(x) = Place(z) => Calls(x, Place(x)) = Calls(z, Place(z))
  PROVE  Near(x, z)
<1>1. x.todo \in Seq(Items) /\ y.todo \in Seq(Items) /\ z.todo \in Seq(Items)
  BY DEF Placed
<1> DEFINE a == Place(y)
           f == Place(z)
<1>2. a \in Places /\ f \in Places /\ Before(a, f) /\ \A b \in Places : Before(a, b) => b = f \/ Before(f, b)
  BY FollowingIs DEF Placed
<1>3. NoCalls(<<>>)
  BY DEF NoCalls
<1>4. Ahead(z.todo, Calls(z, f))
  BY <1>1, AheadSame
<1>5. QuietBetween(a, f)
  BY <1>2, BeforeMore DEF QuietBetween
<1>6. ASSUME Place(x) = a, NoCalls(x.todo) PROVE Near(x, z)
  BY <1>2, <1>4, <1>5, <1>6 DEF Near, Behind
<1>7. CASE Place(x) = a /\ Ahead(y.todo, x.todo)
  <2>1. NoCalls(x.todo)
    BY <1>1, <1>7, AheadFacts
  <2> QED BY <1>6, <1>7, <2>1
<1>8. CASE /\ Before(Place(x), a) /\ NoCalls(x.todo) /\ QuietBetween(Place(x), a) /\ Ahead(y.todo, Calls(y, a))
  <2>1. Place(x) \in Places
    BY <1>8, BehindPlaces
  <2>2. Before(Place(x), f)
    BY <1>2, <1>8, <2>1, BeforeMore
  <2>3. Quiet(a)
    <3>1. Calls(y, a) \in Seq(Items) /\ (NoCalls(Calls(y, a)) <=> Quiet(a))
      BY DEF Placed
    <3>2. NoCalls(Calls(y, a))
      BY <1>1, <1>8, <3>1, AheadFacts
    <3> QED BY <3>1, <3>2
  <2>4. QuietBetween(Place(x), f)
    <3>1. ASSUME NEW c \in Places, Before(Place(x), c), Before(c, f) PROVE Quiet(c)
      <4>1. CASE c = a
        BY <2>3, <4>1
      <4>2. CASE Before(c, a)
        BY <1>8, <3>1, <4>2 DEF QuietBetween
      <4>3. CASE Before(a, c)
        BY <1>5, <3>1, <4>3 DEF QuietBetween
      <4>4. c = a \/ Before(c, a) \/ Before(a, c)
        BY <1>2, <3>1, BeforeTotal
      <4> QED BY <4>1, <4>2, <4>3, <4>4
    <3> QED BY <3>1 DEF QuietBetween
  <2> QED BY <1>4, <1>8, <2>2, <2>4 DEF Near, Behind
<1>9. CASE a = Place(x) /\ Ahead(x.todo, y.todo)
  <2>1. x.todo = <<>>
    BY <1>1, <1>9, AheadFacts
  <2> QED BY <1>3, <1>6, <1>9, <2>1
<1>10. CASE /\ Before(a, Place(x)) /\ x.mode # "config"
            /\ NoCalls(y.todo) /\ QuietBetween(a, Place(x)) /\ Ahead(x.todo, Calls(x, Place(x)))
  <2>1. Place(x) \in Places
    BY <1>10 DEF Placed
  <2>2. CASE Place(x) = f
    <3>1. Ahead(x.todo, z.todo)
      BY <1>10, <2>2
    <3> QED BY <2>2, <3>1 DEF Near, Behind
  <2>3. CASE Before(f, Place(x))
    <3>1. Quiet(f)
      BY <1>2, <1>10, <2>3 DEF QuietBetween
    <3>2. NoCalls(z.todo)
      BY <3>1 DEF Placed
    <3>3. QuietBetween(f, Place(x))
      <4>1. ASSUME NEW c \in Places, Before(f, c), Before(c, Place(x)) PROVE Quiet(c)
        <5>1. Before(a, c)
          BY <1>2, <4>1, BeforeMore
        <5> QED BY <1>10, <4>1, <5>1 DEF QuietBetween
      <4> QED BY <4>1 DEF QuietBetween
    <3> QED BY <1>10, <2>3, <3>2, <3>3 DEF Near, Behind
  <2> QED BY <1>2, <1>10, <2>1, <2>2, <2>3
<1> QED BY <1>7, <1>8, <1>9, <1>10 DEF Near, Behind

-----------------------------------------------------------------------------
(* Each rank, and each two ranks. *)

LEMMA NamesAre ==
  /\ InitNames \subseteq Names /\ SendNames \subseteq Names /\ {"barrier"} \subseteq Names
  /\ \A s : RunNames(s) \subseteq Names
<1>1. ASSUME NEW s PROVE RunNames(s) \subseteq Names
  BY DEF RunNames, Names, InitNames, LapNames
<1> QED BY <1>1 DEF Names, InitNames

LEMMA PlaceOf ==
  ASSUME NEW q
  PROVE  /\ q.mode = "init" => Place(q) = <<0, 0, q.s>>
         /\ q.mode = "run" => Place(q) = <<1, q.iter, q.s>>
         /\ q.mode = "ready" => Place(q) = <<2, 0, 0>>
         /\ q.mode = "gone" => Place(q) = <<3, 0, 0>>
         /\ q.mode = "config" => Place(q) = <<4, 0, 0>>
BY DEF Place, Phase

LEMMA PlacedIs ==
  ASSUME PlanOK, NEW p, NEW q, ProcOK(p, q)
  PROVE  Placed(q)
<1>0. N \in Nat /\ StageIds = 1 .. N
  BY NStages
<1>1. q.todo \in Seq(Items) /\ TodoOK(q) /\ DataOK(p, q)
  BY DEF ProcOK, IsProc
<1>2. q.mode \in {"init", "run", "ready", "gone", "config"}
  BY <1>1 DEF TodoOK
<1>3. ASSUME q.mode # "config" PROVE Place(q) \in Places
  <2>1. CASE q.mode = "init"
    <3>1. q.s \in 0 .. N
      BY <1>1, <2>1 DEF TodoOK
    <3> QED BY <2>1, <3>1, PlaceOf DEF Places
  <2>2. CASE q.mode = "run"
    <3>1. q.s \in 0 .. N /\ q.iter \in 0 .. Iters - 1
      BY <1>1, <2>2 DEF TodoOK
    <3> QED BY <2>2, <3>1, PlaceOf DEF Places
  <2>3. CASE q.mode \in {"ready", "gone"}
    BY <2>3, PlaceOf DEF Places
  <2> QED BY <1>2, <1>3, <2>1, <2>2, <2>3
<1>4. ASSUME q.mode # "config"
      PROVE  Calls(q, Place(q)) \in Seq(Items) /\ (NoCalls(Calls(q, Place(q))) <=> Quiet(Place(q)))
  <2> DEFINE a == Place(q)
  <2>1. a \in Places
    BY <1>3, <1>4
  <2>2. a[1] = 1 => q.mode = "run" /\ a[3] = q.s
    <3>1. q.mode \in {"init", "ready", "gone"} => a[1] # 1
      BY PlaceOf
    <3> QED BY <1>2, <1>4, <3>1, PlaceOf
  <2>3. a[1] = 1 /\ a[3] # 0 /\ Messages(a[3]) => q.st[a[3]].ops \in Nat \ {0}
    <3>1. a[1] = 1 /\ a[3] # 0 => a[3] \in StageIds
      BY <1>0, <2>1, PlaceIs
    <3> QED BY <1>1, <2>2, <3>1 DEF DataOK, Reached
  <2> HIDE DEF a
  <2>4. /\ a[1] = 0 => Calls(q, a) \in Seq(Of(InitNames, a[3]))
        /\ a[1] = 1 => Calls(q, a) \in Seq(Of(RunNames(a[3]), a[3]))
        /\ a[1] = 2 => Calls(q, a) \in Seq(Of({"barrier"}, 0))
        /\ a[1] = 3 => Calls(q, a) = <<>>
        /\ NoCalls(Calls(q, a)) <=> Quiet(a)
    BY <2>1, <2>3, CallsAre
  <2>5. a[1] \in 0 .. 3 /\ a[3] \in Nat
    BY <1>0, <2>1, PlaceIs
  <2>6. Calls(q, a) \in Seq(Items)
    <3>1. CASE a[1] = 0
      BY <2>4, <2>5, <3>1, NamesAre, ItemsAre
    <3>2. CASE a[1] = 1
      BY <2>4, <2>5, <3>2, NamesAre, ItemsAre
    <3>3. CASE a[1] = 2
      BY <2>4, <2>5, <3>3, NamesAre, ItemsAre
    <3>4. CASE a[1] = 3
      <4>1. <<>> \in Seq(Items)
        OBVIOUS
      <4> QED BY <2>4, <3>4, <4>1
    <3>5. a[1] = 0 \/ a[1] = 1 \/ a[1] = 2 \/ a[1] = 3
      BY <2>5
    <3> QED BY <3>1, <3>2, <3>3, <3>4, <3>5
  <2> QED BY <2>4, <2>6 DEF a
<1> QED BY <1>1, <1>3, <1>4, PlaceOf DEF Placed

LEMMA PairTurned == ASSUME NEW p, NEW q, NEW x, NEW y, Pair(p, q, x, y) PROVE Pair(q, p, y, x)
<1>1. AgreeOps(y, x)
  BY DEF Pair, AgreeOps
<1>2. AgreeTop(q, p, y, x)
  BY DEF Pair, AgreeTop
<1> QED BY <1>1, <1>2 DEF Pair

LEMMA PairSelf == ASSUME NEW p, NEW x, x.todo \in Seq(Items) PROVE Pair(p, p, x, x)
<1>1. Behind(x, x)
  BY AheadSame DEF Behind
<1>2. AgreeOps(x, x) /\ AgreeTop(p, p, x, x)
  BY DEF AgreeOps, AgreeTop
<1> QED BY <1>1, <1>2 DEF Pair

\* One rank changes.
LEMMA OneChange ==
  ASSUME NEW m, NEW n, NEW p \in Talking, Together(m), ProcOK(p, n[p]),
         \A r \in Talking : r # p => n[r] = m[r] /\ Pair(r, p, m[r], n[p])
  PROVE  Together(n)
<1>1. \A r \in Talking : ProcOK(r, n[r])
  BY DEF Together
<1>2. ASSUME NEW r \in Talking, NEW s \in Talking PROVE Pair(r, s, n[r], n[s])
  <2>1. CASE r = p /\ s = p
    <3>1. n[p].todo \in Seq(Items)
      BY DEF ProcOK, IsProc
    <3> QED BY <2>1, <3>1, PairSelf
  <2>2. CASE r = p /\ s # p
    BY <2>2, PairTurned
  <2>3. CASE r # p /\ s = p
    BY <2>3
  <2>4. CASE r # p /\ s # p
    BY <2>4 DEF Together
  <2> QED BY <2>1, <2>2, <2>3, <2>4
<1> QED BY <1>1, <1>2 DEF Together

\* A rank does a step of its own: it goes on to the next item, and leaves alone
\* what the ranks agree on.
Drops(p, q, z) ==
  /\ IsProc(z) /\ (Stored(q) => Stored(z)) /\ z.mode = q.mode /\ z.s = q.s /\ z.iter = q.iter
  /\ q.todo # <<>> /\ ~IsCall(Head(q.todo)) /\ z.todo = Tail(q.todo)
  /\ \A s \in StageIds :
       /\ z.st[s].my = q.st[s].my /\ z.st[s].counts = q.st[s].counts
       /\ Settled(q, s) => z.st[s].ops = q.st[s].ops /\ z.st[s].top = q.st[s].top
       /\ UsesTop(s) /\ TopSettled(p, q, s) => z.st[s].top = q.st[s].top
       /\ Reached(q, s) /\ Messages(s) => z.st[s].ops \in Nat \ {0}

LEMMA DropSettled ==
  ASSUME NEW p, NEW q, NEW z, Drops(p, q, z), q.todo \in Seq(Items), NEW s
  PROVE  /\ Settled(z, s) <=> Settled(q, s)
         /\ TopSettled(p, z, s) <=> TopSettled(p, q, s)
         /\ Reached(z, s) <=> Reached(q, s)
<1>1. ~IsCall(Head(q.todo)) /\ q.todo # <<>> /\ z.todo = Tail(q.todo) /\ z.mode = q.mode /\ z.s = q.s
  BY DEF Drops
<1>2. Head(q.todo)[1] \notin {"bops", "btop", "stages"}
  BY <1>1, CollectivesAre DEF IsCall, SendNames
<1>3. \A name \in {"bops", "btop", "stages"} : Has(z.todo, name) <=> Has(q.todo, name)
  <2>1. ASSUME NEW name \in {"bops", "btop", "stages"} PROVE Has(Tail(q.todo), name) <=> Has(q.todo, name)
    BY <1>1, <1>2, HasTail
  <2> QED BY <1>1, <2>1
<1> QED BY <1>1, <1>3 DEF Settled, TopSettled, Reached

LEMMA DropOK ==
  ASSUME PlanOK, NEW p, NEW q, NEW z, ProcOK(p, q), Drops(p, q, z)
  PROVE  ProcOK(p, z)
<1>1. IsProc(z) /\ z.mode = q.mode /\ z.s = q.s /\ z.iter = q.iter /\ q.todo # <<>> /\ z.todo = Tail(q.todo)
      /\ ~IsCall(Head(q.todo))
  BY DEF Drops
<1>2. q.todo \in Seq(Items) /\ TodoOK(q) /\ DataOK(p, q)
  BY DEF ProcOK, IsProc
<1>3. TodoOK(z)
  <2>1. CASE q.mode = "init"
    <3>1. q.s \in 0 .. N /\ q.iter = 0 /\ q.todo \in Seq(Of(InitNames, q.s)) /\ MeasuresShared(q.todo, q.s) /\ q.s # 0 /\ Calibrated(q.s)
      BY <1>1, <1>2, <2>1 DEF TodoOK
    <3>2. Tail(q.todo) \in Seq(Of(InitNames, q.s)) /\ MeasuresShared(Tail(q.todo), q.s)
      BY <1>1, <3>1, TailIs, SharedTail
    <3> QED BY <1>1, <2>1, <3>1, <3>2 DEF TodoOK
  <2>2. CASE q.mode = "run"
    <3>1. q.s \in 0 .. N /\ q.iter \in 0 .. Iters - 1 /\ q.todo \in Seq(Of(RunNames(q.s), q.s))
      BY <1>2, <2>2 DEF TodoOK
    <3>2. Tail(q.todo) \in Seq(Of(RunNames(q.s), q.s))
      BY <1>1, <3>1, TailIs
    <3> QED BY <1>1, <2>2, <3>1, <3>2 DEF TodoOK
  <2>3. CASE q.mode = "ready"
    <3>1. q.todo \in Seq(Of({"barrier"}, 0))
      BY <1>2, <2>3 DEF TodoOK
    <3>2. Tail(q.todo) \in Seq(Of({"barrier"}, 0))
      BY <1>1, <3>1, TailIs
    <3> QED BY <1>1, <2>3, <3>2 DEF TodoOK
  <2>4. q.mode # "gone"
    BY <1>1, <1>2 DEF TodoOK
  <2>5. CASE q.mode = "config"
    <3>1. q.todo \in Seq(Of(SendNames, 0)) /\ group = 1
      BY <1>2, <2>5 DEF TodoOK
    <3>2. Tail(q.todo) \in Seq(Of(SendNames, 0))
      BY <1>1, <3>1, TailIs
    <3> QED BY <1>1, <2>5, <3>1, <3>2 DEF TodoOK
  <2> QED BY <1>2, <2>1, <2>2, <2>3, <2>4, <2>5 DEF TodoOK
<1>4. DataOK(p, z)
  <2>1. ASSUME NEW s \in StageIds
        PROVE  /\ Reached(z, s) /\ Messages(s) => z.st[s].ops \in Nat \ {0}
               /\ Settled(z, s) /\ ~Calibrated(s) => z.st[s].ops = LocalOps(s, z.st[s].top)
               /\ Reached(z, s) /\ plan.stages[s].kind = "gather" => GatherOK(z.st[s], s, Rank(p))
    <3>1. (Settled(z, s) <=> Settled(q, s)) /\ (Reached(z, s) <=> Reached(q, s))
      BY <1>2, DropSettled
    <3>2. /\ z.st[s].my = q.st[s].my /\ z.st[s].counts = q.st[s].counts
          /\ Settled(q, s) => z.st[s].ops = q.st[s].ops /\ z.st[s].top = q.st[s].top
          /\ Reached(q, s) /\ Messages(s) => z.st[s].ops \in Nat \ {0}
      BY DEF Drops
    <3>3. /\ Settled(q, s) /\ ~Calibrated(s) => q.st[s].ops = LocalOps(s, q.st[s].top)
          /\ Reached(q, s) /\ plan.stages[s].kind = "gather" => GatherOK(q.st[s], s, Rank(p))
      BY <1>2 DEF DataOK
    <3>4. GatherOK(q.st[s], s, Rank(p)) => GatherOK(z.st[s], s, Rank(p))
      BY <3>2 DEF GatherOK
    <3> QED BY <3>1, <3>2, <3>3, <3>4
  <2> QED BY <2>1 DEF DataOK
<1>5. (p \in Kids /\ Has(z.todo, "stages")) \/ Stored(z)
  <2>1. CASE Stored(q)
    BY <2>1 DEF Drops
  <2>2. CASE p \in Kids /\ Has(q.todo, "stages")
    <3>1. Head(q.todo)[1] # "stages"
      BY <1>1, CollectivesAre DEF IsCall, SendNames
    <3>2. Has(Tail(q.todo), "stages")
      BY <1>1, <1>2, <2>2, <3>1, HasTail
    <3> QED BY <1>1, <2>2, <3>2
  <2> QED BY <2>1, <2>2 DEF ProcOK
<1>6. p \in Kids => z.mode = "config"
  BY <1>1 DEF ProcOK
<1> QED BY <1>1, <1>3, <1>4, <1>5, <1>6 DEF ProcOK

LEMMA DropPair ==
  ASSUME PlanOK, NEW p, NEW r, NEW x, NEW q, NEW z,
         ProcOK(r, x), ProcOK(p, q), Pair(r, p, x, q), Drops(p, q, z)
  PROVE  Pair(r, p, x, z)
<1>1. ProcOK(p, z)
  BY DropOK
<1>2. Placed(x) /\ Placed(q) /\ Placed(z)
  BY <1>1, PlacedIs
<1>3. z.mode = q.mode /\ z.s = q.s /\ z.iter = q.iter /\ q.todo # <<>> /\ z.todo = Tail(q.todo) /\ ~IsCall(Head(q.todo))
  BY DEF Drops
<1>4. Place(z) = Place(q)
  BY <1>3 DEF Place
<1>5. Calls(z, Place(z)) = Calls(q, Place(q))
  <2> DEFINE a == Place(q)
  <2>1. ASSUME a[1] = 1, a[3] # 0 PROVE Process(z, a[3]) = Process(q, a[3])
    <3>1. q.mode = "run" /\ a[3] = q.s
      <4>1. q.mode \in {"init", "run", "ready", "gone", "config"}
        BY DEF ProcOK, TodoOK
      <4>2. q.mode \in {"init", "ready", "gone", "config"} => a[1] # 1
        BY PlaceOf
      <4> QED BY <2>1, <4>1, <4>2, PlaceOf
    <3>2. a[3] \in StageIds
      <4>1. q.s \in 0 .. N
        BY <3>1 DEF ProcOK, TodoOK
      <4> QED BY <2>1, <3>1, <4>1, NStages
    <3>3. z.st[a[3]].ops = q.st[a[3]].ops
      BY <3>1, <3>2 DEF Drops, Settled
    <3> QED BY <3>3, ProcessSame
  <2> HIDE DEF a
  <2>2. Calls(z, a) = Calls(q, a)
    BY <2>1 DEF Calls
  <2> QED BY <1>4, <2>2 DEF a
<1>6. Near(x, z)
  <2>1. Near(x, q)
    BY DEF Near, Pair
  <2> QED BY <1>2, <1>3, <1>4, <1>5, <2>1, NearDrop
<1>7. q.todo \in Seq(Items)
  BY DEF ProcOK, IsProc
<1>8. AgreeOps(x, z)
  <2>1. ASSUME NEW s \in StageIds, Settled(x, s), Settled(z, s) PROVE x.st[s].ops = z.st[s].ops
    <3>1. Settled(q, s)
      BY <1>7, <2>1, DropSettled
    <3> QED BY <2>1, <3>1 DEF Pair, AgreeOps, Drops
  <2> QED BY <2>1 DEF AgreeOps
<1>9. AgreeTop(r, p, x, z)
  <2>1. ASSUME NEW s \in StageIds, UsesTop(s), TopSettled(r, x, s), TopSettled(p, z, s) PROVE x.st[s].top = z.st[s].top
    <3>1. TopSettled(p, q, s)
      BY <1>7, <2>1, DropSettled
    <3> QED BY <2>1, <3>1 DEF Pair, AgreeTop, Drops
  <2> QED BY <2>1 DEF AgreeTop
<1> QED BY <1>6, <1>8, <1>9 DEF Pair, Near

-----------------------------------------------------------------------------
(* What a rank does on its own. *)

LEMMA HeadIs ==
  ASSUME NEW p, NEW q, ProcOK(p, q), q.todo # <<>>
  PROVE  /\ Head(q.todo) = q.todo[1] /\ Head(q.todo)[1] \in Names
         /\ q.mode \in {"init", "run", "ready", "config"}
         /\ q.mode = "init" => Head(q.todo)[1] \in InitNames /\ Head(q.todo)[2] = q.s /\ q.s \in 1 .. N
                               /\ Calibrated(q.s)
         /\ q.mode = "run" => Head(q.todo)[1] \in RunNames(q.s) /\ Head(q.todo)[2] = q.s
         /\ q.mode = "ready" => Head(q.todo)[1] = "barrier"
         /\ q.mode = "config" => Head(q.todo)[1] \in SendNames
<1>0. q.todo \in Seq(Items) /\ TodoOK(q)
  BY DEF ProcOK, IsProc
<1>1. Head(q.todo) = q.todo[1] /\ 1 \in 1 .. Len(q.todo) /\ q.todo[1] \in Items
  <2>1. Head(q.todo) = q.todo[1] /\ Len(q.todo) \in Nat \ {0} /\ q.todo[1] \in Items
    BY <1>0, TailIs
  <2> QED BY <2>1
<1>2. ASSUME NEW names, NEW s, q.todo \in Seq(Of(names, s)) PROVE Head(q.todo)[1] \in names /\ Head(q.todo)[2] = s
  BY <1>1, <1>2, NamesIs
<1>3. q.mode = "init" => Head(q.todo)[1] \in InitNames /\ Head(q.todo)[2] = q.s /\ q.s \in 0 .. N /\ q.s # 0 /\ Calibrated(q.s)
  BY <1>0, <1>2 DEF TodoOK
<1>4. q.mode = "run" => Head(q.todo)[1] \in RunNames(q.s) /\ Head(q.todo)[2] = q.s
  BY <1>0, <1>2 DEF TodoOK
<1>5. q.mode = "ready" => Head(q.todo)[1] = "barrier"
  BY <1>0, <1>2 DEF TodoOK
<1>6. q.mode = "config" => Head(q.todo)[1] \in SendNames
  BY <1>0, <1>2 DEF TodoOK
<1>7. q.mode \in {"init", "run", "ready", "config"}
  BY <1>0 DEF TodoOK
<1>8. Head(q.todo)[1] \in Names
  BY <1>1 DEF Items
<1> QED BY <1>1, <1>3, <1>4, <1>5, <1>6, <1>7, <1>8

\* A rank with something to do in its initialisation.
LEMMA InitHead ==
  ASSUME PlanOK, NEW p, NEW q, ProcOK(p, q), q.todo # <<>>, Head(q.todo)[1] \in {"measure", "realloc"}
  PROVE  /\ q.mode = "init" /\ Head(q.todo)[2] = q.s /\ q.s \in StageIds /\ Stored(q) /\ group = 1
         /\ Head(q.todo)[1] = "measure" =>
              Has(q.todo, "bops") /\ (UsesTop(q.s) => Has(q.todo, "btop"))
<1>1. q.mode = "init"
  <2>1. q.mode # "run"
    <3>1. \A s : "measure" \notin RunNames(s) /\ "realloc" \notin RunNames(s)
      BY DEF RunNames
    <3> QED BY <3>1, HeadIs
  <2>2. q.mode # "ready" /\ q.mode # "config"
    BY HeadIs DEF SendNames
  <2> QED BY <2>1, <2>2, HeadIs
<1>2. Head(q.todo)[2] = q.s /\ q.s \in StageIds /\ Calibrated(q.s)
  BY <1>1, HeadIs, NStages
<1>3. group = 1
  BY <1>2 DEF Calibrated, compute
<1>4. Stored(q)
  BY <1>1 DEF ProcOK
<1>5. Head(q.todo)[1] = "measure" => Has(q.todo, "bops") /\ (UsesTop(q.s) => Has(q.todo, "btop"))
  <2> SUFFICES ASSUME Head(q.todo)[1] = "measure" PROVE Has(q.todo, "bops") /\ (UsesTop(q.s) => Has(q.todo, "btop"))
    OBVIOUS
  <2>1. MeasuresShared(q.todo, q.s)
    BY <1>1 DEF ProcOK, TodoOK
  <2>2. q.todo[1][1] = "measure" /\ Len(q.todo) \in Nat \ {0}
    BY HeadIs, TailIs DEF ProcOK, IsProc
  <2>3. /\ 1 + 1 <= Len(q.todo) /\ q.todo[1 + 1][1] = "bops"
        /\ UsesTop(q.s) => 1 + 2 <= Len(q.todo) /\ q.todo[1 + 2][1] = "btop"
    BY <2>1, <2>2 DEF MeasuresShared
  <2>4. 1 + 1 \in 1 .. Len(q.todo) /\ (UsesTop(q.s) => 1 + 2 \in 1 .. Len(q.todo))
    BY <2>2, <2>3
  <2> QED BY <2>3, <2>4 DEF Has
<1> QED BY <1>1, <1>2, <1>3, <1>4, <1>5

LEMMA Memory == ASSUME NEW p, NEW q, ProcOK(p, q) PROVE DOMAIN q = Fields /\ q.todo \in Seq(Items)
BY DEF ProcOK, IsProc

\* A step that leaves the stages alone.
LEMMA PlainDrop ==
  ASSUME NEW p, NEW q, NEW z, ProcOK(p, q), q.todo # <<>>, ~IsCall(Head(q.todo)),
         DOMAIN z = Fields, z.st = q.st, z.mode = q.mode, z.s = q.s, z.iter = q.iter, z.todo = Tail(q.todo)
  PROVE  Drops(p, q, z)
<1>1. q.todo \in Seq(Items)
  BY Memory
<1>2. IsProc(z)
  BY <1>1, TailIs DEF IsProc
<1>3. Stored(q) => Stored(z)
  BY DEF Stored
<1>4. \A s \in StageIds : Reached(q, s) /\ Messages(s) => z.st[s].ops \in Nat \ {0}
  BY DEF ProcOK, DataOK
<1> QED BY <1>2, <1>3, <1>4 DEF Drops

LEMMA RestIs ==
  ASSUME NEW q, DOMAIN q = Fields
  PROVE  /\ DOMAIN Rest(q) = Fields /\ Rest(q).todo = Tail(q.todo) /\ Rest(q).st = q.st /\ Rest(q).mode = q.mode
         /\ Rest(q).s = q.s /\ Rest(q).iter = q.iter /\ Rest(q).live = q.live /\ Rest(q).len = q.len
         /\ Rest(q).active = q.active /\ Rest(q).posted = q.posted /\ Rest(q).late = q.late
BY DEF Rest, Fields

\* The clock, an exchange posted, a wait, a pairwise exchange.
LEMMA ClockDrops ==
  ASSUME NEW p, NEW q, ProcOK(p, q), q.todo # <<>>, ~IsCall(Head(q.todo)), NEW late, NEW n, NEW set, NEW other
  PROVE  /\ Drops(p, q, [Rest(q) EXCEPT !.late = late])
         /\ Drops(p, q, [Rest(q) EXCEPT !.posted = n, !.active = set])
         /\ Drops(p, q, [Rest(q) EXCEPT !.active = other])
         /\ Drops(p, q, Rest(q))
<1> DEFINE r == Rest(q)
<1>1. /\ DOMAIN r = Fields /\ r.st = q.st /\ r.mode = q.mode /\ r.s = q.s /\ r.iter = q.iter /\ r.todo = Tail(q.todo)
  BY Memory, RestIs
<1> HIDE DEF r
<1>2. Drops(p, q, r)
  BY <1>1, PlainDrop
<1>3. Drops(p, q, [r EXCEPT !.late = late])
  <2> DEFINE z == [r EXCEPT !.late = late]
  <2>1. DOMAIN z = Fields /\ z.st = q.st /\ z.mode = q.mode /\ z.s = q.s /\ z.iter = q.iter /\ z.todo = Tail(q.todo)
    BY <1>1 DEF Fields
  <2> HIDE DEF z
  <2>2. Drops(p, q, z)
    BY <2>1, PlainDrop
  <2> QED BY <2>2 DEF z
<1>4. Drops(p, q, [r EXCEPT !.posted = n, !.active = set])
  <2> DEFINE z == [r EXCEPT !.posted = n, !.active = set]
  <2>1. DOMAIN z = Fields /\ z.st = q.st /\ z.mode = q.mode /\ z.s = q.s /\ z.iter = q.iter /\ z.todo = Tail(q.todo)
    BY <1>1 DEF Fields
  <2> HIDE DEF z
  <2>2. Drops(p, q, z)
    BY <2>1, PlainDrop
  <2> QED BY <2>2 DEF z
<1>5. Drops(p, q, [r EXCEPT !.active = other])
  <2> DEFINE z == [r EXCEPT !.active = other]
  <2>1. DOMAIN z = Fields /\ z.st = q.st /\ z.mode = q.mode /\ z.s = q.s /\ z.iter = q.iter /\ z.todo = Tail(q.todo)
    BY <1>1 DEF Fields
  <2> HIDE DEF z
  <2>2. Drops(p, q, z)
    BY <2>1, PlainDrop
  <2> QED BY <2>2 DEF z
<1> QED BY <1>2, <1>3, <1>4, <1>5 DEF r

\* An operation that takes some time, at least one of them in a stage.
LEMMA CeilIs == ASSUME NEW a \in Nat \ {0}, NEW b \in Nat \ {0} PROVE CeilDiv(a, b) \in Nat \ {0}
<1> DEFINE x == a + b - 1
           d == x \div b
<1>1. x \in Nat /\ x >= b
  OBVIOUS
<1>2. d \in Int /\ d * b <= x /\ x < (d + 1) * b
  BY <1>1
<1>3. d >= 1
  <2> HIDE DEF d, x
  <2>1. ASSUME d <= 0 PROVE FALSE
    <3>1. (d + 1) * b <= b
      BY <1>2, <2>1
    <3> QED BY <1>1, <1>2, <3>1
  <2> QED BY <1>2, <2>1
<1> QED BY <1>2, <1>3 DEF CeilDiv

LEMMA GoalIs == ASSUME PlanOK, group \in {1, 2}, NEW x PROVE Goal(x) \in Nat \ {0}
<1>1. StageTime \in Nat \ {0} /\ plan.factors[group] \in Nat \ {0}
  BY CalibrationIs DEF PlanOK
<1>2. \A a, b \in Nat \ {0} : a * b \in Nat \ {0}
  OBVIOUS
<1> QED BY <1>1, <1>2 DEF Goal

\* A measure changes a stage that is not settled yet.
LEMMA MeasureDrops ==
  ASSUME PlanOK, group \in {1, 2}, NEW p, NEW q, ProcOK(p, q), q.todo # <<>>, Head(q.todo)[1] = "measure",
         NEW c \in Costs, NEW s, s = Head(q.todo)[2]
  PROVE  Drops(p, q, [Rest(q) EXCEPT !.st[s].top = c, !.st[s].ops = CeilDiv(Goal(plan.stages[s]), c)])
<1>1. /\ q.mode = "init" /\ s = q.s /\ s \in StageIds /\ Stored(q) /\ group = 1
      /\ Has(q.todo, "bops") /\ (UsesTop(s) => Has(q.todo, "btop"))
  BY InitHead
<1>2. /\ DOMAIN Rest(q) = Fields /\ Rest(q).st = q.st /\ Rest(q).mode = q.mode /\ Rest(q).s = q.s
      /\ Rest(q).iter = q.iter /\ Rest(q).todo = Tail(q.todo)
  BY Memory, RestIs
<1> DEFINE d == CeilDiv(Goal(plan.stages[s]), c)
           r == Rest(q)
           z == [r EXCEPT !.st[s].top = c, !.st[s].ops = d]
<1>3. d \in Nat \ {0}
  BY CalibrationIs, CeilIs, GoalIs
<1> HIDE DEF d, r
<1>4. /\ DOMAIN z = Fields /\ z.mode = q.mode /\ z.s = q.s /\ z.iter = q.iter /\ z.todo = Tail(q.todo)
      /\ DOMAIN z.st = StageIds /\ \A t \in StageIds \ {s} : z.st[t] = q.st[t]
  BY <1>1, <1>2 DEF Fields, Stored, r
<1>5. /\ DOMAIN z.st[s] = Cells /\ z.st[s].top = c /\ z.st[s].ops = d
      /\ z.st[s].my = q.st[s].my /\ z.st[s].counts = q.st[s].counts
  <2>1. DOMAIN r = Fields /\ r.st = q.st /\ DOMAIN r.st = StageIds /\ DOMAIN r.st[s] = Cells
    BY <1>1, <1>2 DEF Stored, r
  <2>2. z.st[s] = [r.st[s] EXCEPT !.top = c, !.ops = d]
    BY <1>1, <2>1 DEF Fields
  <2> HIDE DEF z
  <2> QED BY <2>1, <2>2 DEF Cells
<1> HIDE DEF z
<1>6. Stored(z)
  BY <1>1, <1>4, <1>5 DEF Stored
<1>7. IsProc(z)
  BY <1>4, Memory, TailIs DEF IsProc
<1>8. ~Settled(q, s) /\ (UsesTop(s) => ~TopSettled(p, q, s)) /\ s \in Int
  BY <1>1, NStages DEF Settled, TopSettled
<1>9. ASSUME NEW t \in StageIds
      PROVE  /\ z.st[t].my = q.st[t].my /\ z.st[t].counts = q.st[t].counts
             /\ Settled(q, t) => z.st[t].ops = q.st[t].ops /\ z.st[t].top = q.st[t].top
             /\ UsesTop(t) /\ TopSettled(p, q, t) => z.st[t].top = q.st[t].top
             /\ Reached(q, t) /\ Messages(t) => z.st[t].ops \in Nat \ {0}
  <2>1. CASE t = s
    BY <1>3, <1>5, <1>8, <2>1
  <2>2. CASE t # s
    <3>1. z.st[t] = q.st[t]
      BY <1>4, <2>2
    <3>2. Reached(q, t) /\ Messages(t) => q.st[t].ops \in Nat \ {0}
      BY DEF ProcOK, DataOK
    <3> QED BY <3>1, <3>2
  <2> QED BY <2>1, <2>2
<1>10. ~IsCall(Head(q.todo))
  BY CollectivesAre DEF IsCall, SendNames
<1>11. Drops(p, q, z)
  BY <1>4, <1>6, <1>7, <1>9, <1>10 DEF Drops
<1> QED BY <1>11 DEF z, d, r

\* New requests leave the operations alone.
LEMMA AllocateIs ==
  ASSUME NEW q, DOMAIN q = Fields, Stored(q), NEW s \in StageIds, NEW n
  PROVE  /\ DOMAIN Allocate(q, s, n) = Fields /\ Stored(Allocate(q, s, n))
         /\ Allocate(q, s, n).todo = q.todo /\ Allocate(q, s, n).mode = q.mode
         /\ Allocate(q, s, n).s = q.s /\ Allocate(q, s, n).iter = q.iter
         /\ \A t \in StageIds : /\ Allocate(q, s, n).st[t].ops = q.st[t].ops
                                /\ Allocate(q, s, n).st[t].top = q.st[t].top
                                /\ Allocate(q, s, n).st[t].my = q.st[t].my
                                /\ Allocate(q, s, n).st[t].counts = q.st[t].counts
<1> DEFINE a == Len(q.len) + 1
           l == Append(q.len, n)
           v == q.live \cup {a}
           z == [q EXCEPT !.len = l, !.live = v, !.st[s].reqs = a, !.st[s].count = n]
<1>1. Allocate(q, s, n) = z
  BY DEF Allocate
<1> HIDE DEF a, l, v
<1>2. /\ DOMAIN z = Fields /\ z.mode = q.mode /\ z.s = q.s /\ z.iter = q.iter /\ z.todo = q.todo
      /\ DOMAIN z.st = StageIds /\ \A t \in StageIds \ {s} : z.st[t] = q.st[t]
  BY DEF Fields, Stored
<1>3. /\ DOMAIN z.st[s] = Cells /\ z.st[s].top = q.st[s].top /\ z.st[s].ops = q.st[s].ops
      /\ z.st[s].my = q.st[s].my /\ z.st[s].counts = q.st[s].counts
  <2>1. DOMAIN q.st = StageIds /\ DOMAIN q.st[s] = Cells
    BY DEF Stored
  <2>2. z.st[s] = [q.st[s] EXCEPT !.reqs = a, !.count = n]
    BY <2>1 DEF Fields
  <2> HIDE DEF z
  <2> QED BY <2>1, <2>2 DEF Cells
<1> HIDE DEF z
<1>4. Stored(z)
  BY <1>2, <1>3 DEF Stored
<1>5. \A t \in StageIds : /\ z.st[t].ops = q.st[t].ops /\ z.st[t].top = q.st[t].top
                          /\ z.st[t].my = q.st[t].my /\ z.st[t].counts = q.st[t].counts
  BY <1>2, <1>3
<1> QED BY <1>1, <1>2, <1>4, <1>5

LEMMA FreeIs ==
  ASSUME NEW q, DOMAIN q = Fields, NEW a
  PROVE  /\ DOMAIN Free(q, a) = Fields /\ Free(q, a).st = q.st /\ Free(q, a).todo = q.todo
         /\ Free(q, a).mode = q.mode /\ Free(q, a).s = q.s /\ Free(q, a).iter = q.iter
BY DEF Free, Fields

LEMMA ReallocateDrops ==
  ASSUME PlanOK, NEW p, NEW q, ProcOK(p, q), q.todo # <<>>, Head(q.todo)[1] = "realloc",
         NEW s, s = Head(q.todo)[2], NEW a, NEW n
  PROVE  Drops(p, q, Allocate(Free(Rest(q), a), s, n))
<1>1. q.mode = "init" /\ s \in StageIds /\ Stored(q)
  BY InitHead
<1> DEFINE r == Free(Rest(q), a)
           z == Allocate(r, s, n)
<1>2. /\ DOMAIN r = Fields /\ r.st = q.st /\ r.mode = q.mode /\ r.s = q.s /\ r.iter = q.iter /\ r.todo = Tail(q.todo)
  BY Memory, RestIs, FreeIs
<1>3. Stored(r)
  BY <1>1, <1>2 DEF Stored
<1> HIDE DEF r
<1>4. /\ DOMAIN z = Fields /\ Stored(z) /\ z.mode = q.mode /\ z.s = q.s /\ z.iter = q.iter /\ z.todo = Tail(q.todo)
      /\ \A t \in StageIds : /\ z.st[t].ops = q.st[t].ops /\ z.st[t].top = q.st[t].top
                             /\ z.st[t].my = q.st[t].my /\ z.st[t].counts = q.st[t].counts
  BY <1>1, <1>2, <1>3, AllocateIs
<1> HIDE DEF z
<1>5. IsProc(z)
  BY <1>4, Memory, TailIs DEF IsProc
<1>6. \A t \in StageIds : Reached(q, t) /\ Messages(t) => z.st[t].ops \in Nat \ {0}
  BY <1>4 DEF ProcOK, DataOK
<1>7. ~IsCall(Head(q.todo))
  BY CollectivesAre DEF IsCall, SendNames
<1>8. Drops(p, q, z)
  BY <1>4, <1>5, <1>6, <1>7 DEF Drops
<1> QED BY <1>8 DEF z, r

-----------------------------------------------------------------------------
(* How a stage is initialised. *)

Kept(x, y) == x.ops = y.ops /\ x.top = y.top /\ x.my = y.my /\ x.counts = y.counts

\* z is q with another stage, stage s, which has not its operations yet.
Begun(q, s, z) ==
  /\ DOMAIN z = Fields /\ Stored(z) /\ z.mode = q.mode /\ z.s = s /\ z.iter = q.iter
  /\ \A t \in StageIds \ {s} : Kept(z.st[t], q.st[t])
  /\ z.st[s].top = q.st[s].top

WithOps(q, s, v) == [q EXCEPT !.st[s].ops = v]
WithGather(q, s, u, w) == [q EXCEPT !.st[s].my = u, !.st[s].counts = w]
WithReqs(q, s, u, w) == [q EXCEPT !.st[s].reqs = u, !.st[s].count = w]

LEMMA OpsCell ==
  ASSUME NEW q, DOMAIN q = Fields, Stored(q), NEW s \in StageIds, NEW v, NEW z, z = WithOps(q, s, v)
  PROVE  /\ DOMAIN z = Fields /\ Stored(z) /\ z.mode = q.mode /\ z.s = q.s /\ z.iter = q.iter /\ z.todo = q.todo
         /\ \A t \in StageIds \ {s} : z.st[t] = q.st[t]
         /\ z.st[s].ops = v /\ z.st[s].top = q.st[s].top /\ z.st[s].my = q.st[s].my /\ z.st[s].counts = q.st[s].counts
<1>0. DOMAIN q.st = StageIds /\ \A t \in StageIds : DOMAIN q.st[t] = Cells
  BY DEF Stored
<1>1. /\ DOMAIN z = Fields /\ z.mode = q.mode /\ z.s = q.s /\ z.iter = q.iter /\ z.todo = q.todo
      /\ DOMAIN z.st = StageIds /\ (\A t \in StageIds \ {s} : z.st[t] = q.st[t]) /\ z.st[s] = [q.st[s] EXCEPT !.ops = v]
  BY <1>0 DEF Fields, WithOps
<1>2. /\ DOMAIN z.st[s] = Cells /\ z.st[s].ops = v /\ z.st[s].top = q.st[s].top /\ z.st[s].my = q.st[s].my
      /\ z.st[s].counts = q.st[s].counts
  BY <1>0, <1>1 DEF Cells
<1>3. Stored(z)
  BY <1>0, <1>1, <1>2 DEF Stored
<1> QED BY <1>1, <1>2, <1>3

LEMMA GatherCell ==
  ASSUME NEW q, DOMAIN q = Fields, Stored(q), NEW s \in StageIds, NEW u, NEW w, NEW z, z = WithGather(q, s, u, w)
  PROVE  /\ DOMAIN z = Fields /\ Stored(z) /\ z.mode = q.mode /\ z.s = q.s /\ z.iter = q.iter /\ z.todo = q.todo
         /\ \A t \in StageIds \ {s} : z.st[t] = q.st[t]
         /\ z.st[s].ops = q.st[s].ops /\ z.st[s].top = q.st[s].top /\ z.st[s].my = u /\ z.st[s].counts = w
<1>0. DOMAIN q.st = StageIds /\ \A t \in StageIds : DOMAIN q.st[t] = Cells
  BY DEF Stored
<1>1. /\ DOMAIN z = Fields /\ z.mode = q.mode /\ z.s = q.s /\ z.iter = q.iter /\ z.todo = q.todo
      /\ DOMAIN z.st = StageIds /\ (\A t \in StageIds \ {s} : z.st[t] = q.st[t])
      /\ z.st[s] = [q.st[s] EXCEPT !.my = u, !.counts = w]
  BY <1>0 DEF Fields, WithGather
<1>2. /\ DOMAIN z.st[s] = Cells /\ z.st[s].ops = q.st[s].ops /\ z.st[s].top = q.st[s].top /\ z.st[s].my = u
      /\ z.st[s].counts = w
  BY <1>0, <1>1 DEF Cells
<1>3. Stored(z)
  BY <1>0, <1>1, <1>2 DEF Stored
<1> QED BY <1>1, <1>2, <1>3

LEMMA ReqsCell ==
  ASSUME NEW q, DOMAIN q = Fields, Stored(q), NEW s \in StageIds, NEW u, NEW w, NEW z, z = WithReqs(q, s, u, w)
  PROVE  /\ DOMAIN z = Fields /\ Stored(z) /\ z.mode = q.mode /\ z.s = q.s /\ z.iter = q.iter /\ z.todo = q.todo
         /\ \A t \in StageIds : Kept(z.st[t], q.st[t])
<1>0. DOMAIN q.st = StageIds /\ \A t \in StageIds : DOMAIN q.st[t] = Cells
  BY DEF Stored
<1>1. /\ DOMAIN z = Fields /\ z.mode = q.mode /\ z.s = q.s /\ z.iter = q.iter /\ z.todo = q.todo
      /\ DOMAIN z.st = StageIds /\ (\A t \in StageIds \ {s} : z.st[t] = q.st[t])
      /\ z.st[s] = [q.st[s] EXCEPT !.reqs = u, !.count = w]
  BY <1>0 DEF Fields, WithReqs
<1>2. DOMAIN z.st[s] = Cells /\ Kept(z.st[s], q.st[s])
  BY <1>0, <1>1 DEF Cells, Kept
<1>3. Stored(z)
  BY <1>0, <1>1, <1>2 DEF Stored
<1>4. \A t \in StageIds : Kept(z.st[t], q.st[t])
  BY <1>1, <1>2 DEF Kept
<1> QED BY <1>1, <1>3, <1>4

LEMMA DoIs ==
  ASSUME NEW q, DOMAIN q = Fields, NEW calls
  PROVE  /\ DOMAIN Do(q, calls) = Fields /\ Do(q, calls).st = q.st /\ Do(q, calls).todo = calls
         /\ Do(q, calls).mode = q.mode /\ Do(q, calls).s = q.s /\ Do(q, calls).iter = q.iter
BY DEF Do, Fields

\* The stage at hand, before its own initialisation.
StageBegins(q, s, z) == z = [q EXCEPT !.s = s, !.st[s].ops = Calibration]

LEMMA BegunIs ==
  ASSUME PlanOK, NEW q, DOMAIN q = Fields, Stored(q), NEW s \in StageIds, NEW z, StageBegins(q, s, z)
  PROVE  Begun(q, s, z) /\ z.todo = q.todo /\ z.st[s].ops = Calibration
<1>1. PICK r : r = [q EXCEPT !.s = s]
  OBVIOUS
<1>a. z = WithOps(r, s, Calibration)
  BY <1>1 DEF WithOps, StageBegins
<1>2. DOMAIN r = Fields /\ r.st = q.st /\ r.mode = q.mode /\ r.s = s /\ r.iter = q.iter /\ r.todo = q.todo
  BY <1>1 DEF Fields
<1>3. Stored(r)
  BY <1>2 DEF Stored
<1>4. /\ DOMAIN z = Fields /\ Stored(z) /\ z.mode = r.mode /\ z.s = r.s /\ z.iter = r.iter /\ z.todo = r.todo
      /\ \A t \in StageIds \ {s} : z.st[t] = r.st[t]
      /\ z.st[s].ops = Calibration /\ z.st[s].top = r.st[s].top
  BY <1>a, <1>2, <1>3, OpsCell
<1> QED BY <1>2, <1>4 DEF Begun, Kept

\* Each of the changes of an initialisation keeps the rest.
LEMMA BegunOps ==
  ASSUME NEW q, NEW s \in StageIds, NEW z, Begun(q, s, z), NEW v, NEW a, a = WithOps(z, s, v)
  PROVE  /\ Begun(q, s, a) /\ a.todo = z.todo /\ a.st[s].ops = v
         /\ a.st[s].my = z.st[s].my /\ a.st[s].counts = z.st[s].counts
<1>1. DOMAIN z = Fields /\ Stored(z)
  BY DEF Begun
<1>2. /\ DOMAIN a = Fields /\ Stored(a) /\ a.mode = z.mode /\ a.s = z.s /\ a.iter = z.iter /\ a.todo = z.todo
      /\ \A t \in StageIds \ {s} : a.st[t] = z.st[t]
      /\ a.st[s].ops = v /\ a.st[s].top = z.st[s].top /\ a.st[s].my = z.st[s].my /\ a.st[s].counts = z.st[s].counts
  BY <1>1, OpsCell
<1> QED BY <1>2 DEF Begun

LEMMA BegunGather ==
  ASSUME NEW q, NEW s \in StageIds, NEW z, Begun(q, s, z), NEW u, NEW w, NEW a, a = WithGather(z, s, u, w)
  PROVE  /\ Begun(q, s, a) /\ a.todo = z.todo /\ a.st[s].ops = z.st[s].ops
         /\ a.st[s].my = u /\ a.st[s].counts = w
<1>1. DOMAIN z = Fields /\ Stored(z)
  BY DEF Begun
<1>2. /\ DOMAIN a = Fields /\ Stored(a) /\ a.mode = z.mode /\ a.s = z.s /\ a.iter = z.iter /\ a.todo = z.todo
      /\ \A t \in StageIds \ {s} : a.st[t] = z.st[t]
      /\ a.st[s].ops = z.st[s].ops /\ a.st[s].top = z.st[s].top /\ a.st[s].my = u /\ a.st[s].counts = w
  BY <1>1, GatherCell
<1> QED BY <1>2 DEF Begun

LEMMA BegunReqs ==
  ASSUME NEW q, NEW s \in StageIds, NEW z, Begun(q, s, z), NEW u, NEW w, NEW a, a = WithReqs(z, s, u, w)
  PROVE  Begun(q, s, a) /\ a.todo = z.todo /\ a.st[s].ops = z.st[s].ops
<1>1. DOMAIN z = Fields /\ Stored(z)
  BY DEF Begun
<1>2. /\ DOMAIN a = Fields /\ Stored(a) /\ a.mode = z.mode /\ a.s = z.s /\ a.iter = z.iter /\ a.todo = z.todo
      /\ \A t \in StageIds : Kept(a.st[t], z.st[t])
  BY <1>1, ReqsCell
<1> QED BY <1>2 DEF Begun, Kept

LEMMA BegunDo ==
  ASSUME NEW q, NEW s \in StageIds, NEW z, Begun(q, s, z), NEW calls, NEW a, a = Do(z, calls)
  PROVE  Begun(q, s, a) /\ a.todo = calls /\ a.st = z.st
<1>1. DOMAIN z = Fields /\ Stored(z)
  BY DEF Begun
<1>2. /\ DOMAIN a = Fields /\ a.st = z.st /\ a.todo = calls /\ a.mode = z.mode /\ a.s = z.s /\ a.iter = z.iter
  BY <1>1, DoIs
<1>3. Stored(a)
  BY <1>1, <1>2 DEF Stored
<1> QED BY <1>2, <1>3 DEF Begun

LEMMA BegunFree ==
  ASSUME NEW q, NEW s \in StageIds, NEW z, Begun(q, s, z), NEW u, NEW a, a = Free(z, u)
  PROVE  Begun(q, s, a) /\ a.todo = z.todo /\ a.st = z.st
<1>1. DOMAIN z = Fields /\ Stored(z)
  BY DEF Begun
<1>2. /\ DOMAIN a = Fields /\ a.st = z.st /\ a.todo = z.todo /\ a.mode = z.mode /\ a.s = z.s /\ a.iter = z.iter
  BY <1>1, FreeIs
<1>3. Stored(a)
  BY <1>1, <1>2 DEF Stored
<1> QED BY <1>2, <1>3 DEF Begun

LEMMA BegunAllocate ==
  ASSUME NEW q, NEW s \in StageIds, NEW z, Begun(q, s, z), NEW u, NEW a, a = Allocate(z, s, u)
  PROVE  Begun(q, s, a) /\ a.todo = z.todo /\ a.st[s].ops = z.st[s].ops
<1>1. DOMAIN z = Fields /\ Stored(z)
  BY DEF Begun
<1>2. /\ DOMAIN a = Fields /\ Stored(a) /\ a.todo = z.todo /\ a.mode = z.mode /\ a.s = z.s /\ a.iter = z.iter
      /\ \A t \in StageIds : a.st[t].ops = z.st[t].ops /\ a.st[t].top = z.st[t].top
                             /\ a.st[t].my = z.st[t].my /\ a.st[t].counts = z.st[t].counts
  BY <1>1, AllocateIs
<1> QED BY <1>2 DEF Begun, Kept

\* What init_stage leaves: the calls of the initialisation, or the operations
\* when there are none.
Initialised(q, s, z, r) ==
  /\ Begun(q, s, z) /\ z.todo = InitCalls(s)
  /\ ~Calibrated(s) => z.st[s].ops = LocalOps(s, z.st[s].top)
  /\ Messages(s) => z.st[s].ops \in Nat \ {0}
  /\ plan.stages[s].kind = "gather" => GatherOK(z.st[s], s, r)

LEMMA InitCommIs ==
  ASSUME PlanOK, NEW q, NEW s \in StageIds, NEW y, Begun(q, s, y), y.todo = <<>>, y.st[s].ops = Calibration,
         plan.stages[s].kind \in {"point", "collective", "gather"}, NEW z, z = InitComm(y, s)
  PROVE  /\ Begun(q, s, z) /\ z.todo = InitCalls(s)
         /\ ~Calibrated(s) => z.st[s].ops = LocalOps(s, z.st[s].top)
         /\ z.st[s].ops \in Nat \ {0} /\ z.st[s].my = y.st[s].my /\ z.st[s].counts = y.st[s].counts
<1>0. ~UsesTop(s)
  BY DEF UsesTop
<1>1. Calibrated(s) <=> compute /\ plan.stages[s].bytes = 0 /\ ~plan.stages[s].capped
  BY DEF Calibrated
<1>2. CASE Calibrated(s)
  <2>1. z = Do(y, CommCalls(s))
    BY <1>1, <1>2 DEF InitComm, Calibrate, CommCalls
  <2>2. Begun(q, s, z) /\ z.todo = CommCalls(s) /\ z.st = y.st
    BY <2>1, BegunDo
  <2>3. InitCalls(s) = CommCalls(s)
    BY <1>2 DEF InitCalls
  <2> QED BY <1>2, <2>2, <2>3, CalibrationIs
<1>3. CASE ~Calibrated(s)
  <2>1. z = WithOps(y, s, 1)
    BY <1>1, <1>3 DEF InitComm, WithOps
  <2>2. Begun(q, s, z) /\ z.todo = <<>> /\ z.st[s].ops = 1 /\ z.st[s].my = y.st[s].my /\ z.st[s].counts = y.st[s].counts
    BY <2>1, BegunOps
  <2>3. InitCalls(s) = <<>> /\ LocalOps(s, z.st[s].top) = 1
    BY <1>0, <1>3 DEF InitCalls, LocalOps
  <2> QED BY <1>3, <2>2, <2>3
<1> QED BY <1>2, <1>3

LEMMA UncalibratedIs ==
  ASSUME NEW q, NEW s \in StageIds, NEW y, Begun(q, s, y), UsesTop(s), ~Calibrated(s), y.todo = <<>>,
         NEW z, z = Uncalibrated(y, s)
  PROVE  Begun(q, s, z) /\ z.todo = InitCalls(s) /\ z.st[s].ops = LocalOps(s, z.st[s].top)
<1>1. z = WithOps(y, s, CeilDiv(Goal(plan.stages[s]), y.st[s].top))
  BY DEF Uncalibrated, WithOps
<1>2. Begun(q, s, z) /\ z.todo = <<>> /\ z.st[s].ops = CeilDiv(Goal(plan.stages[s]), y.st[s].top)
  BY <1>1, BegunOps
<1>3. z.st[s].top = y.st[s].top
  BY <1>2 DEF Begun
<1>4. InitCalls(s) = <<>> /\ plan.stages[s].kind # "wait"
  BY DEF InitCalls, UsesTop
<1> QED BY <1>2, <1>3, <1>4 DEF LocalOps

LEMMA InitFileIs ==
  ASSUME PlanOK, NEW q, NEW s \in StageIds, NEW y, Begun(q, s, y), y.todo = <<>>,
         plan.stages[s].kind \in {"write", "read"}, NEW z, z = InitFile(y, s)
  PROVE  /\ Begun(q, s, z) /\ z.todo = InitCalls(s)
         /\ ~Calibrated(s) => z.st[s].ops = LocalOps(s, z.st[s].top)
<1> DEFINE x == plan.stages[s]
<1>0. /\ UsesTop(s) <=> x.bytes = 0 /\ ~x.capped
      /\ Calibrated(s) <=> compute /\ x.bytes = 0 /\ ~x.capped
  BY DEF UsesTop, Calibrated
<1>1. CASE x.bytes # 0 \/ x.capped
  <2>1. z = WithOps(y, s, 1)
    BY <1>1 DEF InitFile, WithOps
  <2>2. Begun(q, s, z) /\ z.todo = <<>> /\ z.st[s].ops = 1
    BY <2>1, BegunOps
  <2>3. InitCalls(s) = <<>> /\ LocalOps(s, z.st[s].top) = 1
    BY <1>0, <1>1 DEF InitCalls, LocalOps
  <2> QED BY <2>2, <2>3
<1>2. CASE compute /\ x.bytes = 0 /\ ~x.capped
  <2>1. z = Do(y, FileCalls(s))
    BY <1>2 DEF InitFile, FileCalls
  <2>2. Begun(q, s, z) /\ z.todo = FileCalls(s)
    BY <2>1, BegunDo
  <2>3. InitCalls(s) = FileCalls(s) /\ Calibrated(s)
    <3>1. x.kind # "compute" /\ x.kind # "ipoint"
      OBVIOUS
    <3> QED BY <1>0, <1>2, <3>1 DEF InitCalls
  <2> QED BY <2>2, <2>3
<1>3. CASE ~(x.bytes # 0 \/ x.capped) /\ ~(compute /\ x.bytes = 0 /\ ~x.capped)
  <2>1. z = Uncalibrated(y, s)
    BY <1>3 DEF InitFile
  <2>2. UsesTop(s) /\ ~Calibrated(s)
    BY <1>0, <1>3
  <2> QED BY <2>1, <2>2, UncalibratedIs
<1> QED BY <1>1, <1>2, <1>3

\* The initialisation of each kind, from the stage at hand.
StartOf(y, s, r, z) ==
  LET k == plan.stages[s].kind
  IN  /\ k = "compute" => z = InitCompute(y, s)
      /\ k \in {"point", "collective"} => z = InitComm(y, s)
      /\ k = "gather" => z = InitComm(Gather(y, s, r), s)
      /\ k = "ipoint" => z = InitIPoint(y, s, FALSE)
      /\ k = "wait" => z = InitWait(y, s)
      /\ k \in {"write", "read"} => z = InitFile(y, s)

LEMMA StartIs ==
  ASSUME PlanOK, NEW q, NEW s \in StageIds, NEW y, Begun(q, s, y), y.todo = <<>>, y.st[s].ops = Calibration,
         NEW r, NEW z, StartOf(y, s, r, z)
  PROVE  Initialised(q, s, z, r)
<1> DEFINE k == plan.stages[s].kind
<1>0. k \in Kinds
  BY StageIs
<1>1. Begun(q, s, y) /\ y.todo = <<>> /\ y.st[s].ops = Calibration
  OBVIOUS
<1>2. /\ k = "compute" => z = InitCompute(y, s)
      /\ k \in {"point", "collective"} => z = InitComm(y, s)
      /\ k = "gather" => z = InitComm(Gather(y, s, r), s)
      /\ k = "ipoint" => z = InitIPoint(y, s, FALSE)
      /\ k = "wait" => z = InitWait(y, s)
      /\ k \in {"write", "read"} => z = InitFile(y, s)
  BY DEF StartOf
<1>3. CASE k = "compute"
  <2>1. UsesTop(s) /\ ~Messages(s) /\ (Calibrated(s) <=> compute)
    BY <1>3 DEF UsesTop, Messages, Calibrated
  <2>2. CASE compute
    <3>1. z = Do(y, ComputeCalls(s))
      BY <1>2, <1>3, <2>2 DEF InitCompute, ComputeCalls
    <3>2. Begun(q, s, z) /\ z.todo = ComputeCalls(s)
      BY <1>1, <3>1, BegunDo
    <3>3. InitCalls(s) = ComputeCalls(s) /\ Calibrated(s)
      BY <1>3, <2>1, <2>2 DEF InitCalls
    <3> QED BY <1>3, <2>1, <3>2, <3>3 DEF Initialised
  <2>3. CASE ~compute
    <3>1. z = Uncalibrated(y, s)
      BY <1>2, <1>3, <2>3 DEF InitCompute
    <3>2. Begun(q, s, z) /\ z.todo = InitCalls(s) /\ z.st[s].ops = LocalOps(s, z.st[s].top)
      BY <1>1, <2>1, <2>3, <3>1, UncalibratedIs
    <3> QED BY <1>3, <2>1, <3>2 DEF Initialised
  <2> QED BY <2>2, <2>3
<1>4. CASE k \in {"point", "collective"}
  <2>1. z = InitComm(y, s)
    BY <1>2, <1>4
  <2>2. /\ Begun(q, s, z) /\ z.todo = InitCalls(s) /\ z.st[s].ops \in Nat \ {0}
        /\ ~Calibrated(s) => z.st[s].ops = LocalOps(s, z.st[s].top)
    BY <1>1, <1>4, <2>1, InitCommIs
  <2>3. k # "gather"
    BY <1>4
  <2> QED BY <2>2, <2>3 DEF Initialised
<1>5. CASE k = "gather"
  <2> DEFINE my == SamBlock(RealBytes(plan.stages[s]), r, numP)
             counts == [i \in 1 .. numP |-> SamBlock(RealBytes(plan.stages[s]), i - 1, numP)]
  <2>a. PICK g : g = Gather(y, s, r)
    OBVIOUS
  <2>1. g = WithGather(y, s, my, counts)
    BY <2>a DEF Gather, WithGather
  <2>2. z = InitComm(g, s)
    BY <1>2, <1>5, <2>a
  <2> HIDE DEF my, counts
  <2>3. Begun(q, s, g) /\ g.todo = <<>> /\ g.st[s].ops = Calibration /\ g.st[s].my = my /\ g.st[s].counts = counts
    BY <1>1, <2>1, BegunGather
  <2>4. /\ Begun(q, s, z) /\ z.todo = InitCalls(s) /\ z.st[s].ops \in Nat \ {0}
        /\ ~Calibrated(s) => z.st[s].ops = LocalOps(s, z.st[s].top)
        /\ z.st[s].my = g.st[s].my /\ z.st[s].counts = g.st[s].counts
    BY <1>5, <2>2, <2>3, InitCommIs
  <2>5. GatherOK(z.st[s], s, r)
    BY <2>3, <2>4 DEF GatherOK, my, counts
  <2> QED BY <2>4, <2>5 DEF Initialised
<1>6. CASE k = "ipoint"
  <2>a. PICK f : f = Free(y, y.st[s].reqs)
    OBVIOUS
  <2>0. ~UsesTop(s) /\ (Calibrated(s) <=> compute /\ plan.stages[s].bytes = 0)
    BY <1>6 DEF UsesTop, Calibrated
  <2>1. Begun(q, s, f) /\ f.todo = <<>> /\ f.st = y.st
    BY <1>1, <2>a, BegunFree
  <2>2. CASE Calibrated(s)
    <3>a. PICK a : a = Allocate(f, s, Calibration)
      OBVIOUS
    <3>1. z = Do(a, IPointCalls(s))
      BY <1>2, <1>6, <2>a, <3>a, <2>0, <2>2 DEF InitIPoint, CalibrateAsync, IPointCalls
    <3>2. Begun(q, s, a) /\ a.st[s].ops = f.st[s].ops
      BY <2>1, <3>a, BegunAllocate
    <3>3. Begun(q, s, z) /\ z.todo = IPointCalls(s) /\ z.st = a.st
      BY <3>1, <3>2, BegunDo
    <3>4. InitCalls(s) = IPointCalls(s)
      BY <1>6, <2>2 DEF InitCalls
    <3>5. z.st[s].ops = Calibration
      BY <1>1, <2>1, <3>2, <3>3
    <3> QED BY <1>6, <2>2, <3>3, <3>4, <3>5, CalibrationIs DEF Initialised
  <2>3. CASE ~Calibrated(s)
    <3>a. PICK a : a = Allocate(f, s, 1)
      OBVIOUS
    <3>1. z = WithOps(a, s, 1)
      BY <1>2, <1>6, <2>a, <3>a, <2>0, <2>3 DEF InitIPoint, WithOps
    <3>2. Begun(q, s, a) /\ a.todo = <<>>
      BY <2>1, <3>a, BegunAllocate
    <3>3. Begun(q, s, z) /\ z.todo = <<>> /\ z.st[s].ops = 1
      BY <3>1, <3>2, BegunOps
    <3>4. InitCalls(s) = <<>> /\ LocalOps(s, z.st[s].top) = 1
      BY <1>6, <2>0, <2>3 DEF InitCalls, LocalOps
    <3> QED BY <1>6, <3>3, <3>4 DEF Initialised
  <2> QED BY <2>2, <2>3
<1>7. CASE k = "wait"
  <2>1. \E u, w : z = WithReqs(y, s, u, w)
    BY Zenon, <1>2, <1>7 DEF InitWait, WithReqs
  <2>2. PICK u, w : z = WithReqs(y, s, u, w)
    BY <2>1
  <2>3. Begun(q, s, z) /\ z.todo = <<>> /\ z.st[s].ops = Calibration
    BY <1>1, <2>2, BegunReqs
  <2>4. ~Calibrated(s)
    BY <1>7 DEF Calibrated
  <2>5. InitCalls(s) = <<>> /\ LocalOps(s, z.st[s].top) = Calibration
    BY <1>7, <2>4 DEF InitCalls, LocalOps
  <2> QED BY <1>7, <2>3, <2>5, CalibrationIs DEF Initialised
<1>8. CASE k \in {"write", "read"}
  <2>1. z = InitFile(y, s)
    BY <1>2, <1>8
  <2>2. /\ Begun(q, s, z) /\ z.todo = InitCalls(s)
        /\ ~Calibrated(s) => z.st[s].ops = LocalOps(s, z.st[s].top)
    BY <1>1, <1>8, <2>1, InitFileIs
  <2>3. ~Messages(s) /\ k # "gather"
    BY <1>8 DEF Messages
  <2> QED BY <2>2, <2>3 DEF Initialised
<1> QED BY <1>0, <1>3, <1>4, <1>5, <1>6, <1>7, <1>8 DEF Kinds


LEMMA InitStageIs ==
  ASSUME PlanOK, NEW q, DOMAIN q = Fields, Stored(q), q.todo = <<>>, NEW s \in StageIds, NEW r,
         NEW z, z = InitStage(q, s, r, TRUE, FALSE)
  PROVE  Initialised(q, s, z, r)
<1>1. PICK y : y = [q EXCEPT !.s = s, !.st[s].ops = Calibration]
  OBVIOUS
<1>2. Begun(q, s, y) /\ y.todo = <<>> /\ y.st[s].ops = Calibration
  BY <1>1, BegunIs DEF StageBegins
<1>3. StartOf(y, s, r, z)
  BY <1>1 DEF StartOf, InitStage, InitCollective, InitGather, InitWrite, InitRead
<1> QED BY <1>2, <1>3, StartIs
-----------------------------------------------------------------------------
(* A rank that goes on to the next place. *)

Moves(p, q, z) ==
  /\ q.todo = <<>> /\ q.mode \in {"init", "run", "ready"}
  /\ ProcOK(p, z) /\ z.mode # "config"
  /\ Place(z) = Following(Place(q)) /\ z.todo = Calls(z, Place(z))
  /\ \A s \in StageIds :
       /\ z.st[s].top = q.st[s].top
       /\ Settled(q, s) => z.st[s].ops = q.st[s].ops
       /\ Settled(z, s) => Settled(q, s) \/ ~Calibrated(s)
       /\ UsesTop(s) /\ TopSettled(p, z, s) => TopSettled(p, q, s)

\* A stage whose operations no call agrees on has the same in two ranks: in the
\* first group they do not depend on the time of one, later it is agreed on.
LEMMA LocalSame ==
  ASSUME group \in {1, 2}, NEW s \in StageIds, ~Calibrated(s), NEW u, NEW v, group = 2 /\ UsesTop(s) => u = v
  PROVE  LocalOps(s, u) = LocalOps(s, v)
<1>1. CASE UsesTop(s)
  <2>1. group # 1
    BY <1>1 DEF UsesTop, Calibrated, compute
  <2> QED BY <1>1, <2>1
<1>2. CASE ~UsesTop(s)
  BY <1>2 DEF LocalOps
<1> QED BY <1>1, <1>2

LEMMA MovePair ==
  ASSUME PlanOK, group \in {1, 2}, NEW p, NEW r, NEW x, NEW q, NEW z,
         ProcOK(r, x), ProcOK(p, q), Pair(r, p, x, q), Moves(p, q, z)
  PROVE  Pair(r, p, x, z)
<1>1. ProcOK(p, z) /\ Placed(x) /\ Placed(q) /\ Placed(z)
  BY PlacedIs DEF Moves
<1>2. /\ q.todo = <<>> /\ q.mode \in {"init", "run", "ready"} /\ z.mode # "config"
      /\ Place(z) = Following(Place(q)) /\ z.todo = Calls(z, Place(z))
  BY DEF Moves
<1>3. AgreeOps(x, z)
  <2>1. ASSUME NEW s \in StageIds, Settled(x, s), Settled(z, s) PROVE x.st[s].ops = z.st[s].ops
    <3>1. CASE Settled(q, s)
      BY <2>1, <3>1 DEF Moves, Pair, AgreeOps
    <3>2. CASE ~Settled(q, s)
      <4>1. ~Calibrated(s)
        BY <2>1, <3>2 DEF Moves
      <4>2. x.st[s].ops = LocalOps(s, x.st[s].top) /\ z.st[s].ops = LocalOps(s, z.st[s].top)
        BY <1>1, <2>1, <4>1 DEF ProcOK, DataOK
      <4>3. group = 2 /\ UsesTop(s) => x.st[s].top = z.st[s].top
        BY DEF Moves, Pair, AgreeTop, TopSettled
      <4>4. LocalOps(s, x.st[s].top) = LocalOps(s, z.st[s].top)
        BY <4>1, <4>3, LocalSame
      <4> QED BY <4>2, <4>4
    <3> QED BY <3>1, <3>2
  <2> QED BY <2>1 DEF AgreeOps
<1>4. AgreeTop(r, p, x, z)
  <2>1. ASSUME NEW s \in StageIds, UsesTop(s), TopSettled(r, x, s), TopSettled(p, z, s) PROVE x.st[s].top = z.st[s].top
    BY <2>1 DEF Moves, Pair, AgreeTop
  <2> QED BY <2>1 DEF AgreeTop
<1>5. Place(q)[1] # 3
  BY <1>2, PlaceOf
<1>6. ASSUME x.mode # "config", Place(x) = Place(z) PROVE Calls(x, Place(x)) = Calls(z, Place(z))
  <2> DEFINE a == Place(z)
  <2>1. ASSUME a[1] = 1, a[3] # 0 PROVE Process(x, a[3]) = Process(z, a[3])
    <3>1. a \in Places
      BY <1>1, <1>2 DEF Placed
    <3> HIDE DEF a
    <3>2. a[3] \in StageIds
      BY <2>1, <3>1, PlaceIs, NStages
    <3>3. x.mode = "run" /\ z.mode = "run"
      <4>1. Phase(x.mode) = 1 /\ Phase(z.mode) = 1
        BY <1>6, <2>1 DEF Place, a
      <4> QED BY <4>1 DEF Phase
    <3>4. Settled(x, a[3]) /\ Settled(z, a[3])
      BY <3>3 DEF Settled
    <3>5. x.st[a[3]].ops = z.st[a[3]].ops
      BY <1>3, <3>2, <3>4 DEF AgreeOps
    <3> QED BY <3>5, ProcessSame
  <2> HIDE DEF a
  <2>2. Calls(x, a) = Calls(z, a)
    BY <2>1 DEF Calls
  <2> QED BY <1>6, <2>2 DEF a
<1>7. Near(x, q)
  BY DEF Pair, Near
<1>8. Near(x, z)
  BY <1>1, <1>2, <1>5, <1>6, <1>7, NearMove
<1> QED BY <1>3, <1>4, <1>8 DEF Pair, Near

\* The steps from one place to the next that leave the stages alone.
LEMMA PlainMove ==
  ASSUME PlanOK, NEW p, NEW q, NEW z, ProcOK(p, q), q.todo = <<>>,
         q.mode \in {"init", "run", "ready"}, q.mode = "init" => q.s = N,
         DOMAIN z = Fields, z.st = q.st, z.mode \in {"run", "ready", "gone"}, z.mode = "gone" => group = 2,
         Place(z) = Following(Place(q)), z.todo = Calls(z, Place(z)),
         z.mode = "run" => z.s \in 0 .. N /\ z.iter \in 0 .. Iters - 1
  PROVE  Moves(p, q, z)
<1>1. N \in Nat /\ StageIds = 1 .. N
  BY NStages
<1>2. \A s \in StageIds : Reached(q, s) /\ Settled(q, s) /\ Reached(z, s) /\ Settled(z, s)
  BY <1>1 DEF Reached, Settled, Has
<1>3. DataOK(p, z)
  BY <1>2 DEF ProcOK, DataOK
<1>4. Stored(z)
  BY DEF ProcOK, Stored, Has
<1>5. p \notin Kids
  BY DEF ProcOK
<1> DEFINE a == Place(z)
<1>6. a \in Places
  BY PlacedIs, FollowingIs, PlaceOf DEF Placed
<1>7. a[1] = 1 /\ a[3] # 0 /\ Messages(a[3]) => z.st[a[3]].ops \in Nat \ {0}
  <2> SUFFICES ASSUME a[1] = 1, a[3] # 0, Messages(a[3]) PROVE z.st[a[3]].ops \in Nat \ {0}
    OBVIOUS
  <2> HIDE DEF a
  <2>1. a[3] \in StageIds
    BY <1>1, <1>6, PlaceIs
  <2> QED BY <1>2, <1>3, <2>1 DEF DataOK
<1>8. /\ a[1] = 1 => Calls(z, a) \in Seq(Of(RunNames(a[3]), a[3]))
      /\ a[1] = 2 => Calls(z, a) \in Seq(Of({"barrier"}, 0))
      /\ a[1] = 3 => Calls(z, a) = <<>>
  <2> HIDE DEF a
  <2> QED BY <1>6, <1>7, CallsAre
<1>9. TodoOK(z)
  <2>1. CASE z.mode = "run"
    <3>1. a[1] = 1 /\ a[3] = z.s
      BY <2>1, PlaceOf
    <3>2. z.todo \in Seq(Of(RunNames(z.s), z.s))
      BY <1>8, <3>1
    <3> QED BY <2>1, <3>2 DEF TodoOK
  <2>2. CASE z.mode = "ready"
    <3>1. a[1] = 2
      BY <2>2, PlaceOf
    <3> QED BY <1>8, <2>2, <3>1 DEF TodoOK
  <2>3. CASE z.mode = "gone"
    <3>1. a[1] = 3
      BY <2>3, PlaceOf
    <3> QED BY <1>8, <2>3, <3>1 DEF TodoOK
  <2> QED BY <2>1, <2>2, <2>3
<1>10. z.todo \in Seq(Items)
  <2>0. N \in Nat
    BY <1>1
  <2>1. CASE z.mode = "run"
    <3>1. a[1] = 1 /\ a[3] = z.s /\ z.s \in Nat
      BY <2>0, <2>1, PlaceOf
    <3>2. z.todo \in Seq(Of(RunNames(z.s), z.s))
      BY <1>8, <3>1
    <3> QED BY <3>1, <3>2, ItemsAre, NamesAre
  <2>2. CASE z.mode = "ready"
    <3>1. a[1] = 2
      BY <2>2, PlaceOf
    <3> QED BY <1>8, <3>1, ItemsAre, NamesAre
  <2>3. CASE z.mode = "gone"
    <3>1. a[1] = 3
      BY <2>3, PlaceOf
    <3>2. z.todo = <<>>
      BY <1>8, <3>1
    <3> QED BY <3>2
  <2> QED BY <2>1, <2>2, <2>3
<1>11. ProcOK(p, z)
  BY <1>3, <1>4, <1>5, <1>9, <1>10 DEF ProcOK, IsProc
<1>12. \A s \in StageIds : TopSettled(p, q, s)
  BY <1>1 DEF TopSettled, Has
<1> QED BY <1>2, <1>11, <1>12 DEF Moves

\* The initialisation of the next stage.
LEMMA InitMove ==
  ASSUME PlanOK, group \in {1, 2}, NEW p, NEW q, NEW s, NEW z, ProcOK(p, q), q.todo = <<>>, q.mode = "init",
         q.s < N, s = q.s + 1, Initialised(q, s, z, Rank(p))
  PROVE  Moves(p, q, z)
<1>0. N \in Nat /\ StageIds = 1 .. N
  BY NStages
<1>1. q.s \in 0 .. N /\ q.iter = 0
  BY DEF ProcOK, TodoOK
<1>2. s \in StageIds /\ s \in Nat
  BY <1>0, <1>1
<1>3. /\ DOMAIN z = Fields /\ Stored(z) /\ z.mode = "init" /\ z.s = s /\ z.iter = 0 /\ z.todo = InitCalls(s)
      /\ \A t \in StageIds \ {s} : Kept(z.st[t], q.st[t])
      /\ z.st[s].top = q.st[s].top
      /\ ~Calibrated(s) => z.st[s].ops = LocalOps(s, z.st[s].top)
      /\ Messages(s) => z.st[s].ops \in Nat \ {0}
      /\ plan.stages[s].kind = "gather" => GatherOK(z.st[s], s, Rank(p))
  BY <1>1 DEF Initialised, Begun
<1>4. /\ InitCalls(s) \in Seq(Of(InitNames, s)) /\ MeasuresShared(InitCalls(s), s)
      /\ ~Calibrated(s) => InitCalls(s) = <<>>
      /\ Calibrated(s) => Has(InitCalls(s), "bops") /\ (UsesTop(s) => Has(InitCalls(s), "btop"))
  BY <1>2, InitIs DEF InitFacts
<1>5. p \notin Kids
  BY DEF ProcOK
<1>6. \A t \in StageIds : t <= z.s => t = s \/ (t # s /\ t < z.s /\ t <= q.s)
  BY <1>0, <1>1, <1>3
<1>7. \A t \in StageIds : t <= q.s => Reached(q, t) /\ Settled(q, t) /\ TopSettled(p, q, t)
  BY <1>0, <1>1 DEF Reached, Settled, TopSettled, Has
<1>8. ASSUME NEW t \in StageIds, Settled(z, t) PROVE Settled(q, t) \/ (t = s /\ ~Calibrated(s))
  <2>1. t <= z.s
    BY <1>0, <1>1, <1>2, <1>3, <1>8 DEF Settled
  <2>2. CASE t = s
    <3>1. ~Has(InitCalls(s), "bops")
      BY <1>2, <1>3, <1>8, <2>2 DEF Settled
    <3> QED BY <1>4, <2>2, <3>1
  <2>3. CASE t # s
    BY <1>6, <1>7, <2>1, <2>3
  <2> QED BY <2>2, <2>3
<1>9. ASSUME NEW t \in StageIds, UsesTop(t), TopSettled(p, z, t) PROVE TopSettled(p, q, t)
  <2>1. CASE group = 2
    BY <2>1 DEF TopSettled
  <2>2. CASE group = 1
    <3>1. t <= z.s /\ (t = s => ~Has(InitCalls(s), "btop"))
      BY <1>0, <1>1, <1>2, <1>3, <1>9, <2>2 DEF TopSettled
    <3>2. t # s
      <4>1. ASSUME t = s PROVE FALSE
        <5>1. Calibrated(s)
          BY <1>9, <2>2, <4>1 DEF UsesTop, Calibrated, compute
        <5> QED BY <1>4, <1>9, <3>1, <4>1, <5>1
      <4> QED BY <4>1
    <3> QED BY <1>6, <1>7, <3>1, <3>2
  <2> QED BY <2>1, <2>2
<1>10. DataOK(p, z)
  <2>1. ASSUME NEW t \in StageIds
        PROVE  /\ Reached(z, t) /\ Messages(t) => z.st[t].ops \in Nat \ {0}
               /\ Settled(z, t) /\ ~Calibrated(t) => z.st[t].ops = LocalOps(t, z.st[t].top)
               /\ Reached(z, t) /\ plan.stages[t].kind = "gather" => GatherOK(z.st[t], t, Rank(p))
    <3>1. CASE t = s
      BY <1>3, <3>1
    <3>2. CASE t # s
      <4>1. Reached(z, t) => Reached(q, t) /\ Settled(q, t)
        BY <1>3, <1>6, <1>7, <3>2 DEF Reached
      <4>2. Settled(z, t) => Settled(q, t)
        BY <1>8, <3>2
      <4>3. Kept(z.st[t], q.st[t])
        BY <1>3, <3>2
      <4>4. /\ Reached(q, t) /\ Messages(t) => q.st[t].ops \in Nat \ {0}
            /\ Settled(q, t) /\ ~Calibrated(t) => q.st[t].ops = LocalOps(t, q.st[t].top)
            /\ Reached(q, t) /\ plan.stages[t].kind = "gather" => GatherOK(q.st[t], t, Rank(p))
        BY DEF ProcOK, DataOK
      <4> QED BY <4>1, <4>2, <4>3, <4>4 DEF Kept, GatherOK
    <3> QED BY <3>1, <3>2
  <2> QED BY <2>1 DEF DataOK
<1>11. TodoOK(z)
  <2>1. z.todo # <<>> => z.s # 0 /\ Calibrated(z.s)
    BY <1>0, <1>2, <1>3, <1>4
  <2>2. z.s \in 0 .. N
    BY <1>0, <1>2, <1>3
  <2> QED BY <1>3, <1>4, <2>1, <2>2 DEF TodoOK
<1>12. IsProc(z)
  BY <1>2, <1>3, <1>4, ItemsAre, NamesAre DEF IsProc
<1>13. ProcOK(p, z)
  BY <1>3, <1>5, <1>10, <1>11, <1>12 DEF ProcOK
<1>14. Place(q) = <<0, 0, q.s>> /\ Place(z) = <<0, 0, s>>
  BY <1>3, PlaceOf
<1>15. Place(z) = Following(Place(q))
  BY <1>14 DEF Following
<1>16. z.todo = Calls(z, Place(z))
  <2>1. s # 0
    BY <1>0, <1>2
  <2> QED BY <1>3, <1>14, <2>1 DEF Calls
<1>17. ASSUME NEW t \in StageIds PROVE z.st[t].top = q.st[t].top /\ (Settled(q, t) => z.st[t].ops = q.st[t].ops)
  <2>1. ~Settled(q, s)
    BY <1>1, <1>2 DEF Settled
  <2>2. CASE t = s
    BY <1>3, <2>1, <2>2
  <2>3. CASE t # s
    BY <1>3, <2>3 DEF Kept
  <2> QED BY <2>2, <2>3
<1> QED BY <1>3, <1>8, <1>9, <1>13, <1>15, <1>16, <1>17 DEF Moves

\* The end of the initialisations, the stages of an iteration, the next
\* iteration, the end of the iterations.
LEMMA RunMoves ==
  ASSUME PlanOK, NEW p, NEW q, ProcOK(p, q), q.todo = <<>>, NEW z
  PROVE  /\ /\ q.mode = "init" /\ q.s = N
            /\ z = [q EXCEPT !.mode = "run", !.s = 0, !.todo = Barrier(0)]
            => Moves(p, q, z)
         /\ /\ q.mode = "run" /\ q.s < N
            /\ z = [q EXCEPT !.s = @ + 1, !.todo = Process(q, q.s + 1) \o Barrier(q.s + 1)]
            => Moves(p, q, z)
         /\ /\ q.mode = "run" /\ q.s = N /\ q.iter + 1 < Iters
            /\ z = [q EXCEPT !.s = 0, !.iter = @ + 1, !.todo = Barrier(0) \o Barrier(0)]
            => Moves(p, q, z)
         /\ /\ q.mode = "run" /\ q.s = N /\ ~(q.iter + 1 < Iters)
            /\ z = [q EXCEPT !.mode = "ready", !.s = 0, !.todo = Barrier(0)]
            => Moves(p, q, z)
<1>0. N \in Nat /\ Iters \in Nat \ {0}
  BY NStages, CalibrationIs
<1>1. DOMAIN q = Fields
  BY Memory
<1>2. /\ q.mode = "init" => q.s \in 0 .. N /\ q.iter = 0
      /\ q.mode = "run" => q.s \in 0 .. N /\ q.iter \in 0 .. Iters - 1
  BY DEF ProcOK, TodoOK
<1>3. ASSUME q.mode = "init", q.s = N, z = [q EXCEPT !.mode = "run", !.s = 0, !.todo = Barrier(0)]
      PROVE  Moves(p, q, z)
  <2>1. DOMAIN z = Fields /\ z.st = q.st /\ z.mode = "run" /\ z.s = 0 /\ z.iter = 0 /\ z.todo = Barrier(0)
    BY <1>1, <1>2, <1>3 DEF Fields
  <2>2. Place(q) = <<0, 0, N>> /\ Place(z) = <<1, 0, 0>>
    BY <1>3, <2>1, PlaceOf
  <2>3. Place(z) = Following(Place(q)) /\ z.todo = Calls(z, Place(z))
    BY <1>0, <2>1, <2>2 DEF Following, Calls
  <2>4. z.s \in 0 .. N /\ z.iter \in 0 .. Iters - 1
    BY <1>0, <2>1
  <2> QED BY <1>3, <2>1, <2>3, <2>4, PlainMove
<1>4. ASSUME q.mode = "run", q.s < N, z = [q EXCEPT !.s = @ + 1, !.todo = Process(q, q.s + 1) \o Barrier(q.s + 1)]
      PROVE  Moves(p, q, z)
  <2>1. /\ DOMAIN z = Fields /\ z.st = q.st /\ z.mode = "run" /\ z.s = q.s + 1 /\ z.iter = q.iter
        /\ z.todo = Process(q, q.s + 1) \o Barrier(q.s + 1)
    BY <1>1, <1>4 DEF Fields
  <2>2. Place(q) = <<1, q.iter, q.s>> /\ Place(z) = <<1, q.iter, q.s + 1>>
    BY <1>4, <2>1, PlaceOf
  <2>3. Process(z, q.s + 1) = Process(q, q.s + 1)
    BY <2>1, ProcessSame
  <2>a. Place(z) = Following(Place(q))
    BY <1>0, <1>2, <1>4, <2>2 DEF Following
  <2>b. PICK t : t = q.s + 1
    OBVIOUS
  <2>c. t # 0 /\ z.todo = Process(z, t) \o Barrier(t) /\ Place(z) = <<1, q.iter, t>>
    <3>1. t # 0
      BY <1>0, <1>2, <1>4, <2>b
    <3>2. z.todo = Process(z, t) \o Barrier(t)
      BY <2>1, <2>3, <2>b
    <3>3. Place(z) = <<1, q.iter, t>>
      BY <2>2, <2>b
    <3> QED BY <3>1, <3>2, <3>3
  <2>4. Place(z) = Following(Place(q)) /\ z.todo = Calls(z, Place(z))
    BY <2>a, <2>c DEF Calls
  <2>5. z.s \in 0 .. N /\ z.iter \in 0 .. Iters - 1
    BY <1>0, <1>2, <1>4, <2>1
  <2> QED BY <1>4, <2>1, <2>4, <2>5, PlainMove
<1>5. ASSUME q.mode = "run", q.s = N, q.iter + 1 < Iters,
             z = [q EXCEPT !.s = 0, !.iter = @ + 1, !.todo = Barrier(0) \o Barrier(0)]
      PROVE  Moves(p, q, z)
  <2>1. /\ DOMAIN z = Fields /\ z.st = q.st /\ z.mode = "run" /\ z.s = 0 /\ z.iter = q.iter + 1
        /\ z.todo = Barrier(0) \o Barrier(0)
    BY <1>1, <1>5 DEF Fields
  <2>2. Place(q) = <<1, q.iter, N>> /\ Place(z) = <<1, q.iter + 1, 0>>
    BY <1>5, <2>1, PlaceOf
  <2>3. Place(z) = Following(Place(q)) /\ z.todo = Calls(z, Place(z))
    BY <1>0, <1>2, <1>5, <2>1, <2>2 DEF Following, Calls
  <2>4. z.s \in 0 .. N /\ z.iter \in 0 .. Iters - 1
    BY <1>0, <1>2, <1>5, <2>1
  <2> QED BY <1>5, <2>1, <2>3, <2>4, PlainMove
<1>6. ASSUME q.mode = "run", q.s = N, ~(q.iter + 1 < Iters),
             z = [q EXCEPT !.mode = "ready", !.s = 0, !.todo = Barrier(0)]
      PROVE  Moves(p, q, z)
  <2>1. DOMAIN z = Fields /\ z.st = q.st /\ z.mode = "ready" /\ z.todo = Barrier(0)
    BY <1>1, <1>6 DEF Fields
  <2>2. Place(q) = <<1, q.iter, N>> /\ Place(z) = <<2, 0, 0>>
    BY <1>6, <2>1, PlaceOf
  <2>3. Place(z) = Following(Place(q)) /\ z.todo = Calls(z, Place(z))
    BY <1>0, <1>2, <1>6, <2>1, <2>2 DEF Following, Calls
  <2> QED BY <1>6, <2>1, <2>3, PlainMove
<1> QED BY <1>3, <1>4, <1>5, <1>6

\* The end of the second group.
LEMMA FinishMove ==
  ASSUME PlanOK, NEW p, NEW q, ProcOK(p, q), q.todo = <<>>, q.mode = "ready", group = 2
  PROVE  Moves(p, q, FreeConfig(q))
<1>1. PICK z : z = FreeConfig(q)
  OBVIOUS
<1>2. DOMAIN q = Fields
  BY Memory
<1>3. DOMAIN z = Fields /\ z.st = q.st /\ z.mode = "gone" /\ z.todo = <<>>
  BY <1>1, <1>2 DEF FreeConfig, Fields
<1>4. Place(q) = <<2, 0, 0>> /\ Place(z) = <<3, 0, 0>>
  BY <1>3, PlaceOf
<1>5. Place(z) = Following(Place(q)) /\ z.todo = Calls(z, Place(z))
  BY <1>3, <1>4 DEF Following, Calls
<1>6. Moves(p, q, z)
  BY <1>3, <1>5, PlainMove
<1> QED BY <1>1, <1>6
-----------------------------------------------------------------------------
(* The communicator. *)

LEMMA CommOfIs ==
  ASSUME PlanOK, NEW g \in {1, 2}
  PROVE  LET n == plan.procs[g]
         IN  /\ n \in Nat \ {0} /\ DOMAIN CommOf(g) = 1 .. n /\ CommOf(g) \in Seq(Nat) /\ Len(CommOf(g)) = n
             /\ \A r \in 1 .. n : CommOf(g)[r] \in Nat \ {0} /\ (g = 1 => CommOf(g)[r] = r)
             /\ \A r, s \in 1 .. n : CommOf(g)[r] = CommOf(g)[s] => r = s
<1>1. plan.procs[1] \in Nat \ {0} /\ plan.procs[2] \in Nat \ {0}
  BY DEF PlanOK
<1>2. CASE g = 1
  <2>1. CommOf(g) = [r \in 1 .. plan.procs[1] |-> r]
    BY <1>2 DEF CommOf
  <2> QED BY <1>1, <1>2, <2>1
<1>3. CASE g = 2 /\ Merge
  <2>1. CommOf(g) = [r \in 1 .. plan.procs[2] |-> r]
    BY <1>3 DEF CommOf
  <2> QED BY <1>1, <1>3, <2>1
<1>4. CASE g = 2 /\ ~Merge
  <2> DEFINE c == CommOf(g)
             n == plan.procs[2]
             m == plan.procs[1]
  <2>1. c = [r \in 1 .. n |-> m + r]
    BY <1>4 DEF CommOf
  <2> HIDE DEF c, n, m
  <2>2. n \in Nat \ {0} /\ m \in Nat \ {0}
    BY <1>1 DEF n, m
  <2>3. DOMAIN c = 1 .. n /\ \A r \in 1 .. n : c[r] = m + r
    BY <2>1
  <2>4. \A r \in 1 .. n : m + r \in Nat \ {0}
    BY <2>2
  <2>5. c \in [1 .. n -> Nat]
    BY <2>1, <2>4
  <2>6. c \in Seq(Nat) /\ Len(c) = n
    BY <2>2, <2>3, <2>5
  <2>7. \A r, s \in 1 .. n : c[r] = c[s] => r = s
    BY <2>2, <2>3
  <2> QED BY <1>4, <2>2, <2>3, <2>4, <2>6, <2>7 DEF c, n
<1> QED BY <1>2, <1>3, <1>4

LEMMA GroupIs ==
  ASSUME Shape
  PROVE  /\ numP \in Nat \ {0} /\ numP = plan.procs[group] /\ DOMAIN comm = 1 .. numP /\ comm \in Seq(Nat)
         /\ group = 1 => \A r \in 1 .. numP : comm[r] = r
         /\ \A r, s \in 1 .. numP : comm[r] = comm[s] => r = s
<1>1. PlanOK /\ group \in {1, 2} /\ comm = CommOf(group)
  BY DEF Shape
<1>2. /\ DOMAIN CommOf(group) = 1 .. plan.procs[group] /\ CommOf(group) \in Seq(Nat)
      /\ group = 1 => \A r \in 1 .. plan.procs[group] : CommOf(group)[r] = r
      /\ \A r, s \in 1 .. plan.procs[group] : CommOf(group)[r] = CommOf(group)[s] => r = s
  BY <1>1, CommOfIs
<1>3. plan.procs[group] \in Nat \ {0}
  BY <1>1 DEF PlanOK
<1>4. numP = plan.procs[group]
  BY <1>1, <1>2, <1>3 DEF numP
<1> QED BY <1>1, <1>2, <1>3, <1>4

LEMMA RankIs ==
  ASSUME Shape, NEW p \in Ranks
  PROVE  Rank(p) \in 0 .. numP - 1 /\ comm[Rank(p) + 1] = p
<1>1. numP \in Nat \ {0} /\ DOMAIN comm = 1 .. numP
  BY GroupIs
<1>2. \E r \in DOMAIN comm : comm[r] = p
  BY DEF Ranks
<1>3. PICK c : c = CHOOSE r \in DOMAIN comm : comm[r] = p
  OBVIOUS
<1>4. c \in DOMAIN comm /\ comm[c] = p
  BY <1>2, <1>3
<1>5. Rank(p) = c - 1
  BY <1>3 DEF Rank
<1> QED BY <1>1, <1>4, <1>5

LEMMA RankOf ==
  ASSUME Shape, NEW r \in 1 .. numP
  PROVE  comm[r] \in Ranks /\ Rank(comm[r]) = r - 1
<1>1. numP \in Nat \ {0} /\ DOMAIN comm = 1 .. numP /\ \A s, t \in 1 .. numP : comm[s] = comm[t] => s = t
  BY GroupIs
<1>2. comm[r] \in Ranks
  BY <1>1 DEF Ranks
<1>3. PICK k : k = Rank(comm[r])
  OBVIOUS
<1>4. k \in 0 .. numP - 1 /\ comm[k + 1] = comm[r]
  BY <1>2, <1>3, RankIs
<1>5. k + 1 \in 1 .. numP
  BY <1>1, <1>4
<1>6. k + 1 = r
  BY <1>1, <1>4, <1>5
<1> QED BY <1>1, <1>2, <1>3, <1>4, <1>6

\* The root is a rank, and no rank is among the processes spawned.
LEMMA RanksAre ==
  ASSUME Shape
  PROVE  comm[1] \in Ranks /\ Ranks \cap Kids = {}
<1>1. /\ numP \in Nat \ {0} /\ numP = plan.procs[group] /\ DOMAIN comm = 1 .. numP
      /\ group = 1 => \A r \in 1 .. numP : comm[r] = r
  BY GroupIs
<1>2. comm[1] \in Ranks
  BY <1>1 DEF Ranks
<1>3. CASE kids = <<>>
  <2>1. DOMAIN kids = {}
    BY <1>3
  <2> QED BY <1>2, <2>1 DEF Kids
<1>4. CASE kids # <<>>
  <2>1. kids = KidsOf /\ group = 1
    BY <1>4 DEF Shape
  <2>2. plan.procs[2] \in Nat /\ plan.procs[1] \in Nat
    BY DEF Shape, PlanOK
  <2>3. \A r \in DOMAIN kids : kids[r] > plan.procs[1]
    BY <2>1, <2>2 DEF KidsOf
  <2>4. \A r \in DOMAIN comm : comm[r] <= plan.procs[1]
    BY <1>1, <2>1, <2>2
  <2>5. ASSUME NEW p \in Ranks, p \in Kids PROVE FALSE
    <3>1. PICK r \in DOMAIN comm : comm[r] = p
      BY <2>5 DEF Ranks
    <3>2. PICK k \in DOMAIN kids : kids[k] = p
      BY <2>5 DEF Kids
    <3>3. kids[k] \in Int /\ comm[r] \in Int
      <4>1. kids[k] \in Int
        BY <2>1, <2>2 DEF KidsOf
      <4>2. comm[r] \in Int
        BY <1>1, <2>1
      <4> QED BY <4>1, <4>2
    <3> QED BY <2>2, <2>3, <2>4, <3>1, <3>2, <3>3
  <2> QED BY <1>2, <2>5
<1> QED BY <1>3, <1>4

\* The other end of an exchange is a rank.
LEMMA PartnerIs ==
  ASSUME Shape, NEW p \in Ranks
  PROVE  Partner(p) \in Ranks
<1>1. numP \in Nat \ {0} /\ DOMAIN comm = 1 .. numP
  BY GroupIs
<1>2. Rank(p) \in Nat
  BY <1>1, RankIs
<1>3. PICK u : u = Rank(p) + numP \div 2
  OBVIOUS
<1>4. u \in Nat
  <2>1. numP \div 2 \in Nat
    BY <1>1
  <2> QED BY <1>2, <1>3, <2>1
<1>5. u % numP \in 0 .. numP - 1
  BY <1>1, <1>4
<1>6. Target(Rank(p)) = u % numP
  BY <1>3 DEF Target
<1>7. Target(Rank(p)) + 1 \in DOMAIN comm
  BY <1>1, <1>5, <1>6
<1> QED BY <1>7 DEF Partner, Ranks
-----------------------------------------------------------------------------
(* What the plan, the group and its processes decide stays while they do. *)

Frame == UNCHANGED <<plan, group, comm, kids>>

LEMMA FrameStages ==
  ASSUME Frame
  PROVE  /\ N' = N /\ StageIds' = StageIds /\ (compute' <=> compute)
         /\ \A s : Calibrated(s)' <=> Calibrated(s)
         /\ \A s : UsesTop(s)' <=> UsesTop(s)
         /\ \A s : Messages(s)' <=> Messages(s)
         /\ \A s, u : LocalOps(s, u)' = LocalOps(s, u)
         /\ \A s, l : MeasuresShared(l, s)' <=> MeasuresShared(l, s)
         /\ \A s : RunNames(s)' = RunNames(s)
<1>1. plan' = plan /\ group' = group
  BY DEF Frame
<1>2. N' = N /\ StageIds' = StageIds /\ (compute' <=> compute)
  BY <1>1 DEF N, StageIds, compute
<1>3. \A s : UsesTop(s)' <=> UsesTop(s)
  BY <1>1 DEF UsesTop
<1>4. \A s : Calibrated(s)' <=> Calibrated(s)
  BY <1>1, <1>2 DEF Calibrated
<1>5. \A s : Messages(s)' <=> Messages(s)
  BY <1>1 DEF Messages
<1>6. \A x : Goal(x)' = Goal(x)
  BY <1>1 DEF Goal
<1>7. \A s, u : LocalOps(s, u)' = LocalOps(s, u)
  BY <1>1, <1>3, <1>6 DEF LocalOps
<1>8. \A s, l : MeasuresShared(l, s)' <=> MeasuresShared(l, s)
  BY <1>3 DEF MeasuresShared
<1>9. \A s : RunNames(s)' = RunNames(s)
  BY <1>1 DEF RunNames
<1> QED BY <1>2, <1>3, <1>4, <1>5, <1>7, <1>8, <1>9

LEMMA FrameCalls ==
  ASSUME Frame
  PROVE  /\ \A q, a : Calls(q, a)' = Calls(q, a)
         /\ \A a : Quiet(a)' <=> Quiet(a)
         /\ Places' = Places
<1>1. plan' = plan /\ group' = group
  BY DEF Frame
<1>2. \A s : Call(s)' = Call(s)
  BY <1>1 DEF Call
<1>3. \A s : /\ CommCalls(s)' = CommCalls(s) /\ IPointCalls(s)' = IPointCalls(s)
             /\ FileCalls(s)' = FileCalls(s) /\ ComputeCalls(s)' = ComputeCalls(s)
  BY <1>2 DEF CommCalls, IPointCalls, FileCalls, ComputeCalls
<1>4. \A s : InitCalls(s)' = InitCalls(s)
  BY <1>1, <1>3, FrameStages DEF InitCalls
<1>5. \A s, i : Lap(s, i)' = Lap(s, i)
  BY <1>1, <1>2 DEF Lap
<1>6. \A q, s : Process(q, s)' = Process(q, s)
  BY <1>1, <1>2, <1>5 DEF Process
<1>7. \A s : Barrier(s)' = Barrier(s)
  BY <1>1 DEF Barrier
<1>8. \A q, a : Calls(q, a)' = Calls(q, a)
  BY <1>4, <1>6, <1>7 DEF Calls
<1>9. \A a : Quiet(a)' <=> Quiet(a)
  BY <1>1, FrameStages DEF Quiet
<1>10. Places' = Places
  BY FrameStages DEF Places
<1> QED BY <1>8, <1>9, <1>10

LEMMA FramePair ==
  ASSUME Frame
  PROVE  \A p, q, x, y : Pair(p, q, x, y)' <=> Pair(p, q, x, y)
<1>1. kids' = kids /\ group' = group
  BY DEF Frame
<1>2. Kids' = Kids
  BY <1>1 DEF Kids
<1>3. \A a, b : QuietBetween(a, b)' <=> QuietBetween(a, b)
  BY FrameCalls DEF QuietBetween
<1>4. \A x, y : Behind(x, y)' <=> Behind(x, y)
  BY <1>3, FrameCalls DEF Behind
<1>5. \A x, y : AgreeOps(x, y)' <=> AgreeOps(x, y)
  BY FrameStages DEF AgreeOps
<1>6. \A p, q, s : TopSettled(p, q, s)' <=> TopSettled(p, q, s)
  BY <1>1, <1>2 DEF TopSettled
<1>7. \A p, q, x, y : AgreeTop(p, q, x, y)' <=> AgreeTop(p, q, x, y)
  BY <1>6, FrameStages DEF AgreeTop
<1> QED BY <1>4, <1>5, <1>7 DEF Pair

LEMMA FrameProc ==
  ASSUME Frame
  PROVE  \A p, q : ProcOK(p, q)' <=> ProcOK(p, q)
<1>1. /\ plan' = plan /\ group' = group /\ comm' = comm /\ kids' = kids
  BY DEF Frame
<1>2. Kids' = Kids /\ numP' = numP /\ \A p : Rank(p)' = Rank(p)
  BY <1>1 DEF Kids, numP, Rank
<1>3. \A q : Stored(q)' <=> Stored(q)
  BY FrameStages DEF Stored
<1>4. \A x, s, r : GatherOK(x, s, r)' <=> GatherOK(x, s, r)
  BY <1>1, <1>2 DEF GatherOK
<1>5. \A p, q : DataOK(p, q)' <=> DataOK(p, q)
  BY <1>1, <1>2, <1>4, FrameStages DEF DataOK
<1>6. \A q : TodoOK(q)' <=> TodoOK(q)
  BY <1>1, FrameStages DEF TodoOK
<1> QED BY <1>2, <1>3, <1>5, <1>6 DEF ProcOK

LEMMA FrameTogether ==
  ASSUME Frame
  PROVE  (PlanOK' <=> PlanOK) /\ Ranks' = Ranks /\ Kids' = Kids /\ Talking' = Talking
         /\ \A m : Together(m)' <=> Together(m)
<1>1. /\ plan' = plan /\ group' = group /\ comm' = comm /\ kids' = kids
  BY DEF Frame
<1>2. Ranks' = Ranks /\ Kids' = Kids /\ Talking' = Talking
  BY <1>1 DEF Ranks, Kids, Talking
<1>3. PlanOK' <=> PlanOK
  BY <1>1 DEF PlanOK
<1>4. \A m : Together(m)' <=> Together(m)
  BY <1>2, FramePair, FrameProc DEF Together
<1> QED BY <1>2, <1>3, <1>4
-----------------------------------------------------------------------------
(* The steps of one rank. *)

LEMMA ChangeKeeps ==
  ASSUME PlanOK, group \in {1, 2}, NEW m, Together(m), NEW p \in Talking, NEW n,
         Drops(p, m[p], n[p]) \/ Moves(p, m[p], n[p]), \A r \in Talking : r # p => n[r] = m[r]
  PROVE  Together(n)
<1>1. /\ \A r \in Talking : ProcOK(r, m[r])
      /\ \A r \in Talking : Pair(r, p, m[r], m[p])
  BY DEF Together
<1>2. ProcOK(p, n[p])
  BY <1>1, DropOK DEF Moves
<1>3. ASSUME NEW r \in Talking PROVE Pair(r, p, m[r], n[p])
  BY <1>1, DropPair, MovePair
<1> QED BY <1>2, <1>3, OneChange

\* What a step of ranks that are at work does.
Stepped ==
  /\ Frame /\ Together(proc') /\ DOMAIN proc' = DOMAIN proc
  /\ \A r \in DOMAIN proc \ Talking : proc'[r] = proc[r]
  /\ \A r \in Talking : proc'[r].mode = "config" => proc[r].mode = "config"

LEMMA SetSteps ==
  ASSUME Shape, Together(proc), NEW p \in Talking, NEW z, Set(p, z), Drops(p, proc[p], z) \/ Moves(p, proc[p], z)
  PROVE  Stepped
<1>1. PlanOK /\ group \in {1, 2} /\ Talking \subseteq DOMAIN proc
  BY DEF Shape
<1>2. PICK n : n = [proc EXCEPT ![p] = z]
  OBVIOUS
<1>3. DOMAIN n = DOMAIN proc /\ n[p] = z /\ \A r \in DOMAIN proc : r # p => n[r] = proc[r]
  BY <1>1, <1>2
<1>4. proc' = n /\ Frame
  BY <1>2 DEF Set, Frame
<1>5. Together(n)
  BY <1>1, <1>3, ChangeKeeps
<1>6. \A r \in Talking : n[r].mode = "config" => proc[r].mode = "config"
  BY <1>1, <1>3 DEF Drops, Moves
<1> QED BY <1>1, <1>3, <1>4, <1>5, <1>6 DEF Stepped

\* A rank has nothing left to do, or a call or step of the list.
LEMMA Head1Is ==
  ASSUME NEW p, ProcOK(p, proc[p])
  PROVE  /\ Head1(p) = "next" <=> proc[p].todo = <<>>
         /\ Head1(p) # "next" => Head1(p) = Head(proc[p].todo)[1]
         /\ Head1(p) \in {"measure", "clock", "post", "realloc", "waitall", "waitpair", "cancel", "p2p"}
              => proc[p].todo # <<>> /\ ~IsCall(Head(proc[p].todo))
<1>1. proc[p].todo # <<>> => Head(proc[p].todo)[1] \in Names
  BY HeadIs
<1>2. "next" \notin Names /\ \A x \in {"measure", "clock", "post", "realloc", "waitall", "waitpair", "cancel", "p2p"} :
                                  x # "next" /\ x \notin Collectives
  BY CollectivesAre DEF Names, InitNames, LapNames, SendNames
<1>3. CASE proc[p].todo = <<>>
  <2>1. Head1(p) = "next"
    BY <1>3 DEF Head1
  <2> QED BY <1>2, <1>3, <2>1
<1>4. CASE proc[p].todo # <<>>
  <2>1. Head1(p) = Head(proc[p].todo)[1]
    BY <1>4 DEF Head1
  <2> QED BY <1>1, <1>2, <1>4, <2>1 DEF IsCall
<1> QED BY <1>3, <1>4

\* An initialisation is then the same in every rank.
LEMMA SoundInit ==
  ASSUME PlanOK, Sound, NEW q, NEW s \in StageIds, NEW r, NEW opened \in Opens, NEW garbage \in Garbage
  PROVE  InitStage(q, s, r, opened, garbage) = InitStage(q, s, r, TRUE, FALSE)
<1>1. opened \in BOOLEAN /\ garbage \in BOOLEAN
  BY StagesAssumption
<1>2. PICK x : x = [q EXCEPT !.s = s, !.st[s].ops = Calibration]
  OBVIOUS
<1>3. PICK k : k = plan.stages[s].kind
  OBVIOUS
<1>4. ASSUME NEW o, NEW g
      PROVE  InitStage(q, s, r, o, g) =
               CASE k = "compute" -> InitCompute(x, s)
                 [] k = "point" -> InitComm(x, s)
                 [] k = "collective" -> InitCollective(x, s)
                 [] k = "gather" -> InitGather(x, s, r)
                 [] k = "ipoint" -> InitIPoint(x, s, g)
                 [] k = "wait" -> InitWait(x, s)
                 [] k = "write" -> InitWrite(x, s, r, o)
                 [] k = "read" -> InitRead(x, s, o)
  BY <1>2, <1>3 DEF InitStage
<1>5. k = "ipoint" => InitIPoint(x, s, garbage) = InitIPoint(x, s, FALSE)
  <2>1. CASE garbage = FALSE
    BY <2>1
  <2>2. CASE garbage = TRUE
    <3>1. k = "ipoint" => plan.stages[s].bytes # 0
      BY <1>3, <2>2 DEF Sound
    <3> QED BY <3>1 DEF InitIPoint
  <2> QED BY <1>1, <2>1, <2>2
<1>6. k \in {"write", "read"} => opened = TRUE
  BY <1>1, <1>3 DEF Sound
<1>7. CASE k = "ipoint"
  <2>1. ASSUME NEW o, NEW g PROVE InitStage(q, s, r, o, g) = InitIPoint(x, s, g)
    BY <1>4, <1>7
  <2> QED BY <1>5, <1>7, <2>1
<1>8. CASE k \in {"write", "read"}
  <2>1. ASSUME NEW g, NEW h PROVE InitStage(q, s, r, TRUE, g) = InitStage(q, s, r, TRUE, h)
    BY <1>4, <1>8
  <2> QED BY <1>6, <1>8, <2>1
<1>9. CASE k \notin {"ipoint", "write", "read"}
  <2>1. k \in {"compute", "point", "collective", "gather", "wait"}
    BY <1>3, <1>9, StageIs DEF Kinds
  <2>2. ASSUME NEW o, NEW g, NEW v, NEW h PROVE InitStage(q, s, r, o, g) = InitStage(q, s, r, v, h)
    <3>1. CASE k = "compute"
      BY <1>4, <3>1
    <3>2. CASE k = "point"
      BY <1>4, <3>2
    <3>3. CASE k = "collective"
      BY <1>4, <3>3
    <3>4. CASE k = "gather"
      BY <1>4, <3>4
    <3>5. CASE k = "wait"
      BY <1>4, <3>5
    <3> QED BY <2>1, <3>1, <3>2, <3>3, <3>4, <3>5
  <2> QED BY <2>2
<1> QED BY <1>7, <1>8, <1>9

\* The configuration stays.
LEMMA PlanStays == ASSUME [Next]_vars PROVE plan' = plan
<1>1. ASSUME NEW p, Step(p) PROVE plan' = plan
  BY <1>1 DEF Step, NextInit, NextStage, Measure, Clock, Post, Reallocate, Wait, Exchange, Finish, Set
<1>2. Collective \/ Reconfigure \/ StartGroup \/ Finished \/ UNCHANGED vars => plan' = plan
  BY DEF Collective, Reconfigure, StartGroup, Finished, vars
<1> QED BY <1>1, <1>2 DEF Next

LEMMA NextInitSteps ==
  ASSUME Shape, Together(proc), Sound, NEW p, NextInit(p)
  PROVE  Stepped
<1>1. PlanOK /\ group \in {1, 2} /\ p \in Talking /\ Head1(p) = "next" /\ proc[p].mode = "init"
  BY DEF Shape, NextInit, At
<1>2. ProcOK(p, proc[p])
  BY <1>1 DEF Together
<1>3. PICK q : q = proc[p]
  OBVIOUS
<1>4. q.todo = <<>> /\ DOMAIN q = Fields /\ Stored(q) /\ q.s \in 0 .. N /\ N \in Nat /\ StageIds = 1 .. N
  <2>1. q.todo = <<>>
    BY <1>1, <1>2, <1>3, Head1Is
  <2>2. DOMAIN q = Fields
    BY <1>2, <1>3, Memory
  <2>3. q.s \in 0 .. N
    BY <1>1, <1>2, <1>3 DEF ProcOK, TodoOK
  <2>4. Stored(q)
    BY <1>2, <1>3, <2>1 DEF ProcOK, Has
  <2> QED BY <1>1, <2>1, <2>2, <2>3, <2>4, NStages
<1>5. CASE q.s < N
  <2>3. PICK s \in StageIds : s = q.s + 1
    BY <1>4, <1>5
  <2>1. PICK z : z = InitStage(q, q.s + 1, Rank(p), TRUE, FALSE)
    OBVIOUS
  <2>2. Set(p, z)
    <3>1. PICK opened \in Opens, garbage \in Garbage : Set(p, InitStage(q, q.s + 1, Rank(p), opened, garbage))
      BY <1>3, <1>5 DEF NextInit, N
    <3>2. InitStage(q, s, Rank(p), opened, garbage) = InitStage(q, s, Rank(p), TRUE, FALSE)
      BY <1>1, SoundInit
    <3> QED BY <2>1, <2>3, <3>1, <3>2
  <2>4. Initialised(q, s, z, Rank(p))
    BY <1>1, <1>4, <2>1, <2>3, InitStageIs
  <2>5. Moves(p, q, z)
    BY <1>1, <1>2, <1>3, <1>4, <1>5, <2>3, <2>4, InitMove
  <2> QED BY <1>1, <1>3, <2>2, <2>5, SetSteps
<1>6. CASE ~(q.s < N)
  <2>1. PICK z : z = [q EXCEPT !.mode = "run", !.s = 0, !.todo = Barrier(0)]
    OBVIOUS
  <2>2. Set(p, z)
    BY <1>3, <1>6, <2>1 DEF NextInit, N
  <2>3. q.s = N
    BY <1>4, <1>6
  <2>4. Moves(p, q, z)
    BY Zenon, <1>1, <1>2, <1>3, <1>4, <2>1, <2>3, RunMoves
  <2> QED BY <1>1, <1>3, <2>2, <2>4, SetSteps
<1> QED BY <1>5, <1>6

LEMMA NextStageSteps ==
  ASSUME Shape, Together(proc), NEW p, NextStage(p)
  PROVE  Stepped
<1>1. PlanOK /\ group \in {1, 2} /\ p \in Talking /\ Head1(p) = "next" /\ proc[p].mode = "run"
  BY DEF Shape, NextStage, At
<1>2. ProcOK(p, proc[p])
  BY <1>1 DEF Together
<1>3. PICK q : q = proc[p]
  OBVIOUS
<1>4. q.todo = <<>> /\ q.s \in 0 .. N /\ N \in Nat
  <2>1. q.todo = <<>>
    BY <1>1, <1>2, <1>3, Head1Is
  <2>2. q.s \in 0 .. N
    BY <1>1, <1>2, <1>3 DEF ProcOK, TodoOK
  <2> QED BY <1>1, <2>1, <2>2, NStages
<1>5. CASE q.s < N
  <2>1. PICK z : z = [q EXCEPT !.s = @ + 1, !.todo = Process(q, q.s + 1) \o Barrier(q.s + 1)]
    OBVIOUS
  <2>2. Set(p, z)
    <3>1. q.s < Len(plan.stages) /\ ~(q.s = Len(plan.stages) /\ q.iter + 1 < Iters)
      BY <1>4, <1>5 DEF N
    <3> QED BY <1>3, <2>1, <3>1 DEF NextStage
  <2>3. Moves(p, q, z)
    BY Zenon, <1>1, <1>2, <1>3, <1>4, <1>5, <2>1, RunMoves
  <2> QED BY <1>1, <1>3, <2>2, <2>3, SetSteps
<1>6. CASE q.s = N /\ q.iter + 1 < Iters
  <2>1. PICK z : z = [q EXCEPT !.s = 0, !.iter = @ + 1, !.todo = Barrier(0) \o Barrier(0)]
    OBVIOUS
  <2>2. Set(p, z)
    <3>1. ~(q.s < Len(plan.stages)) /\ q.s = Len(plan.stages) /\ q.iter + 1 < Iters
      BY <1>4, <1>6 DEF N
    <3> QED BY <1>3, <2>1, <3>1 DEF NextStage
  <2>3. Moves(p, q, z)
    BY Zenon, <1>1, <1>2, <1>3, <1>4, <1>6, <2>1, RunMoves
  <2> QED BY <1>1, <1>3, <2>2, <2>3, SetSteps
<1>7. CASE q.s = N /\ ~(q.iter + 1 < Iters)
  <2>1. PICK z : z = [q EXCEPT !.mode = "ready", !.s = 0, !.todo = Barrier(0)]
    OBVIOUS
  <2>2. Set(p, z)
    <3>1. ~(q.s < Len(plan.stages)) /\ ~(q.s = Len(plan.stages) /\ q.iter + 1 < Iters)
      BY <1>4, <1>7 DEF N
    <3> QED BY <1>3, <2>1, <3>1 DEF NextStage
  <2>3. Moves(p, q, z)
    BY Zenon, <1>1, <1>2, <1>3, <1>4, <1>7, <2>1, RunMoves
  <2> QED BY <1>1, <1>3, <2>2, <2>3, SetSteps
<1>8. q.s < N \/ q.s = N
  BY <1>4
<1> QED BY <1>5, <1>6, <1>7, <1>8

LEMMA FinishSteps ==
  ASSUME Shape, Together(proc), NEW p, Finish(p)
  PROVE  Stepped
<1>1. /\ PlanOK /\ p \in Talking /\ Head1(p) = "next" /\ proc[p].mode = "ready" /\ group = 2
      /\ Set(p, FreeConfig(proc[p]))
  BY DEF Shape, Finish, At
<1>2. ProcOK(p, proc[p])
  BY <1>1 DEF Together
<1>3. proc[p].todo = <<>>
  BY <1>1, <1>2, Head1Is
<1>4. Moves(p, proc[p], FreeConfig(proc[p]))
  BY <1>1, <1>2, <1>3, FinishMove
<1> QED BY <1>1, <1>4, SetSteps

LEMMA DropSteps ==
  ASSUME Shape, Together(proc), NEW p, Measure(p) \/ Clock(p) \/ Post(p) \/ Reallocate(p)
  PROVE  Stepped
<1>1. /\ PlanOK /\ group \in {1, 2} /\ p \in Talking
      /\ Head1(p) \in {"measure", "clock", "post", "realloc"}
  BY Zenon DEF Shape, Measure, Clock, Post, Reallocate, At
<1>2. ProcOK(p, proc[p])
  BY <1>1 DEF Together
<1>3. PICK q : q = proc[p]
  OBVIOUS
<1>4. /\ ProcOK(p, q) /\ q.todo # <<>> /\ ~IsCall(Head(q.todo)) /\ Head1(p) = Head(q.todo)[1]
      /\ Item(p) = Head(q.todo)
  BY <1>1, <1>2, <1>3, Head1Is DEF Item
<1>5. CASE Measure(p)
  <2>1. PICK s : s = Head(q.todo)[2]
    OBVIOUS
  <2>2. Head(q.todo)[1] = "measure"
    BY Zenon, <1>4, <1>5 DEF Measure, At
  <2>3. \/ \E c \in Costs :
             Set(p, [Rest(q) EXCEPT !.st[s].top = c, !.st[s].ops = CeilDiv(Goal(plan.stages[s]), c)])
        \/ Set(p, Rest(q))
    BY Zenon, <1>3, <1>4, <1>5, <2>1 DEF Measure
  <2>4. CASE Set(p, Rest(q))
    <3>1. Drops(p, q, Rest(q))
      BY <1>4, ClockDrops
    <3> QED BY <1>1, <1>3, <2>4, <3>1, SetSteps
  <2>5. ASSUME NEW c \in Costs,
               Set(p, [Rest(q) EXCEPT !.st[s].top = c, !.st[s].ops = CeilDiv(Goal(plan.stages[s]), c)])
        PROVE  Stepped
    <3>1. PICK z : z = [Rest(q) EXCEPT !.st[s].top = c, !.st[s].ops = CeilDiv(Goal(plan.stages[s]), c)]
      OBVIOUS
    <3>2. Drops(p, q, z)
      BY Zenon, <1>1, <1>4, <2>1, <2>2, <3>1, MeasureDrops
    <3>3. Set(p, z)
      BY <2>5, <3>1
    <3> QED BY <1>1, <1>3, <3>2, <3>3, SetSteps
  <2> QED BY <2>3, <2>4, <2>5
<1>6. CASE Clock(p)
  <2>1. PICK late : Set(p, [Rest(q) EXCEPT !.late = late])
    BY <1>3, <1>6 DEF Clock
  <2>2. PICK z : z = [Rest(q) EXCEPT !.late = late]
    OBVIOUS
  <2>3. Drops(p, q, z)
    BY <1>4, <2>2, ClockDrops
  <2> QED BY <1>1, <1>3, <2>1, <2>2, <2>3, SetSteps
<1>7. CASE Post(p)
  <2>1. PICK n, set : Set(p, [Rest(q) EXCEPT !.posted = n, !.active = set])
    <3>1. PICK n : n = proc[p].posted + 1
      OBVIOUS
    <3>2. PICK set : set = Rest(q).active \cup {<<q.st[Item(p)[2]].reqs, Item(p)[3], n>>}
      OBVIOUS
    <3>3. Set(p, [Rest(q) EXCEPT !.posted = n, !.active = set])
      <4>1. Set(p, [Rest(q) EXCEPT !.posted = n, !.active = @ \cup {<<q.st[Item(p)[2]].reqs, Item(p)[3], n>>}])
        BY <1>3, <1>7, <3>1 DEF Post
      <4> QED BY <3>2, <4>1
    <3> QED BY <3>3
  <2>2. PICK z : z = [Rest(q) EXCEPT !.posted = n, !.active = set]
    OBVIOUS
  <2>3. Drops(p, q, z)
    BY <1>4, <2>2, ClockDrops
  <2> QED BY <1>1, <1>3, <2>1, <2>2, <2>3, SetSteps
<1>8. CASE Reallocate(p)
  <2>1. PICK s : s = Head(q.todo)[2]
    OBVIOUS
  <2>2. Head(q.todo)[1] = "realloc"
    BY Zenon, <1>4, <1>8 DEF Reallocate, At
  <2>3. PICK f : f = Free(Rest(q), q.st[s].reqs)
    OBVIOUS
  <2>4. PICK z : z = Allocate(f, s, f.st[s].ops)
    OBVIOUS
  <2>5. Set(p, z)
    BY Zenon, <1>3, <1>4, <1>8, <2>1, <2>3, <2>4 DEF Reallocate
  <2>6. Drops(p, q, z)
    BY Zenon, <1>1, <1>4, <2>1, <2>2, <2>3, <2>4, ReallocateDrops
  <2> QED BY <1>1, <1>3, <2>5, <2>6, SetSteps
<1> QED BY <1>5, <1>6, <1>7, <1>8

LEMMA WaitSteps ==
  ASSUME Shape, Together(proc), NEW p \in DOMAIN proc, Wait(p)
  PROVE  Stepped
<1>1. PlanOK /\ group \in {1, 2} /\ Head1(p) \in {"waitall", "waitpair", "cancel"}
  BY DEF Shape, Wait
<1>2. p \in Talking
  <2>1. ASSUME p \notin Talking PROVE FALSE
    <3>1. proc[p].todo = <<>>
      BY <2>1 DEF Shape
    <3> QED BY <1>1, <3>1 DEF Head1
  <2> QED BY <2>1
<1>3. ProcOK(p, proc[p])
  BY <1>2 DEF Together
<1>4. PICK q : q = proc[p]
  OBVIOUS
<1>5. ProcOK(p, q) /\ q.todo # <<>> /\ ~IsCall(Head(q.todo))
  BY <1>1, <1>3, <1>4, Head1Is
<1>6. PICK set : set = Rest(q).active \ Awaited(p)
  OBVIOUS
<1>7. PICK z : z = [Rest(q) EXCEPT !.active = set]
  OBVIOUS
<1>8. Set(p, z)
  BY <1>4, <1>6, <1>7 DEF Wait
<1>9. Drops(p, q, z)
  BY <1>5, <1>7, ClockDrops
<1> QED BY <1>2, <1>4, <1>8, <1>9, SetSteps

LEMMA ExchangeSteps ==
  ASSUME Shape, Together(proc), NEW p, Exchange(p)
  PROVE  Stepped
<1>1. PlanOK /\ group \in {1, 2} /\ Talking \subseteq DOMAIN proc /\ p \in Talking /\ Head1(p) = "p2p"
  BY DEF Shape, Exchange, At
<1>2. \A r \in Talking : ProcOK(r, proc[r])
  BY DEF Together
<1>3. \A r \in Talking : Head1(r) = "p2p" => proc[r].todo # <<>> /\ ~IsCall(Head(proc[r].todo)) /\ Drops(r, proc[r], Rest(proc[r]))
  BY <1>2, Head1Is, ClockDrops
<1>4. p \in Ranks
  <2>1. ASSUME p \in Kids PROVE FALSE
    <3>1. proc[p].mode = "config" /\ proc[p].todo # <<>>
      BY <1>1, <1>2, <1>3, <2>1 DEF ProcOK
    <3>2. Head(proc[p].todo)[1] \in SendNames
      BY <1>1, <1>2, <3>1, HeadIs
    <3>3. Head(proc[p].todo)[1] = "p2p"
      BY <1>1, <1>2, Head1Is
    <3> QED BY <3>2, <3>3 DEF SendNames
  <2> QED BY <1>1, <2>1 DEF Talking
<1>5. PICK q : q = Partner(p)
  OBVIOUS
<1>6. q \in Talking
  BY <1>4, <1>5, PartnerIs DEF Talking
<1>7. /\ Head1(q) = "p2p" /\ Frame
      /\ proc' = [r \in DOMAIN proc |-> IF r \in {p, q} THEN Rest(proc[r]) ELSE proc[r]]
  BY <1>5 DEF Exchange, Frame
<1>8. PICK m : m = [proc EXCEPT ![p] = Rest(proc[p])]
  OBVIOUS
<1>9. DOMAIN m = DOMAIN proc /\ m[p] = Rest(proc[p]) /\ \A r \in DOMAIN proc : r # p => m[r] = proc[r]
  BY <1>1, <1>8
<1>10. Together(m)
  BY <1>1, <1>3, <1>9, ChangeKeeps
<1>11. PICK n : n = [r \in DOMAIN proc |-> IF r \in {p, q} THEN Rest(proc[r]) ELSE proc[r]]
  OBVIOUS
<1>12. /\ DOMAIN n = DOMAIN proc /\ n[p] = Rest(proc[p]) /\ n[q] = Rest(proc[q])
       /\ \A r \in DOMAIN proc : r \notin {p, q} => n[r] = proc[r]
  BY <1>1, <1>6, <1>11
<1>13. Together(n)
  <2>1. CASE q = p
    <3>1. \A r \in Talking : r # p => n[r] = proc[r]
      BY <1>1, <1>12, <2>1
    <3> QED BY <1>1, <1>3, <1>12, <3>1, ChangeKeeps
  <2>2. CASE q # p
    <3>1. m[q] = proc[q] /\ \A r \in Talking : r # q => n[r] = m[r]
      BY <1>1, <1>6, <1>9, <1>12, <2>2
    <3>2. Drops(q, m[q], n[q])
      BY <1>3, <1>6, <1>7, <1>12, <3>1
    <3> QED BY <1>1, <1>6, <1>10, <3>1, <3>2, ChangeKeeps
  <2> QED BY <2>1, <2>2
<1>14. \A r \in Talking : n[r].mode = "config" => proc[r].mode = "config"
  <2>1. n[p].mode = proc[p].mode /\ n[q].mode = proc[q].mode
    BY <1>1, <1>3, <1>6, <1>7, <1>12 DEF Drops
  <2> QED BY <1>1, <1>12, <2>1
<1>15. \A r \in DOMAIN proc \ Talking : n[r] = proc[r]
  BY <1>1, <1>6, <1>12
<1> QED BY <1>7, <1>11, <1>12, <1>13, <1>14, <1>15 DEF Stepped

LEMMA StepSteps ==
  ASSUME Shape, Together(proc), Sound, NEW p \in DOMAIN proc, Step(p)
  PROVE  Stepped
BY NextInitSteps, NextStageSteps, DropSteps, WaitSteps, ExchangeSteps, FinishSteps DEF Step
-----------------------------------------------------------------------------
(* The collective calls. *)

TheCall == Item(comm[1])
Meeting == \A p \in Talking : Head1(p) \in Collectives /\ Item(p) = TheCall

\* Ranks that meet are in the same place, with the same calls to make.
LEMMA MeetIs ==
  ASSUME Shape, Together(proc), Meeting, NEW p \in Talking
  PROVE  /\ proc[p].todo = Root.todo /\ proc[p].mode = Root.mode /\ Place(proc[p]) = Place(Root)
         /\ Root.mode \in {"init", "run"} => proc[p].s = Root.s
         /\ Root.todo # <<>> /\ Head(Root.todo) = TheCall /\ TheCall[1] \in Collectives
         /\ ProcOK(p, proc[p]) /\ ProcOK(comm[1], Root) /\ comm[1] \in Talking /\ comm[1] \notin Kids
<1>1. comm[1] \in Talking /\ comm[1] \notin Kids
  BY RanksAre DEF Talking
<1>2. PlanOK /\ \A r \in Talking : ProcOK(r, proc[r]) /\ Placed(proc[r])
  BY PlacedIs DEF Shape, Together
<1>3. "next" \notin Collectives
  BY CollectivesAre DEF SendNames
<1>4. \A r \in Talking : /\ proc[r].todo # <<>> /\ Head(proc[r].todo) = TheCall /\ TheCall[1] \in Collectives
                         /\ IsCall(Head(proc[r].todo))
  <2>1. ASSUME NEW r \in Talking
        PROVE  /\ proc[r].todo # <<>> /\ Head(proc[r].todo) = TheCall /\ TheCall[1] \in Collectives
               /\ IsCall(Head(proc[r].todo))
    <3>1. Head1(r) \in Collectives /\ Item(r) = TheCall
      BY DEF Meeting
    <3>2. proc[r].todo # <<>> /\ Head1(r) = Head(proc[r].todo)[1]
      BY <1>2, <1>3, <3>1, Head1Is
    <3> QED BY <3>1, <3>2 DEF Item, IsCall
  <2> QED BY <2>1
<1>5. Root = proc[comm[1]]
  BY DEF Root
<1>6. Near(proc[p], Root)
  BY <1>1, <1>5 DEF Together, Pair, Near
<1>7. Place(proc[p]) = Place(Root) /\ proc[p].todo = Root.todo
  BY <1>1, <1>2, <1>4, <1>5, <1>6, MeetInCall
<1>8. \A r \in Talking : proc[r].mode \in {"init", "run", "ready", "config"}
  BY <1>2, <1>4, HeadIs
<1>9. proc[p].mode = Root.mode
  <2>1. Phase(proc[p].mode) = Phase(Root.mode)
    BY <1>7 DEF Place
  <2> QED BY <1>1, <1>5, <1>8, <2>1 DEF Phase
<1>10. Root.mode \in {"init", "run"} => proc[p].s = Root.s
  BY <1>7, <1>9 DEF Place
<1> QED BY <1>1, <1>2, <1>4, <1>5, <1>7, <1>9, <1>10

\* Which calls are made where.
LEMMA CallWhere ==
  ASSUME PlanOK, NEW p, NEW q, ProcOK(p, q), q.todo # <<>>
  PROVE  /\ q.mode \in {"init", "run", "ready", "config"}
         /\ q.mode = "init" => q.s \in StageIds /\ Head(q.todo)[2] = q.s /\ Calibrated(q.s) /\ group = 1
         /\ Head(q.todo)[1] \in {"bops", "btop"} => q.mode = "init"
         /\ Head(q.todo)[1] = "btotal" =>
              /\ q.mode = "run" /\ q.s \in StageIds /\ Head(q.todo)[2] = q.s /\ Head(q.todo)[3] \in Nat
              /\ plan.stages[q.s].kind \in {"point", "collective", "gather", "wait"}
         /\ Head(q.todo)[1] = "stages" => q.mode = "config"
         /\ q.mode = "config" => group = 1
<1>0. N \in Nat /\ StageIds = 1 .. N
  BY NStages
<1>1. /\ q.mode \in {"init", "run", "ready", "config"}
      /\ q.mode = "init" => q.s \in StageIds /\ Head(q.todo)[2] = q.s /\ Calibrated(q.s) /\ Head(q.todo)[1] \in InitNames
      /\ q.mode = "run" => Head(q.todo)[1] \in RunNames(q.s) /\ Head(q.todo)[2] = q.s
      /\ q.mode = "ready" => Head(q.todo)[1] = "barrier"
      /\ q.mode = "config" => Head(q.todo)[1] \in SendNames
  BY <1>0, HeadIs
<1>2. q.mode = "init" => group = 1
  BY <1>1 DEF Calibrated, compute
<1>3. q.mode = "run" => Head(q.todo)[1] \notin {"bops", "btop", "stages"}
  BY <1>1 DEF RunNames
<1>4. Head(q.todo)[1] \in {"bops", "btop"} => q.mode = "init"
  BY <1>1, <1>3 DEF SendNames
<1>5. Head(q.todo)[1] = "stages" => q.mode = "config"
  BY <1>1, <1>3 DEF InitNames
<1>6. Head(q.todo)[1] = "btotal" => q.mode = "run"
  BY <1>1 DEF InitNames, SendNames
<1>7. ASSUME Head(q.todo)[1] = "btotal"
      PROVE  /\ q.s \in StageIds /\ Head(q.todo)[3] \in Nat
             /\ plan.stages[q.s].kind \in {"point", "collective", "gather", "wait"}
  <2>1. q.mode = "run" /\ "btotal" \in RunNames(q.s)
    BY <1>1, <1>6, <1>7
  <2>2. q.s # 0 /\ plan.stages[q.s].kind \in {"point", "collective", "gather", "wait"}
    BY <2>1 DEF RunNames
  <2>3. q.s \in 0 .. N
    BY <2>1 DEF ProcOK, TodoOK
  <2>4. Head(q.todo) \in Items
    BY TailIs DEF ProcOK, IsProc
  <2> QED BY <1>0, <2>2, <2>3, <2>4 DEF Items
<1>8. q.mode = "config" => group = 1
  BY DEF ProcOK, TodoOK
<1> QED BY <1>1, <1>2, <1>4, <1>5, <1>6, <1>7, <1>8

\* What is left to do after the call.
NextTodo ==
  LET s == TheCall[2]
      rest == Tail(Root.todo)
  IN  IF TheCall[1] = "btotal"
        THEN IF ~Root.late THEN Lap(s, TheCall[3] + 1) \o rest
             ELSE IF plan.stages[s].kind \in {"wait", "ipoint"} THEN << <<"cancel", s, TheCall[3]>> >> \o rest
             ELSE rest
        ELSE rest

\* A process with the result of the call.
Answered(p, q, z) ==
  LET name == TheCall[1]
      s == TheCall[2]
  IN  /\ DOMAIN z = Fields /\ z.mode = q.mode /\ z.s = q.s /\ z.iter = q.iter /\ z.todo = NextTodo
      /\ Stored(q) => Stored(z)
      /\ name = "stages" /\ p \in Kids => Stored(z) /\ \A t \in StageIds : z.st[t].top = Root.st[t].top
      /\ ~(name = "stages" /\ p \in Kids) =>
           \A t \in StageIds :
             /\ z.st[t].my = q.st[t].my /\ z.st[t].counts = q.st[t].counts
             /\ name # "bops" \/ t # s => z.st[t].ops = q.st[t].ops
             /\ name # "btop" \/ t # s => z.st[t].top = q.st[t].top
      /\ name = "bops" => z.st[s].ops = Root.st[s].ops
      /\ name = "btop" => z.st[s].top = Root.st[s].top

WithTop(q, s, v) == [q EXCEPT !.st[s].top = v]

LEMMA TopCell ==
  ASSUME NEW q, DOMAIN q = Fields, Stored(q), NEW s \in StageIds, NEW v, NEW z, z = WithTop(q, s, v)
  PROVE  /\ DOMAIN z = Fields /\ Stored(z) /\ z.mode = q.mode /\ z.s = q.s /\ z.iter = q.iter /\ z.todo = q.todo
         /\ \A t \in StageIds \ {s} : z.st[t] = q.st[t]
         /\ z.st[s].top = v /\ z.st[s].ops = q.st[s].ops /\ z.st[s].my = q.st[s].my /\ z.st[s].counts = q.st[s].counts
<1>0. DOMAIN q.st = StageIds /\ \A t \in StageIds : DOMAIN q.st[t] = Cells
  BY DEF Stored
<1>1. /\ DOMAIN z = Fields /\ z.mode = q.mode /\ z.s = q.s /\ z.iter = q.iter /\ z.todo = q.todo
      /\ DOMAIN z.st = StageIds /\ (\A t \in StageIds \ {s} : z.st[t] = q.st[t]) /\ z.st[s] = [q.st[s] EXCEPT !.top = v]
  BY <1>0 DEF Fields, WithTop
<1>2. /\ DOMAIN z.st[s] = Cells /\ z.st[s].top = v /\ z.st[s].ops = q.st[s].ops /\ z.st[s].my = q.st[s].my
      /\ z.st[s].counts = q.st[s].counts
  BY <1>0, <1>1 DEF Cells
<1>3. Stored(z)
  BY <1>0, <1>1, <1>2 DEF Stored
<1> QED BY <1>1, <1>2, <1>3

WithTops(q) == [q EXCEPT !.st = [t \in StageIds |-> [Blank EXCEPT !.top = Root.st[t].top]]]

LEMMA TopsIs ==
  ASSUME NEW q, DOMAIN q = Fields, NEW z, z = WithTops(q)
  PROVE  /\ DOMAIN z = Fields /\ z.todo = q.todo /\ z.mode = q.mode /\ z.s = q.s /\ z.iter = q.iter
         /\ Stored(z) /\ \A t \in StageIds : z.st[t].top = Root.st[t].top
<1>1. PICK f : f = [t \in StageIds |-> [Blank EXCEPT !.top = Root.st[t].top]]
  OBVIOUS
<1>2. DOMAIN z = Fields /\ z.todo = q.todo /\ z.mode = q.mode /\ z.s = q.s /\ z.iter = q.iter /\ z.st = f
  BY <1>1 DEF Fields, WithTops
<1>3. \A t \in StageIds : f[t] = [Blank EXCEPT !.top = Root.st[t].top]
  BY <1>1
<1>4. \A v : DOMAIN [Blank EXCEPT !.top = v] = Cells /\ [Blank EXCEPT !.top = v].top = v
  BY DEF Blank, Cells
<1>5. DOMAIN f = StageIds
  BY <1>1
<1>6. \A t \in StageIds : DOMAIN f[t] = Cells /\ f[t].top = Root.st[t].top
  BY <1>3, <1>4
<1> QED BY <1>2, <1>5, <1>6 DEF Stored

LEMMA AnswerIs ==
  ASSUME Shape, Together(proc), Meeting, NEW p \in Talking, NEW q, q = proc[p], NEW z, z = After(p)
  PROVE  Answered(p, q, z)
<1>1. /\ q.todo = Root.todo /\ q.mode = Root.mode
      /\ q.todo # <<>> /\ Head(q.todo) = TheCall /\ ProcOK(p, q) /\ PlanOK
      /\ Item(p) = TheCall
  BY MeetIs DEF Shape, Meeting
<1>2. /\ TheCall[1] \in {"bops", "btop"} =>
           q.mode = "init" /\ TheCall[2] \in StageIds
      /\ TheCall[1] = "stages" => q.mode = "config"
  <2>1. /\ q.mode = "init" => q.s \in StageIds /\ Head(q.todo)[2] = q.s
        /\ Head(q.todo)[1] \in {"bops", "btop"} => q.mode = "init"
        /\ Head(q.todo)[1] = "stages" => q.mode = "config"
    BY <1>1, CallWhere
  <2> QED BY <1>1, <2>1
<1>3. PICK r : r = Rest(q)
  OBVIOUS
<1>4. DOMAIN r = Fields /\ r.todo = Tail(Root.todo) /\ r.st = q.st /\ r.mode = q.mode /\ r.s = q.s /\ r.iter = q.iter
  BY <1>1, <1>3, Memory, RestIs
<1>5. Stored(q) => Stored(r)
  BY <1>4 DEF Stored
<1>6. TheCall[1] \in {"bops", "btop"} => Stored(q)
  <2>1. p \in Kids => q.mode = "config"
    BY <1>1 DEF ProcOK
  <2> QED BY <1>1, <1>2, <2>1 DEF ProcOK
<1> DEFINE s == TheCall[2]
<1>7. CASE TheCall[1] = "bops"
  <2>1. z = WithOps(r, s, Root.st[s].ops)
    BY <1>1, <1>3, <1>7 DEF After, BcastOps, WithOps
  <2>2. /\ DOMAIN z = Fields /\ Stored(z) /\ z.mode = r.mode /\ z.s = r.s /\ z.iter = r.iter /\ z.todo = r.todo
        /\ \A t \in StageIds \ {s} : z.st[t] = r.st[t]
        /\ z.st[s].ops = Root.st[s].ops /\ z.st[s].top = r.st[s].top /\ z.st[s].my = r.st[s].my
        /\ z.st[s].counts = r.st[s].counts
    <3>1. Stored(r) /\ DOMAIN r = Fields /\ s \in StageIds
      BY <1>2, <1>4, <1>5, <1>6, <1>7
    <3> HIDE DEF s
    <3> QED BY <2>1, <3>1, OpsCell
  <2>3. z.todo = NextTodo
    BY <1>4, <1>7, <2>2 DEF NextTodo
  <2> QED BY ZenonT(60), <1>4, <1>7, <2>2, <2>3 DEF Answered
<1>8. CASE TheCall[1] = "btop"
  <2>1. z = WithTop(r, s, Root.st[s].top)
    BY <1>1, <1>3, <1>8 DEF After, BcastTop, WithTop
  <2>2. /\ DOMAIN z = Fields /\ Stored(z) /\ z.mode = r.mode /\ z.s = r.s /\ z.iter = r.iter /\ z.todo = r.todo
        /\ \A t \in StageIds \ {s} : z.st[t] = r.st[t]
        /\ z.st[s].top = Root.st[s].top /\ z.st[s].ops = r.st[s].ops /\ z.st[s].my = r.st[s].my
        /\ z.st[s].counts = r.st[s].counts
    <3>1. Stored(r) /\ DOMAIN r = Fields /\ s \in StageIds
      BY <1>2, <1>4, <1>5, <1>6, <1>8
    <3> HIDE DEF s
    <3> QED BY <2>1, <3>1, TopCell
  <2>3. z.todo = NextTodo
    BY <1>4, <1>8, <2>2 DEF NextTodo
  <2> QED BY ZenonT(60), <1>4, <1>8, <2>2, <2>3 DEF Answered
<1>9. CASE TheCall[1] = "btotal"
  <2>1. z = Do(r, NextTodo) \/ (z = r /\ r.todo = NextTodo)
    <3>1. CASE ~Over(p)
      <4>1. z = Do(r, Lap(s, TheCall[3] + 1) \o r.todo)
        BY <1>1, <1>3, <1>9, <3>1 DEF After
      <4>2. NextTodo = Lap(s, TheCall[3] + 1) \o r.todo
        BY <1>4, <1>9, <3>1 DEF NextTodo, Over
      <4> QED BY <4>1, <4>2
    <3>2. CASE Over(p) /\ plan.stages[s].kind \in {"wait", "ipoint"}
      <4>1. z = Do(r, << <<"cancel", s, TheCall[3]>> >> \o r.todo)
        BY <1>1, <1>3, <1>9, <3>2 DEF After
      <4>2. NextTodo = << <<"cancel", s, TheCall[3]>> >> \o r.todo
        BY <1>4, <1>9, <3>2 DEF NextTodo, Over
      <4> QED BY <4>1, <4>2
    <3>3. CASE Over(p) /\ plan.stages[s].kind \notin {"wait", "ipoint"}
      <4>1. z = r
        BY <1>1, <1>3, <1>9, <3>3 DEF After
      <4>2. NextTodo = r.todo
        BY <1>4, <1>9, <3>3 DEF NextTodo, Over
      <4> QED BY <4>1, <4>2
    <3> QED BY <3>1, <3>2, <3>3
  <2>2. DOMAIN z = Fields /\ z.st = q.st /\ z.mode = q.mode /\ z.s = q.s /\ z.iter = q.iter /\ z.todo = NextTodo
    <3>1. CASE z = Do(r, NextTodo)
      <4>1. DOMAIN Do(r, NextTodo) = Fields /\ Do(r, NextTodo).st = r.st /\ Do(r, NextTodo).todo = NextTodo
            /\ Do(r, NextTodo).mode = r.mode /\ Do(r, NextTodo).s = r.s /\ Do(r, NextTodo).iter = r.iter
        BY <1>4, DoIs
      <4> QED BY <1>4, <3>1, <4>1
    <3>2. CASE z = r /\ r.todo = NextTodo
      BY <1>4, <3>2
    <3> QED BY <2>1, <3>1, <3>2
  <2>3. Stored(q) => Stored(z)
    BY <2>2 DEF Stored
  <2> QED BY <1>9, <2>2, <2>3 DEF Answered
<1>10. CASE TheCall[1] = "stages" /\ p \in Kids
  <2>1. z = WithTops(r)
    BY <1>1, <1>3, <1>10 DEF After, WithTops
  <2>2. /\ DOMAIN z = Fields /\ z.todo = r.todo /\ z.mode = r.mode /\ z.s = r.s /\ z.iter = r.iter
        /\ Stored(z) /\ \A t \in StageIds : z.st[t].top = Root.st[t].top
    BY <1>4, <2>1, TopsIs
  <2>3. z.todo = NextTodo
    BY <1>4, <1>10, <2>2 DEF NextTodo
  <2> QED BY <1>4, <1>10, <2>2, <2>3 DEF Answered
<1>11. CASE TheCall[1] \notin {"bops", "btop", "btotal"} /\ ~(TheCall[1] = "stages" /\ p \in Kids)
  <2>1. z = r
    BY <1>1, <1>3, <1>11 DEF After
  <2>2. z.todo = NextTodo
    BY <1>4, <1>11, <2>1 DEF NextTodo
  <2> QED BY <1>4, <1>5, <1>11, <2>1, <2>2 DEF Answered
<1> QED BY <1>7, <1>8, <1>9, <1>10, <1>11

\* What is left to do is what a rank may have to do.
LEMMA AnswerTodo ==
  ASSUME PlanOK, NEW p, NEW q, ProcOK(p, q), q.todo # <<>>, q.todo = Root.todo, Head(q.todo) = TheCall,
         NEW z, z.todo = NextTodo, z.mode = q.mode, z.s = q.s, z.iter = q.iter
  PROVE  TodoOK(z) /\ z.todo \in Seq(Items)
<1>0. N \in Nat /\ StageIds = 1 .. N
  BY NStages
<1>1. /\ q.mode \in {"init", "run", "ready", "config"}
      /\ TheCall[1] = "btotal" =>
           /\ q.mode = "run" /\ q.s \in StageIds /\ TheCall[2] = q.s /\ TheCall[3] \in Nat
           /\ plan.stages[q.s].kind \in {"point", "collective", "gather", "wait"}
  BY CallWhere
<1>2. q.todo \in Seq(Items) /\ TodoOK(q)
  BY DEF ProcOK, IsProc
<1>3. \A names, s : q.todo \in Seq(Of(names, s)) => Tail(q.todo) \in Seq(Of(names, s))
  BY TailIs
<1>4. Tail(q.todo) \in Seq(Items)
  BY <1>2, TailIs
<1>5. TheCall[1] # "btotal" => z.todo = Tail(q.todo)
  BY DEF NextTodo
<1>6. CASE q.mode = "init"
  <2>1. /\ q.s \in 0 .. N /\ q.iter = 0 /\ q.todo \in Seq(Of(InitNames, q.s)) /\ MeasuresShared(q.todo, q.s)
        /\ q.s # 0 /\ Calibrated(q.s)
    BY <1>2, <1>6 DEF TodoOK
  <2>2. MeasuresShared(Tail(q.todo), q.s)
    BY <1>2, <2>1, SharedTail
  <2>3. z.todo = Tail(q.todo)
    BY <1>1, <1>5, <1>6
  <2> QED BY <1>3, <1>4, <1>6, <2>1, <2>2, <2>3 DEF TodoOK
<1>7. CASE q.mode = "run"
  <2>1. q.s \in 0 .. N /\ q.iter \in 0 .. Iters - 1 /\ q.todo \in Seq(Of(RunNames(q.s), q.s))
    BY <1>2, <1>7 DEF TodoOK
  <2>2. Tail(q.todo) \in Seq(Of(RunNames(q.s), q.s))
    BY <1>3, <2>1
  <2>3. z.todo \in Seq(Of(RunNames(q.s), q.s))
    <3>1. CASE TheCall[1] # "btotal"
      BY <1>5, <2>2, <3>1
    <3>2. CASE TheCall[1] = "btotal"
      <4>1. PICK s \in StageIds : s = q.s
        BY <1>1, <3>2
      <4>2. PICK i \in Nat : i = TheCall[3]
        BY <1>1, <3>2
      <4>3. PICK rest : rest = Tail(q.todo)
        OBVIOUS
      <4>4. TheCall[2] = s /\ plan.stages[s].kind \in {"point", "collective", "gather", "wait"}
        BY <1>1, <3>2, <4>1
      <4>5. rest \in Seq(Of(RunNames(s), s))
        BY <2>2, <4>1, <4>3
      <4>6. \/ z.todo = Lap(s, i + 1) \o rest
            \/ plan.stages[s].kind \in {"wait", "ipoint"} /\ z.todo = << <<"cancel", s, i>> >> \o rest
            \/ z.todo = rest
        BY <3>2, <4>2, <4>3, <4>4 DEF NextTodo
      <4>7. CASE z.todo = Lap(s, i + 1) \o rest
        <5>1. Lap(s, i + 1) \in Seq(Of(RunNames(s), s))
          BY <4>4, LapIs
        <5> QED BY <4>1, <4>5, <4>7, <5>1, Joined
      <4>8. CASE plan.stages[s].kind \in {"wait", "ipoint"} /\ z.todo = << <<"cancel", s, i>> >> \o rest
        <5>1. "cancel" \in RunNames(s)
          <6>1. s # 0 /\ plan.stages[s].kind = "wait"
            BY <1>0, <4>4, <4>8
          <6> QED BY <6>1 DEF RunNames
        <5>2. << <<"cancel", s, i>> >> \in Seq(Of(RunNames(s), s))
          BY <5>1, OneName
        <5> QED BY <4>1, <4>5, <4>8, <5>2, Joined
      <4>9. CASE z.todo = rest
        BY <4>1, <4>5, <4>9
      <4> QED BY <4>6, <4>7, <4>8, <4>9
    <3> QED BY <3>1, <3>2
  <2>4. z.todo \in Seq(Items)
    BY <1>0, <2>1, <2>3, ItemsAre, NamesAre
  <2> QED BY <1>7, <2>1, <2>3, <2>4 DEF TodoOK
<1>8. CASE q.mode = "ready"
  <2>1. q.todo \in Seq(Of({"barrier"}, 0)) /\ z.todo = Tail(q.todo)
    BY <1>1, <1>2, <1>5, <1>8 DEF TodoOK
  <2> QED BY <1>3, <1>4, <1>8, <2>1 DEF TodoOK
<1>9. CASE q.mode = "config"
  <2>1. q.todo \in Seq(Of(SendNames, 0)) /\ z.todo = Tail(q.todo) /\ group = 1
    BY <1>1, <1>2, <1>5, <1>9 DEF TodoOK
  <2> QED BY <1>3, <1>4, <1>9, <2>1 DEF TodoOK
<1> QED BY <1>1, <1>6, <1>7, <1>8, <1>9

\* What is settled with the call, and what was before.
LEMMA AnswerSettled ==
  ASSUME Shape, Together(proc), Meeting, NEW p \in Talking, NEW q, q = proc[p], NEW z, Answered(p, q, z), NEW t \in StageIds
  PROVE  /\ Reached(z, t) <=> Reached(q, t)
         /\ Settled(z, t) /\ (TheCall[1] # "bops" \/ t # TheCall[2]) => Settled(q, t)
         /\ Settled(z, t) /\ ~Calibrated(t) => Settled(q, t) /\ (TheCall[1] \in {"bops", "btop"} => t # TheCall[2])
         /\ TopSettled(p, z, t) /\ (TheCall[1] # "btop" \/ t # TheCall[2]) /\ ~(TheCall[1] = "stages" /\ p \in Kids)
              => TopSettled(p, q, t)
<1>1. /\ q.todo # <<>> /\ q.todo = Root.todo /\ Head(q.todo) = TheCall /\ ProcOK(p, q) /\ PlanOK
  BY MeetIs DEF Shape
<1>2. /\ q.mode \in {"init", "run", "ready", "config"}
      /\ q.mode = "init" => q.s \in StageIds /\ TheCall[2] = q.s /\ Calibrated(q.s)
      /\ TheCall[1] \in {"bops", "btop"} => q.mode = "init"
      /\ TheCall[1] = "btotal" => q.mode = "run"
      /\ TheCall[1] = "stages" => q.mode = "config"
  BY <1>1, CallWhere
<1>3. z.mode = q.mode /\ z.s = q.s /\ z.todo = NextTodo
  BY DEF Answered
<1>4. q.mode # "run" => z.todo = Tail(q.todo)
  BY <1>1, <1>2, <1>3 DEF NextTodo
<1>5. \A name : Has(q.todo, name) => TheCall[1] = name \/ Has(Tail(q.todo), name)
  <2>1. q.todo \in Seq(Items)
    BY <1>1 DEF ProcOK, IsProc
  <2> QED BY <1>1, <2>1, HasTail
<1>6. Reached(z, t) <=> Reached(q, t)
  BY <1>3 DEF Reached
<1>7. CASE q.mode = "init"
  <2>1. t \in Int /\ q.s \in Int
    BY <1>2, <1>7, <1>1, NStages
  <2>2. ASSUME Settled(z, t), TheCall[1] # "bops" \/ t # TheCall[2] PROVE Settled(q, t)
    BY <1>2, <1>3, <1>4, <1>5, <1>7, <2>2 DEF Settled
  <2>3. ASSUME Settled(z, t), ~Calibrated(t) PROVE Settled(q, t) /\ t # TheCall[2]
    BY <1>2, <1>3, <1>7, <2>3 DEF Settled
  <2>4. ASSUME TopSettled(p, z, t), TheCall[1] # "btop" \/ t # TheCall[2] PROVE TopSettled(p, q, t)
    BY <1>2, <1>3, <1>4, <1>5, <1>7, <2>4 DEF TopSettled
  <2> QED BY <1>6, <2>2, <2>3, <2>4
<1>8. CASE q.mode \in {"run", "ready"}
  BY <1>2, <1>3, <1>6, <1>8 DEF Settled, TopSettled
<1>9. CASE q.mode = "config"
  <2>1. ~Settled(z, t)
    BY <1>3, <1>9 DEF Settled
  <2>2. ASSUME TopSettled(p, z, t), ~(TheCall[1] = "stages" /\ p \in Kids) PROVE TopSettled(p, q, t)
    BY <1>3, <1>4, <1>5, <1>9, <2>2 DEF TopSettled
  <2> QED BY <1>6, <2>1, <2>2
<1> QED BY <1>2, <1>7, <1>8, <1>9

LEMMA AnswerOK ==
  ASSUME Shape, Together(proc), Meeting, NEW p \in Talking, NEW q, q = proc[p], NEW z, Answered(p, q, z)
  PROVE  ProcOK(p, z)
<1>1. /\ q.todo # <<>> /\ q.todo = Root.todo /\ Head(q.todo) = TheCall /\ ProcOK(p, q) /\ PlanOK
      /\ q.mode = Root.mode /\ (Root.mode \in {"init", "run"} => q.s = Root.s) /\ ProcOK(comm[1], Root)
  BY MeetIs DEF Shape
<1>2. /\ DOMAIN z = Fields /\ z.mode = q.mode /\ z.s = q.s /\ z.iter = q.iter /\ z.todo = NextTodo
      /\ Stored(q) => Stored(z)
      /\ TheCall[1] = "stages" /\ p \in Kids => Stored(z)
  BY DEF Answered
<1>3. TodoOK(z) /\ z.todo \in Seq(Items)
  BY <1>1, <1>2, AnswerTodo
<1>4. /\ q.mode \in {"init", "run", "ready", "config"}
      /\ q.mode = "init" => q.s \in StageIds /\ TheCall[2] = q.s
      /\ TheCall[1] \in {"bops", "btop"} => q.mode = "init"
      /\ TheCall[1] = "btotal" => q.mode = "run"
      /\ TheCall[1] = "stages" => q.mode = "config"
  BY <1>1, CallWhere
<1>5. DataOK(p, z)
  <2>1. ASSUME NEW t \in StageIds
        PROVE  /\ Reached(z, t) /\ Messages(t) => z.st[t].ops \in Nat \ {0}
               /\ Settled(z, t) /\ ~Calibrated(t) => z.st[t].ops = LocalOps(t, z.st[t].top)
               /\ Reached(z, t) /\ plan.stages[t].kind = "gather" => GatherOK(z.st[t], t, Rank(p))
    <3>1. CASE q.mode = "config"
      BY <1>2, <3>1 DEF Reached, Settled
    <3>2. CASE q.mode # "config"
      <4>1. /\ z.st[t].my = q.st[t].my /\ z.st[t].counts = q.st[t].counts
            /\ TheCall[1] # "bops" \/ t # TheCall[2] => z.st[t].ops = q.st[t].ops
            /\ TheCall[1] # "btop" \/ t # TheCall[2] => z.st[t].top = q.st[t].top
            /\ TheCall[1] = "bops" => z.st[TheCall[2]].ops = Root.st[TheCall[2]].ops
        BY <1>4, <3>2 DEF Answered
      <4>2. /\ Reached(z, t) <=> Reached(q, t)
            /\ Settled(z, t) /\ ~Calibrated(t) => Settled(q, t) /\ (TheCall[1] \in {"bops", "btop"} => t # TheCall[2])
        BY AnswerSettled
      <4>3. /\ Reached(q, t) /\ Messages(t) => q.st[t].ops \in Nat \ {0}
            /\ Settled(q, t) /\ ~Calibrated(t) => q.st[t].ops = LocalOps(t, q.st[t].top)
            /\ Reached(q, t) /\ plan.stages[t].kind = "gather" => GatherOK(q.st[t], t, Rank(p))
        BY <1>1 DEF ProcOK, DataOK
      <4>4. ASSUME TheCall[1] = "bops", t = TheCall[2], Messages(t) PROVE Root.st[t].ops \in Nat \ {0}
        <5>1. Reached(Root, t)
          <6>1. t <= q.s
            BY <1>1, <1>4, <4>4, NStages
          <6> QED BY <1>1, <1>4, <4>4, <6>1 DEF Reached
        <5> QED BY <1>1, <4>4, <5>1 DEF ProcOK, DataOK
      <4>5. Reached(z, t) /\ Messages(t) => z.st[t].ops \in Nat \ {0}
        BY <4>1, <4>2, <4>3, <4>4
      <4>6. Settled(z, t) /\ ~Calibrated(t) => z.st[t].ops = LocalOps(t, z.st[t].top)
        BY <4>1, <4>2, <4>3
      <4>7. Reached(z, t) /\ plan.stages[t].kind = "gather" => GatherOK(z.st[t], t, Rank(p))
        BY <4>1, <4>2, <4>3 DEF GatherOK
      <4> QED BY <4>5, <4>6, <4>7
    <3> QED BY <3>1, <3>2
  <2> QED BY <2>1 DEF DataOK
<1>6. (p \in Kids /\ Has(z.todo, "stages")) \/ Stored(z)
  <2>1. CASE Stored(q)
    BY <1>2, <2>1
  <2>2. CASE p \in Kids /\ Has(q.todo, "stages")
    <3>1. q.todo \in Seq(Items) /\ q.mode = "config"
      BY <1>1, <2>2 DEF ProcOK, IsProc
    <3>2. z.todo = Tail(q.todo)
      BY <1>1, <1>2, <1>4, <3>1 DEF NextTodo
    <3>3. TheCall[1] = "stages" \/ Has(z.todo, "stages")
      BY <1>1, <2>2, <3>1, <3>2, HasTail
    <3> QED BY <1>2, <2>2, <3>3
  <2> QED BY <1>1, <2>1, <2>2 DEF ProcOK
<1>7. p \in Kids => z.mode = "config"
  BY <1>1, <1>2 DEF ProcOK
<1> QED BY <1>2, <1>3, <1>5, <1>6, <1>7 DEF ProcOK, IsProc

LEMMA AnswerPair ==
  ASSUME Shape, Together(proc), Meeting, NEW p \in Talking, NEW r \in Talking,
         NEW x, x = proc[p], NEW y, y = proc[r], NEW u, Answered(p, x, u), NEW v, Answered(r, y, v)
  PROVE  Pair(p, r, u, v)
<1>1. /\ x.todo # <<>> /\ x.todo = Root.todo /\ Head(x.todo) = TheCall /\ ProcOK(p, x) /\ PlanOK
      /\ Place(x) = Place(Root) /\ x.mode = Root.mode
      /\ Place(y) = Place(Root) /\ y.mode = Root.mode /\ comm[1] \in Talking /\ comm[1] \notin Kids
  BY MeetIs DEF Shape
<1>2. Pair(p, r, x, y) /\ Pair(comm[1], r, Root, y) /\ Pair(p, comm[1], x, Root)
  BY <1>1 DEF Together, Root
<1>3. /\ u.mode = x.mode /\ u.s = x.s /\ u.iter = x.iter /\ u.todo = NextTodo
      /\ v.mode = y.mode /\ v.s = y.s /\ v.iter = y.iter /\ v.todo = NextTodo
  BY DEF Answered
<1>4. Behind(u, v)
  <2>1. Place(u) = Place(v)
    BY <1>1, <1>3 DEF Place
  <2>2. u.todo \in Seq(Items)
    BY <1>1, <1>3, AnswerTodo
  <2>3. Ahead(v.todo, u.todo)
    BY <1>3, <2>2, AheadSame
  <2> QED BY <2>1, <2>3 DEF Behind
<1>5. /\ TheCall[1] \in {"bops", "btop"} => x.mode = "init"
      /\ TheCall[1] = "stages" => x.mode = "config"
  BY <1>1, CallWhere
<1>6. ASSUME NEW t \in StageIds, Settled(u, t), Settled(v, t) PROVE u.st[t].ops = v.st[t].ops
  <2>1. u.mode # "config"
    BY <1>6 DEF Settled
  <2>2. TheCall[1] # "stages"
    BY <1>3, <1>5, <2>1
  <2>3. CASE TheCall[1] = "bops" /\ t = TheCall[2]
    BY <2>3 DEF Answered
  <2>4. CASE TheCall[1] # "bops" \/ t # TheCall[2]
    <3>1. u.st[t].ops = x.st[t].ops /\ v.st[t].ops = y.st[t].ops
      BY <2>2, <2>4 DEF Answered
    <3>2. Settled(x, t) /\ Settled(y, t)
      BY <1>6, <2>4, AnswerSettled
    <3> QED BY <1>2, <3>1, <3>2 DEF Pair, AgreeOps
  <2> QED BY <2>3, <2>4
<1>7. ASSUME NEW t \in StageIds, UsesTop(t), TopSettled(p, u, t), TopSettled(r, v, t) PROVE u.st[t].top = v.st[t].top
  <2>1. CASE TheCall[1] = "btop" /\ t = TheCall[2]
    BY <2>1 DEF Answered
  <2>2. CASE TheCall[1] = "stages"
    <3>1. x.mode = "config" /\ Root.mode = "config" /\ y.mode = "config"
      BY <1>1, <1>5, <2>2
    <3>2. TopSettled(comm[1], Root, t)
      BY <1>1, <3>1 DEF TopSettled
    <3>3. u.st[t].top = Root.st[t].top
      <4>1. CASE p \in Kids
        BY <2>2, <4>1 DEF Answered
      <4>2. CASE p \notin Kids
        <5>1. TopSettled(p, x, t)
          BY <3>1, <4>2 DEF TopSettled
        <5>2. u.st[t].top = x.st[t].top
          BY <2>2, <4>2 DEF Answered
        <5> QED BY <1>2, <1>7, <3>2, <5>1, <5>2 DEF Pair, AgreeTop
      <4> QED BY <4>1, <4>2
    <3>4. v.st[t].top = Root.st[t].top
      <4>1. CASE r \in Kids
        BY <2>2, <4>1 DEF Answered
      <4>2. CASE r \notin Kids
        <5>1. TopSettled(r, y, t)
          BY <3>1, <4>2 DEF TopSettled
        <5>2. v.st[t].top = y.st[t].top
          BY <2>2, <4>2 DEF Answered
        <5> QED BY <1>2, <1>7, <3>2, <5>1, <5>2 DEF Pair, AgreeTop
      <4> QED BY <4>1, <4>2
    <3> QED BY <3>3, <3>4
  <2>3. CASE TheCall[1] # "stages" /\ (TheCall[1] # "btop" \/ t # TheCall[2])
    <3>1. u.st[t].top = x.st[t].top /\ v.st[t].top = y.st[t].top
      BY <2>3 DEF Answered
    <3>2. TopSettled(p, x, t) /\ TopSettled(r, y, t)
      BY <1>7, <2>3, AnswerSettled
    <3> QED BY <1>2, <1>7, <3>1, <3>2 DEF Pair, AgreeTop
  <2> QED BY <2>1, <2>2, <2>3
<1>8. AgreeOps(u, v) /\ AgreeTop(p, r, u, v)
  BY <1>6, <1>7 DEF AgreeOps, AgreeTop
<1> QED BY <1>4, <1>8 DEF Pair

LEMMA CollectiveSteps ==
  ASSUME Shape, Together(proc), Collective
  PROVE  Stepped
<1>1. Meeting /\ Frame /\ Talking \subseteq DOMAIN proc
  BY DEF Collective, Meeting, TheCall, Frame, Shape
<1>2. PICK n : n = [p \in DOMAIN proc |-> IF p \in Talking THEN After(p) ELSE proc[p]]
  OBVIOUS
<1>3. proc' = n
  BY <1>2 DEF Collective
<1>4. DOMAIN n = DOMAIN proc /\ (\A p \in Talking : n[p] = After(p)) /\ \A p \in DOMAIN proc \ Talking : n[p] = proc[p]
  BY <1>1, <1>2
<1>5. \A p \in Talking : Answered(p, proc[p], n[p])
  BY <1>1, <1>4, AnswerIs
<1>6. \A p \in Talking : ProcOK(p, n[p])
  BY <1>1, <1>5, AnswerOK
<1>7. \A p, r \in Talking : Pair(p, r, n[p], n[r])
  <2>1. ASSUME NEW p \in Talking, NEW r \in Talking PROVE Pair(p, r, n[p], n[r])
    <3>1. PICK x : x = proc[p]
      OBVIOUS
    <3>2. PICK y : y = proc[r]
      OBVIOUS
    <3>3. Answered(p, x, n[p]) /\ Answered(r, y, n[r])
      BY <1>5, <3>1, <3>2
    <3> QED BY <1>1, <3>1, <3>2, <3>3, AnswerPair
  <2> QED BY <2>1
<1>8. Together(n)
  BY <1>6, <1>7 DEF Together
<1>9. \A p \in Talking : n[p].mode = "config" => proc[p].mode = "config"
  BY <1>5 DEF Answered
<1> QED BY <1>1, <1>3, <1>4, <1>8, <1>9 DEF Stepped
-----------------------------------------------------------------------------
(* The inductive invariant. *)

\* The processes for the next group are known while the configuration is sent.
Handed == \A p \in Talking : proc[p].mode = "config" => kids = KidsOf

Inv == Shape /\ Handed /\ Together(proc)

LEMMA SteppedKeeps ==
  ASSUME Inv, Stepped
  PROVE  Inv'
<1>1. Frame /\ Together(proc') /\ DOMAIN proc' = DOMAIN proc
      /\ (\A r \in DOMAIN proc \ Talking : proc'[r] = proc[r])
      /\ (\A r \in Talking : proc'[r].mode = "config" => proc[r].mode = "config")
  BY DEF Stepped
<1>2. plan' = plan /\ group' = group /\ comm' = comm /\ kids' = kids
  BY <1>1 DEF Frame
<1>3. Shape /\ Handed
  BY DEF Inv
<1>4. (PlanOK' <=> PlanOK) /\ Ranks' = Ranks /\ Kids' = Kids /\ Talking' = Talking
      /\ \A m : Together(m)' <=> Together(m)
  BY <1>1, FrameTogether
<1>5. Merge' <=> Merge
  BY <1>2 DEF Merge
<1>6. KidsOf' = KidsOf /\ \A g : CommOf(g)' = CommOf(g)
  BY <1>2, <1>5 DEF KidsOf, CommOf
<1>7. Shape'
  BY <1>1, <1>2, <1>3, <1>4, <1>6 DEF Shape
<1>8. Handed'
  BY <1>1, <1>2, <1>3, <1>4, <1>6 DEF Handed
<1>9. Together(proc)'
  BY <1>1, <1>4
<1> QED BY <1>7, <1>8, <1>9 DEF Inv

-----------------------------------------------------------------------------
(* The first group. *)

StageRecords == [kind : Kinds, id : Nat, bytes : Nat, capped : BOOLEAN, involved : Nat]

LEMMA StageRecord ==
  ASSUME NEW k \in Kinds, NEW id \in Nat, NEW b \in Nat, NEW c \in BOOLEAN, NEW n \in Nat
  PROVE  Stage(k, id, b, c, n) \in StageRecords
BY DEF Stage, StageRecords

LEMMA ListsAre == StageLists \subseteq Seq(StageRecords)
<1>0. Bytes \in Nat /\ CappedWaits \subseteq BOOLEAN
  BY StagesAssumption
<1>1. Single \subseteq StageRecords
  <2>1. Stage("compute", 0, 0, FALSE, 0) \in StageRecords
    BY StageRecord DEF Kinds
  <2>2. \A k \in {"point", "collective", "gather"}, b \in {0, Bytes}, c \in BOOLEAN :
          Stage(k, 0, b, c, 0) \in StageRecords
    <3>1. ASSUME NEW k \in {"point", "collective", "gather"}, NEW b \in {0, Bytes}, NEW c \in BOOLEAN
          PROVE  Stage(k, 0, b, c, 0) \in StageRecords
      <4>1. k \in Kinds /\ b \in Nat
        BY <1>0 DEF Kinds
      <4> QED BY <4>1, StageRecord
    <3> QED BY <3>1
  <2>3. \A k \in {"write", "read"}, b \in {0, Bytes}, c \in BOOLEAN, n \in {0, 1} :
          Stage(k, 0, b, c, n) \in StageRecords
    <3>1. ASSUME NEW k \in {"write", "read"}, NEW b \in {0, Bytes}, NEW c \in BOOLEAN, NEW n \in {0, 1}
          PROVE  Stage(k, 0, b, c, n) \in StageRecords
      <4>1. k \in Kinds /\ b \in Nat /\ n \in Nat
        BY <1>0 DEF Kinds
      <4> QED BY <4>1, StageRecord
    <3> QED BY <3>1
  <2> DEFINE A == {Stage(k, 0, b, c, 0) : k \in {"point", "collective", "gather"}, b \in {0, Bytes}, c \in BOOLEAN}
             B == {Stage(k, 0, b, c, n) : k \in {"write", "read"}, b \in {0, Bytes}, c \in BOOLEAN, n \in {0, 1}}
  <2>4. A \subseteq StageRecords
    BY <2>2
  <2>5. B \subseteq StageRecords
    BY <2>3
  <2>6. Single = {Stage("compute", 0, 0, FALSE, 0)} \cup A \cup B
    BY DEF Single
  <2> HIDE DEF A, B
  <2> QED BY <2>1, <2>4, <2>5, <2>6
<1>2. ASSUME NEW id \in Nat PROVE IPoints(id) \subseteq StageRecords /\ Waits(id) \subseteq StageRecords
  <2>1. \A b \in {0, Bytes}, c \in BOOLEAN : Stage("ipoint", id, b, c, 0) \in StageRecords
    <3>1. ASSUME NEW b \in {0, Bytes}, NEW c \in BOOLEAN PROVE Stage("ipoint", id, b, c, 0) \in StageRecords
      <4>1. "ipoint" \in Kinds /\ b \in Nat
        BY <1>0 DEF Kinds
      <4> QED BY <4>1, StageRecord
    <3> QED BY <3>1
  <2>2. \A c \in CappedWaits : Stage("wait", id, 0, c, 0) \in StageRecords
    <3>1. ASSUME NEW c \in CappedWaits PROVE Stage("wait", id, 0, c, 0) \in StageRecords
      <4>1. "wait" \in Kinds /\ c \in BOOLEAN
        BY <1>0 DEF Kinds
      <4> QED BY <4>1, StageRecord
    <3> QED BY <3>1
  <2> QED BY <2>1, <2>2 DEF IPoints, Waits
<1>3. \A a, b, c, d \in StageRecords : <<a>> \in Seq(StageRecords) /\ <<a, b, c>> \in Seq(StageRecords)
                                       /\ <<a, b, c, d>> \in Seq(StageRecords)
  OBVIOUS
<1>4. /\ IPoints(1) \subseteq StageRecords /\ IPoints(2) \subseteq StageRecords
      /\ Waits(1) \subseteq StageRecords /\ Waits(2) \subseteq StageRecords
  BY <1>2
<1>5. ASSUME NEW l \in StageLists PROVE l \in Seq(StageRecords)
  <2>1. CASE \E x \in Single : l = <<x>>
    BY <1>1, <1>3, <2>1
  <2>2. CASE \E a \in IPoints(1), x \in Single, w \in Waits(1) : l = <<a, x, w>>
    BY <1>1, <1>3, <1>4, <2>2
  <2>3. CASE \E a \in IPoints(1), b \in IPoints(2), v \in Waits(2), w \in Waits(1) : l = <<a, b, v, w>>
    BY <1>3, <1>4, <2>3
  <2> QED BY <2>1, <2>2, <2>3 DEF StageLists
<1> QED BY <1>5

LEMMA FreshIs ==
  ASSUME NEW n
  PROVE  LET q == Fresh(n)
         IN  /\ DOMAIN q = Fields /\ q.mode = "init" /\ q.s = 0 /\ q.todo = <<>> /\ q.iter = 0
             /\ DOMAIN q.st = 1 .. n /\ \A s \in 1 .. n : DOMAIN q.st[s] = Cells
BY DEF Fresh, Fields, Blank, Cells

\* A process at the beginning.
LEMMA StartOK ==
  ASSUME PlanOK, NEW p, p \notin Kids, NEW q, DOMAIN q = Fields, Stored(q),
         q.mode = "init", q.s = 0, q.iter = 0, q.todo = <<>>
  PROVE  ProcOK(p, q)
<1>0. N \in Nat /\ StageIds = 1 .. N
  BY NStages
<1>1. q.todo \in Seq(Items) /\ q.todo \in Seq(Of(InitNames, q.s)) /\ MeasuresShared(q.todo, q.s)
  BY DEF MeasuresShared
<1>2. TodoOK(q)
  BY <1>0, <1>1 DEF TodoOK
<1>3. \A s \in StageIds : ~Reached(q, s) /\ ~Settled(q, s)
  BY <1>0 DEF Reached, Settled
<1>4. DataOK(p, q)
  BY <1>3 DEF DataOK
<1> QED BY <1>1, <1>2, <1>4 DEF ProcOK, IsProc

LEMMA StartPair ==
  ASSUME PlanOK, NEW p, NEW r, NEW x, x.mode = "init", x.s = 0, x.todo = <<>>, NEW y, y.mode = "init", y.s = 0, y.todo = <<>>,
         \A s \in StageIds : UsesTop(s) /\ TopSettled(p, x, s) /\ TopSettled(r, y, s) => x.st[s].top = y.st[s].top
  PROVE  Pair(p, r, x, y)
<1>0. N \in Nat /\ StageIds = 1 .. N
  BY NStages
<1>1. Place(x) = Place(y)
  BY PlaceOf
<1>2. <<>> \in Seq(Items)
  OBVIOUS
<1>3. Ahead(y.todo, x.todo)
  BY <1>2, AheadSame
<1>4. \A s \in StageIds : ~Settled(x, s)
  BY <1>0 DEF Settled
<1> QED BY <1>1, <1>3, <1>4 DEF Pair, Behind, AgreeOps, AgreeTop

LEMMA InitInv == ASSUME Init PROVE Inv
<1>1. PICK l \in StageLists, n \in Procs, m \in Procs, b \in BOOLEAN, r \in BOOLEAN, f \in Factors, g \in Factors :
        plan = [stages |-> l, procs |-> <<n, m>>, merge |-> b, rigid |-> r, factors |-> <<f, g>>]
  BY DEF Init
<1>2. n \in Nat \ {0} /\ m \in Nat \ {0} /\ f \in Nat \ {0} /\ g \in Nat \ {0} /\ l \in Seq(StageRecords)
  BY CalibrationIs, ListsAre
<1>3. PlanOK
  BY <1>1, <1>2 DEF PlanOK, StageRecords
<1>4. /\ group = 1 /\ kids = <<>> /\ comm = [i \in 1 .. plan.procs[1] |-> i]
      /\ proc = [p \in 1 .. plan.procs[1] |-> Fresh(Len(plan.stages))]
  BY DEF Init
<1>5. comm = CommOf(1)
  BY <1>4 DEF CommOf
<1>6. Kids = {} /\ Ranks = 1 .. plan.procs[1]
  <2>1. DOMAIN kids = {}
    BY <1>4
  <2>2. DOMAIN comm = 1 .. plan.procs[1] /\ \A i \in 1 .. plan.procs[1] : comm[i] = i
    BY <1>4
  <2> QED BY <2>1, <2>2 DEF Kids, Ranks
<1>7. Talking = 1 .. plan.procs[1] /\ DOMAIN proc = Talking
  BY <1>4, <1>6 DEF Talking
<1>8. Shape
  BY <1>3, <1>4, <1>5, <1>7 DEF Shape
<1>9. \A p \in Talking : proc[p] = Fresh(N)
  BY <1>4, <1>7 DEF N
<1>10. N \in Nat /\ StageIds = 1 .. N
  BY <1>3, NStages
<1>11. \A p \in Talking : /\ DOMAIN proc[p] = Fields /\ proc[p].mode = "init" /\ proc[p].s = 0
                          /\ proc[p].iter = 0 /\ proc[p].todo = <<>> /\ Stored(proc[p])
  <2>1. PICK q : q = Fresh(N)
    OBVIOUS
  <2>2. /\ DOMAIN q = Fields /\ q.mode = "init" /\ q.s = 0 /\ q.todo = <<>> /\ q.iter = 0
        /\ DOMAIN q.st = 1 .. N /\ \A s \in 1 .. N : DOMAIN q.st[s] = Cells
    BY <2>1, FreshIs
  <2>3. Stored(q)
    BY <1>10, <2>2 DEF Stored
  <2> QED BY <1>9, <2>1, <2>2, <2>3
<1>12. \A p \in Talking : ProcOK(p, proc[p])
  BY <1>3, <1>6, <1>11, StartOK
<1>13. \A p, q \in Talking : Pair(p, q, proc[p], proc[q])
  <2>1. ASSUME NEW p \in Talking, NEW q \in Talking PROVE Pair(p, q, proc[p], proc[q])
    <3>1. proc[p] = proc[q]
      BY <1>9
    <3> QED BY <1>3, <1>11, <3>1, StartPair
  <2> QED BY <2>1
<1>14. Handed
  BY <1>11 DEF Handed
<1> QED BY <1>8, <1>12, <1>13, <1>14 DEF Inv, Together
-----------------------------------------------------------------------------
(* From one group to the next. *)

\* What is sent to the next group, and received by it.
Sends == [i \in DOMAIN UserSends |-> <<UserSends[i], 0, 0>>]
Receives == [i \in DOMAIN InitTargets |-> <<InitTargets[i], 0, 0>>]

LEMMA SendsIs ==
  /\ Receives = Sends /\ Sends \in Seq(Of(SendNames, 0)) /\ Sends \in Seq(Items) /\ Has(Sends, "stages")
<1>1. UserSends = << "grp", "iter", "phase", "run_id", "config", "phases", "stages", "groups", "strategies", "results" >>
  BY DEF UserSends
<1>2. InitTargets = UserSends
  <2> DEFINE a == << "grp", "iter", "phase", "run_id" >>
             b == << "config", "phases", "stages", "groups", "strategies" >>
             c == << "results" >>
  <2>1. /\ a \in Seq(SendNames) /\ Len(a) = 4 /\ a[1] = "grp" /\ a[2] = "iter" /\ a[3] = "phase" /\ a[4] = "run_id"
        /\ b \in Seq(SendNames) /\ Len(b) = 5 /\ b[1] = "config" /\ b[2] = "phases" /\ b[3] = "stages"
        /\ b[4] = "groups" /\ b[5] = "strategies"
        /\ c \in Seq(SendNames) /\ Len(c) = 1 /\ c[1] = "results"
    BY Lists DEF SendNames
  <2>2. InitTargets = (a \o b) \o c
    BY DEF InitTargets
  <2> HIDE DEF a, b, c
  <2>3. PICK d : d = a \o b
    OBVIOUS
  <2>4. /\ d \in Seq(SendNames) /\ Len(d) = 9
        /\ (\A i \in 1 .. 4 : d[i] = a[i]) /\ (\A i \in 1 .. 5 : d[4 + i] = b[i])
    <3>1. (a \o b) \in Seq(SendNames) /\ Len((a \o b)) = Len(a) + Len(b)
         /\ (\A i \in 1 .. Len(a) : (a \o b)[i] = a[i]) /\ (\A i \in 1 .. Len(b) : (a \o b)[Len(a) + i] = b[i])
      <4>1. PICK u : u = a
        OBVIOUS
      <4>2. PICK v : v = b
        OBVIOUS
      <4>3. u \in Seq(SendNames) /\ v \in Seq(SendNames)
        BY <2>1, <4>1, <4>2
      <4>4. Len(u \o v) = Len(u) + Len(v) /\ u \o v \in Seq(SendNames)
            /\ (\A i \in 1 .. Len(u) : (u \o v)[i] = u[i]) /\ (\A i \in 1 .. Len(v) : (u \o v)[Len(u) + i] = v[i])
        BY <4>3, Joined
      <4> QED BY <4>1, <4>2, <4>4
    <3>2. PICK n : n = Len(a) /\ n = 4
      BY <2>1
    <3>3. PICK m : m = Len(b) /\ m = 5
      BY <2>1
    <3>4. d \in Seq(SendNames) /\ Len(d) = n + m /\ (\A i \in 1 .. n : d[i] = a[i]) /\ (\A i \in 1 .. m : d[n + i] = b[i])
      BY <2>3, <3>1, <3>2, <3>3
    <3> QED BY <3>2, <3>3, <3>4
  <2>5. PICK e : e = d \o c
    OBVIOUS
  <2>6. /\ e \in Seq(SendNames) /\ Len(e) = 10
        /\ (\A i \in 1 .. 9 : e[i] = d[i]) /\ (\A i \in 1 .. 1 : e[9 + i] = c[i])
    <3>1. (d \o c) \in Seq(SendNames) /\ Len((d \o c)) = Len(d) + Len(c)
         /\ (\A i \in 1 .. Len(d) : (d \o c)[i] = d[i]) /\ (\A i \in 1 .. Len(c) : (d \o c)[Len(d) + i] = c[i])
      <4>1. PICK u : u = d
        OBVIOUS
      <4>2. PICK v : v = c
        OBVIOUS
      <4>3. u \in Seq(SendNames) /\ v \in Seq(SendNames)
        BY <2>1, <2>4, <4>1, <4>2
      <4>4. Len(u \o v) = Len(u) + Len(v) /\ u \o v \in Seq(SendNames)
            /\ (\A i \in 1 .. Len(u) : (u \o v)[i] = u[i]) /\ (\A i \in 1 .. Len(v) : (u \o v)[Len(u) + i] = v[i])
        BY <4>3, Joined
      <4> QED BY <4>1, <4>2, <4>4
    <3>2. PICK n : n = Len(d) /\ n = 9
      BY <2>4
    <3>3. PICK m : m = Len(c) /\ m = 1
      BY <2>1
    <3>4. e \in Seq(SendNames) /\ Len(e) = n + m /\ (\A i \in 1 .. n : e[i] = d[i]) /\ (\A i \in 1 .. m : e[n + i] = c[i])
      BY <2>5, <3>1, <3>2, <3>3
    <3> QED BY <3>2, <3>3, <3>4
  <2>7. /\ d[1] = "grp" /\ d[2] = "iter" /\ d[3] = "phase" /\ d[4] = "run_id" /\ d[5] = "config" /\ d[6] = "phases"
        /\ d[7] = "stages" /\ d[8] = "groups" /\ d[9] = "strategies"
    <3>1. \A i \in 1 .. 5 : d[4 + i] = b[i]
      BY <2>4
    <3>2. d[5] = b[1] /\ d[6] = b[2] /\ d[7] = b[3] /\ d[8] = b[4] /\ d[9] = b[5]
      BY <3>1
    <3>3. d[1] = a[1] /\ d[2] = a[2] /\ d[3] = a[3] /\ d[4] = a[4]
      BY <2>4
    <3> QED BY <2>1, <3>2, <3>3
  <2>8. e[10] = "results"
    <3>1. e[9 + 1] = c[1]
      BY <2>6
    <3> QED BY <2>1, <3>1
  <2>9. UserSends \in Seq(SendNames) /\ Len(UserSends) = 10
    BY <1>1 DEF SendNames
  <2>10. \A i \in 1 .. 10 : e[i] = UserSends[i]
    <3>1. \A i \in 1 .. 9 : e[i] = UserSends[i]
      BY <1>1, <2>6, <2>7
    <3>2. e[10] = UserSends[10]
      BY <1>1, <2>8
    <3> QED BY <3>1, <3>2
  <2>11. e = UserSends
    BY <2>6, <2>9, <2>10, SeqEqual
  <2> QED BY <2>2, <2>3, <2>5, <2>11
<1>3. Receives = Sends
  BY <1>2 DEF Receives, Sends
<1>4. DOMAIN UserSends = 1 .. 10 /\ \A i \in 1 .. 10 : UserSends[i] \in SendNames
  BY <1>1 DEF SendNames
<1>5. UserSends[7] = "stages"
  BY <1>1
<1>6. \A i \in 1 .. 10 : <<UserSends[i], 0, 0>> \in Of(SendNames, 0)
  BY <1>4 DEF Of
<1> DEFINE f == [i \in 1 .. 10 |-> <<UserSends[i], 0, 0>>]
<1>7. Sends = f
  BY <1>4 DEF Sends
<1>8. f \in [1 .. 10 -> Of(SendNames, 0)] /\ f[7][1] = "stages"
  BY <1>5, <1>6
<1> HIDE DEF f
<1>9. f \in Seq(Of(SendNames, 0)) /\ Len(f) = 10
  <2>1. \A g \in [1 .. 10 -> Of(SendNames, 0)] : g \in Seq(Of(SendNames, 0)) /\ Len(g) = 10
    <3>1. ASSUME NEW S, NEW k \in Nat, NEW g \in [1 .. k -> S] PROVE g \in Seq(S) /\ Len(g) = k
      OBVIOUS
    <3> QED BY <3>1
  <2> QED BY <1>8, <2>1
<1>10. Has(f, "stages")
  BY <1>8, <1>9 DEF Has
<1>11. f \in Seq(Items)
  BY <1>9, ItemsAre, NamesAre
<1> QED BY <1>3, <1>7, <1>9, <1>10, <1>11

\* What the configuration alone decides.
LEMMA SamePlan ==
  ASSUME plan' = plan
  PROVE  /\ N' = N /\ StageIds' = StageIds /\ (PlanOK' <=> PlanOK) /\ KidsOf' = KidsOf
         /\ \A g : CommOf(g)' = CommOf(g)
         /\ \A s : UsesTop(s)' <=> UsesTop(s)
         /\ \A q : Stored(q)' <=> Stored(q)
         /\ \A l, s : MeasuresShared(l, s)' <=> MeasuresShared(l, s)
<1>1. N' = N /\ StageIds' = StageIds /\ (PlanOK' <=> PlanOK) /\ (Merge' <=> Merge)
  BY DEF N, StageIds, PlanOK, Merge
<1>2. KidsOf' = KidsOf /\ \A g : CommOf(g)' = CommOf(g)
  BY <1>1 DEF KidsOf, CommOf
<1>3. \A s : UsesTop(s)' <=> UsesTop(s)
  BY DEF UsesTop
<1>4. \A q : Stored(q)' <=> Stored(q)
  BY <1>1 DEF Stored
<1>5. \A l, s : MeasuresShared(l, s)' <=> MeasuresShared(l, s)
  BY <1>3 DEF MeasuresShared
<1> QED BY <1>1, <1>2, <1>3, <1>4, <1>5

\* A process that is to send or receive the configuration.
LEMMA SendOK ==
  ASSUME plan' = plan, group' = 1, NEW p, NEW q, DOMAIN q = Fields, q.mode = "config", q.todo = Sends,
         p \in Kids' \/ Stored(q)
  PROVE  ProcOK(p, q)'
<1>1. q.todo \in Seq(Items) /\ q.todo \in Seq(Of(SendNames, 0)) /\ Has(q.todo, "stages")
  BY SendsIs
<1>2. TodoOK(q)'
  BY <1>1 DEF TodoOK
<1>3. \A s : ~Reached(q, s) /\ ~Settled(q, s)
  BY DEF Reached, Settled
<1>4. DataOK(p, q)'
  BY <1>3 DEF DataOK
<1>5. IsProc(q)
  BY <1>1 DEF IsProc
<1>6. p \in Kids' \/ Stored(q)'
  BY SamePlan
<1> QED BY <1>1, <1>2, <1>4, <1>5, <1>6 DEF ProcOK

LEMMA SendPair ==
  ASSUME plan' = plan, group' = 1, NEW p, NEW r,
         NEW x, x.mode = "config", x.todo = Sends, NEW y, y.mode = "config", y.todo = Sends,
         p \notin Kids' /\ r \notin Kids' => \A s \in StageIds : UsesTop(s) => x.st[s].top = y.st[s].top
  PROVE  Pair(p, r, x, y)'
<1>1. Place(x) = Place(y)
  BY PlaceOf
<1>2. Ahead(y.todo, x.todo)
  BY SendsIs, AheadSame
<1>3. Behind(x, y)'
  BY <1>1, <1>2 DEF Behind
<1>4. \A s : ~Settled(x, s)
  BY DEF Settled
<1>5. AgreeOps(x, y)'
  BY <1>4 DEF AgreeOps
<1>6. \A s : (TopSettled(p, x, s)' => p \notin Kids') /\ (TopSettled(r, y, s)' => r \notin Kids')
  BY SendsIs DEF TopSettled
<1>7. AgreeTop(p, r, x, y)'
  BY <1>6, SamePlan DEF AgreeTop
<1> QED BY <1>3, <1>5, <1>7 DEF Pair

\* The communicator of the second group: the ranks that stay, then the children.
LEMMA NextComm ==
  ASSUME PlanOK, group = 1, comm = CommOf(1), kids = KidsOf
  PROVE  /\ SubSeq(comm, 1, Staying) \o kids = CommOf(2)
         /\ \A r \in 1 .. plan.procs[2] :
              CommOf(2)[r] \in Kids \/ (r <= Staying /\ r \in 1 .. numP /\ CommOf(2)[r] = comm[r])
<1> DEFINE n == plan.procs[1]
           m == plan.procs[2]
<1>1. n \in Nat \ {0} /\ m \in Nat \ {0}
  BY DEF PlanOK
<1>2. DOMAIN comm = 1 .. n /\ comm \in Seq(Nat) /\ Len(comm) = n /\ \A r \in 1 .. n : comm[r] = r
  BY CommOfIs
<1>3. numP = n
  BY <1>2 DEF numP
<1>4. DOMAIN CommOf(2) = 1 .. m /\ CommOf(2) \in Seq(Nat) /\ Len(CommOf(2)) = m
  BY CommOfIs
<1>5. Merge => m # n
  BY DEF Merge
<1> HIDE DEF n, m
<1>6. CASE ~Merge
  <2>1. Staying = 0 /\ SubSeq(comm, 1, 0) = <<>>
    BY <1>6, SubSeqEmpty DEF Staying
  <2>2. kids = [r \in 1 .. m |-> n + r] /\ CommOf(2) = [r \in 1 .. m |-> n + r]
    BY <1>6 DEF KidsOf, CommOf, n, m
  <2>3. kids = CommOf(2)
    BY <2>2
  <2>4. <<>> \o kids = kids
    BY <1>4, <2>3
  <2>5. \A r \in 1 .. m : CommOf(2)[r] \in Kids
    BY <1>4, <2>3 DEF Kids
  <2> QED BY <2>1, <2>3, <2>4, <2>5 DEF m
<1>7. CASE Merge
  <2> DEFINE k == IF m < n THEN m ELSE n
             a == SubSeq(comm, 1, k)
             d == m - n
  <2>1. Staying = k
    BY <1>3, <1>7 DEF Staying, m
  <2>2. k \in Nat \ {0} /\ k <= n /\ k <= m /\ d \in Int /\ (m < n => d < 0 /\ k = m) /\ (~(m < n) => d > 0 /\ k = n /\ n + d = m)
    BY <1>1, <1>5, <1>7
  <2>3. kids = [r \in 1 .. d |-> n + r] /\ CommOf(2) = [r \in 1 .. m |-> r]
    BY <1>7 DEF KidsOf, CommOf, n, m
  <2> HIDE DEF k, d
  <2>4. a \in Seq(Nat) /\ Len(a) = k /\ \A r \in 1 .. k : a[r] = r
    <3>1. \A r \in 1 .. k : comm[r] \in Nat
      BY <1>1, <1>2, <2>2
    <3>2. k \in Int /\ 1 \in Int
      BY <2>2
    <3>3. /\ SubSeq(comm, 1, k) \in Seq(Nat)
          /\ Len(SubSeq(comm, 1, k)) = IF 1 <= k THEN k - 1 + 1 ELSE 0
          /\ \A r \in 1 .. k - 1 + 1 : SubSeq(comm, 1, k)[r] = comm[1 + r - 1]
      BY <3>1, <3>2, SubSeqProperties
    <3> HIDE DEF a
    <3>4. a \in Seq(Nat) /\ Len(a) = k /\ \A r \in 1 .. k : a[r] = comm[r]
      BY <2>2, <3>3 DEF a
    <3> QED BY <1>1, <1>2, <2>2, <3>4
  <2> HIDE DEF a
  <2>5. CASE m < n
    <3>1. kids = <<>>
      BY <2>2, <2>3, <2>5
    <3>2. a \o kids = a
      BY <2>4, <3>1
    <3>3. a = CommOf(2)
      <4>1. Len(a) = Len(CommOf(2)) /\ \A r \in 1 .. Len(a) : a[r] = CommOf(2)[r]
        BY <1>1, <1>4, <2>2, <2>3, <2>4, <2>5
      <4> QED BY <1>4, <2>4, <4>1, SeqEqual
    <3>4. \A r \in 1 .. m : r <= k /\ r \in 1 .. numP /\ CommOf(2)[r] = comm[r]
      BY <1>1, <1>2, <1>3, <2>2, <2>3, <2>5
    <3> QED BY <2>1, <3>2, <3>3, <3>4 DEF a, m
  <2>6. CASE ~(m < n)
    <3>1. kids \in Seq(Nat) /\ Len(kids) = d /\ \A r \in 1 .. d : kids[r] = n + r
      <4>1. \A r \in 1 .. d : n + r \in Nat
        BY <1>1, <2>2, <2>6
      <4>2. d \in Nat
        BY <2>2, <2>6
      <4>3. kids \in [1 .. d -> Nat]
        BY <2>3, <4>1
      <4> QED BY <2>3, <4>2, <4>3
    <3>2. a \o kids = CommOf(2)
      <4>1. a \o kids \in Seq(Nat) /\ Len(a \o kids) = Len(a) + Len(kids)
            /\ (\A i \in 1 .. Len(a) : (a \o kids)[i] = a[i])
            /\ (\A i \in 1 .. Len(kids) : (a \o kids)[Len(a) + i] = kids[i])
        <5>1. PICK u : u = a
          OBVIOUS
        <5>2. PICK v : v = kids
          OBVIOUS
        <5>3. u \in Seq(Nat) /\ v \in Seq(Nat)
          BY <2>4, <3>1, <5>1, <5>2
        <5>4. (u \o v) \in Seq(Nat) /\ Len((u \o v)) = Len(u) + Len(v)
              /\ (\A i \in 1 .. Len(u) : (u \o v)[i] = u[i]) /\ (\A i \in 1 .. Len(v) : (u \o v)[Len(u) + i] = v[i])
          BY <5>3, Joined
        <5> QED BY <5>1, <5>2, <5>4
      <4> DEFINE c == a \o kids
      <4>2. Len(c) = m
        BY <1>1, <2>2, <2>4, <2>6, <3>1, <4>1
      <4>3. ASSUME NEW i \in 1 .. m PROVE c[i] = i
        <5> HIDE DEF c
        <5>1. CASE i <= n
          BY <1>1, <2>2, <2>4, <2>6, <4>1, <5>1 DEF c
        <5>2. CASE ~(i <= n)
          <6>1. PICK j \in 1 .. d : i = n + j
            <7>1. i - n \in 1 .. d /\ i = n + (i - n)
              BY <1>1, <2>2, <2>6, <5>2
            <7> QED BY <7>1
          <6>2. c[n + j] = n + j
            BY <2>2, <2>4, <2>6, <3>1, <4>1, <6>1 DEF c
          <6> QED BY <6>1, <6>2
        <5> QED BY <5>1, <5>2
      <4> HIDE DEF c
      <4>4. c \in Seq(Nat) /\ \A i \in 1 .. m : CommOf(2)[i] = i
        BY <2>3, <4>1 DEF c
      <4>5. c = CommOf(2)
        BY <1>4, <4>2, <4>3, <4>4, SeqEqual
      <4> QED BY <4>5 DEF c
    <3>3. ASSUME NEW r \in 1 .. m PROVE CommOf(2)[r] \in Kids \/ (r <= k /\ r \in 1 .. numP /\ CommOf(2)[r] = comm[r])
      <4>1. CASE r <= n
        BY <1>1, <1>2, <1>3, <2>2, <2>3, <2>6, <4>1
      <4>2. CASE ~(r <= n)
        <5>1. PICK j \in 1 .. d : r = n + j
          <6>1. r - n \in 1 .. d /\ r = n + (r - n)
            BY <1>1, <2>2, <2>6, <4>2
          <6> QED BY <6>1
        <5>2. CommOf(2)[r] = r /\ kids[j] = r /\ j \in DOMAIN kids
          BY <2>3, <5>1
        <5> QED BY <5>2 DEF Kids
      <4> QED BY <4>1, <4>2
    <3> QED BY <2>1, <3>2, <3>3 DEF a, m
  <2> QED BY <2>5, <2>6
<1> QED BY <1>6, <1>7

\* The configuration is about to be sent to the next group.
LEMMA ReconfigureKeeps ==
  ASSUME Inv, Reconfigure
  PROVE  Inv'
<1>1. /\ group = 1 /\ kids = <<>> /\ plan' = plan /\ group' = 1 /\ group' = group /\ comm' = comm
      /\ \A p \in Ranks : proc[p].mode = "ready" /\ proc[p].todo = <<>>
  BY Zenon DEF Reconfigure
<1>2. Shape /\ PlanOK /\ Together(proc) /\ comm = CommOf(1) /\ DOMAIN proc = Talking
  BY <1>1 DEF Inv, Shape
<1>3. numP = plan.procs[1] /\ DOMAIN comm = 1 .. plan.procs[1] /\ \A r \in 1 .. plan.procs[1] : comm[r] = r
  BY <1>1, <1>2, GroupIs
<1>4. kids' = KidsOf
  BY Zenon, <1>3 DEF Reconfigure, KidsOf
<1>5. Talking = Ranks
  <2>1. DOMAIN kids = {}
    BY <1>1
  <2> QED BY <2>1 DEF Talking, Kids
<1>6. Ranks' = Ranks /\ Talking' = Ranks \cup Kids'
  <2>1. Ranks' = Ranks
    BY <1>1 DEF Ranks
  <2> QED BY <2>1 DEF Talking
<1>7. \A p \in Ranks : p \notin Kids'
  <2>1. plan.procs[1] \in Nat /\ plan.procs[2] \in Nat
    BY <1>2 DEF PlanOK
  <2>2. \A r \in DOMAIN KidsOf : KidsOf[r] \in Int /\ KidsOf[r] > plan.procs[1]
    BY <2>1 DEF KidsOf
  <2>3. \A r \in DOMAIN comm : comm[r] \in Int /\ comm[r] <= plan.procs[1]
    BY <1>3, <2>1
  <2>4. ASSUME NEW p \in Ranks, p \in Kids' PROVE FALSE
    <3>1. PICK r \in DOMAIN comm : comm[r] = p
      BY DEF Ranks
    <3>2. PICK k \in DOMAIN KidsOf : KidsOf[k] = p
      BY <1>4, <2>4 DEF Kids
    <3> QED BY <2>1, <2>2, <2>3, <3>1, <3>2
  <2> QED BY <2>4
<1>8. PICK n : n = [p \in DOMAIN proc \cup Kids' |->
                      IF p \in Ranks THEN [proc[p] EXCEPT !.mode = "config", !.todo = Sends]
                      ELSE [Fresh(0) EXCEPT !.mode = "config", !.todo = Receives]]
  OBVIOUS
<1>9. proc' = n
  BY Zenon, <1>8 DEF Reconfigure, Kids, Sends, Receives
<1>10. DOMAIN n = Talking'
  BY <1>2, <1>5, <1>6, <1>8
<1>11. ASSUME NEW p \in Ranks
       PROVE  DOMAIN n[p] = Fields /\ n[p].mode = "config" /\ n[p].todo = Sends /\ Stored(n[p]) /\ n[p].st = proc[p].st
  <2>1. ProcOK(p, proc[p])
    BY <1>2, <1>5 DEF Together
  <2>2. PICK q : q = proc[p]
    OBVIOUS
  <2>3. DOMAIN q = Fields
    BY <2>1, <2>2, Memory
  <2>4. Stored(q)
    BY <1>1, <2>1, <2>2 DEF ProcOK, Has
  <2>5. n[p] = [q EXCEPT !.mode = "config", !.todo = Sends]
    BY <1>2, <1>5, <1>8, <2>2
  <2>6. DOMAIN n[p] = Fields /\ n[p].mode = "config" /\ n[p].todo = Sends /\ n[p].st = q.st
    BY <2>3, <2>5 DEF Fields
  <2>7. Stored(n[p])
    BY <2>4, <2>6 DEF Stored
  <2> QED BY <2>2, <2>6, <2>7
<1>12. ASSUME NEW p \in Kids' PROVE DOMAIN n[p] = Fields /\ n[p].mode = "config" /\ n[p].todo = Sends
  <2>1. PICK q : q = Fresh(0)
    OBVIOUS
  <2>2. DOMAIN q = Fields
    BY <2>1, FreshIs
  <2>3. n[p] = [q EXCEPT !.mode = "config", !.todo = Receives]
    BY <1>7, <1>8, <2>1
  <2>4. DOMAIN n[p] = Fields /\ n[p].mode = "config" /\ n[p].todo = Receives
    BY <2>2, <2>3 DEF Fields
  <2> QED BY <2>4, SendsIs
<1>13. ASSUME NEW p \in Talking' PROVE ProcOK(p, n[p])'
  <2>1. DOMAIN n[p] = Fields /\ n[p].mode = "config" /\ n[p].todo = Sends /\ (p \in Kids' \/ Stored(n[p]))
    BY <1>6, <1>11, <1>12
  <2>2. PICK z : z = n[p]
    OBVIOUS
  <2>3. ProcOK(p, z)'
    BY <1>1, <2>1, <2>2, SendOK
  <2> QED BY <2>2, <2>3
<1>14. ASSUME NEW p \in Talking', NEW r \in Talking' PROVE Pair(p, r, n[p], n[r])'
  <2>1. ASSUME p \notin Kids', r \notin Kids', NEW s \in StageIds, UsesTop(s) PROVE n[p].st[s].top = n[r].st[s].top
    <3>1. p \in Ranks /\ r \in Ranks
      BY <1>6, <2>1
    <3>2. Pair(p, r, proc[p], proc[r])
      BY <1>2, <1>5, <3>1 DEF Together
    <3>3. TopSettled(p, proc[p], s) /\ TopSettled(r, proc[r], s)
      BY <1>1, <3>1 DEF TopSettled
    <3>4. proc[p].st[s].top = proc[r].st[s].top
      BY <2>1, <3>2, <3>3 DEF Pair, AgreeTop
    <3> QED BY <1>11, <3>1, <3>4
  <2>2. PICK x : x = n[p]
    OBVIOUS
  <2>3. PICK y : y = n[r]
    OBVIOUS
  <2>4. x.mode = "config" /\ x.todo = Sends /\ y.mode = "config" /\ y.todo = Sends
    BY <1>6, <1>11, <1>12, <2>2, <2>3
  <2>5. Pair(p, r, x, y)'
    BY <1>1, <2>1, <2>2, <2>3, <2>4, SendPair
  <2> QED BY <2>2, <2>3, <2>5
<1>15. Together(n)'
  BY <1>13, <1>14 DEF Together
<1>16. KidsOf' = KidsOf /\ comm' = CommOf(1)' /\ PlanOK'
  BY <1>1, <1>2, SamePlan
<1>17. Shape'
  BY <1>1, <1>4, <1>9, <1>10, <1>16 DEF Shape
<1>18. Handed'
  BY <1>4, <1>16 DEF Handed
<1> QED BY <1>9, <1>15, <1>17, <1>18 DEF Inv

LEMMA StartGroupKeeps ==
  ASSUME Inv, StartGroup
  PROVE  Inv'
<1>1. /\ plan' = plan /\ group' = 2 /\ kids' = <<>> /\ comm' = SubSeq(comm, 1, Staying) \o kids
      /\ \A p \in Talking : proc[p].mode = "config" /\ proc[p].todo = <<>>
  BY DEF StartGroup
<1>2. Shape /\ PlanOK /\ Together(proc) /\ Handed
  BY DEF Inv, Shape
<1>3. comm[1] \in Talking /\ numP \in Nat \ {0} /\ DOMAIN comm = 1 .. numP
  BY <1>2, RanksAre, GroupIs DEF Talking
<1>4. \A p \in Talking : ProcOK(p, proc[p])
  BY <1>2 DEF Together
<1>5. group = 1 /\ kids = KidsOf
  <2>1. TodoOK(proc[comm[1]])
    BY <1>3, <1>4 DEF ProcOK
  <2>2. group = 1
    BY <1>1, <1>3, <2>1 DEF TodoOK
  <2> QED BY <1>1, <1>2, <1>3, <2>2 DEF Handed
<1>6. comm = CommOf(1) /\ DOMAIN proc = Talking
  BY <1>2, <1>5 DEF Shape
<1>7. /\ comm' = CommOf(2) /\ CommOf(2)' = CommOf(2) /\ PlanOK'
      /\ \A r \in 1 .. plan.procs[2] :
              CommOf(2)[r] \in Kids \/ (r <= Staying /\ r \in 1 .. numP /\ CommOf(2)[r] = comm[r])
  BY <1>1, <1>2, <1>5, <1>6, NextComm, SamePlan
<1>8. Kids' = {}
  <2>1. DOMAIN kids' = {}
    BY <1>1
  <2> QED BY <2>1 DEF Kids
<1>9. Talking' = Ranks'
  BY <1>8 DEF Talking
<1>10. DOMAIN CommOf(2) = 1 .. plan.procs[2] /\ plan.procs[2] \in Nat
  BY <1>2, CommOfIs DEF PlanOK
<1>11. ASSUME NEW p \in Talking' PROVE p \in Talking /\ Stays(p)
  <2>1. PICK r \in 1 .. plan.procs[2] : CommOf(2)[r] = p
    BY <1>7, <1>9, <1>10 DEF Ranks
  <2>2. CASE p \in Kids
    BY <2>2 DEF Stays, Talking
  <2>3. CASE r <= Staying /\ r \in 1 .. numP /\ p = comm[r]
    <3>1. Rank(p) = r - 1 /\ p \in Ranks
      BY <1>2, <2>3, RankOf
    <3>2. Staying \in Nat
      BY <1>2, <1>3 DEF Staying, PlanOK
    <3>3. Rank(p) < Staying
      BY <2>1, <2>3, <3>1, <3>2
    <3> QED BY <3>1, <3>3 DEF Stays, Talking
  <2> QED BY <1>7, <2>1, <2>2, <2>3
<1>12. PICK n : n = [p \in DOMAIN proc |->
                       IF Stays(p) THEN [proc[p] EXCEPT !.mode = "init", !.s = 0, !.iter = 0, !.posted = 0]
                       ELSE FreeConfig(proc[p])]
  OBVIOUS
<1>13. proc' = n
  BY <1>12 DEF StartGroup
<1>14. ASSUME NEW p \in Talking'
       PROVE  /\ DOMAIN n[p] = Fields /\ n[p].mode = "init" /\ n[p].s = 0 /\ n[p].iter = 0 /\ n[p].todo = <<>>
              /\ Stored(n[p]) /\ n[p].st = proc[p].st
  <2>1. p \in Talking /\ Stays(p) /\ ProcOK(p, proc[p])
    BY <1>4, <1>11
  <2>2. PICK q : q = proc[p]
    OBVIOUS
  <2>3. DOMAIN q = Fields /\ q.todo = <<>>
    BY <1>1, <2>1, <2>2, Memory
  <2>4. Stored(q)
    BY <2>1, <2>2, <2>3 DEF ProcOK, Has
  <2>5. n[p] = [q EXCEPT !.mode = "init", !.s = 0, !.iter = 0, !.posted = 0]
    BY <1>6, <1>12, <2>1, <2>2
  <2>6. PICK z : z = n[p]
    OBVIOUS
  <2>7. z = [q EXCEPT !.mode = "init", !.s = 0, !.iter = 0, !.posted = 0]
    BY <2>5, <2>6
  <2>8. DOMAIN z = Fields /\ z.mode = "init" /\ z.s = 0 /\ z.iter = 0 /\ z.todo = q.todo /\ z.st = q.st
    BY <2>3, <2>7 DEF Fields
  <2>9. Stored(z)
    BY <2>4, <2>8 DEF Stored
  <2> QED BY <2>2, <2>3, <2>6, <2>8, <2>9
<1>15. \A p \in DOMAIN n \ Talking' : n[p].todo = <<>>
  <2>1. ASSUME NEW p \in DOMAIN n PROVE n[p].todo = <<>>
    <3>1. p \in Talking
      BY <1>6, <1>12
    <3>2. PICK q : q = proc[p]
      OBVIOUS
    <3>3. DOMAIN q = Fields /\ q.todo = <<>>
      BY <1>1, <1>4, <3>1, <3>2, Memory
    <3>4. n[p] = IF Stays(p) THEN [q EXCEPT !.mode = "init", !.s = 0, !.iter = 0, !.posted = 0] ELSE FreeConfig(q)
      BY <1>12, <3>2
    <3>5. FreeConfig(q).todo = q.todo
      BY <3>3 DEF FreeConfig, Fields
    <3>6. [q EXCEPT !.mode = "init", !.s = 0, !.iter = 0, !.posted = 0].todo = q.todo
      BY <3>3 DEF Fields
    <3> QED BY <3>3, <3>4, <3>5, <3>6
  <2> QED BY <2>1
<1>16. ASSUME NEW p \in Talking' PROVE ProcOK(p, n[p])'
  <2>1. PICK z : z = n[p]
    OBVIOUS
  <2>2. DOMAIN z = Fields /\ z.mode = "init" /\ z.s = 0 /\ z.iter = 0 /\ z.todo = <<>> /\ Stored(z)
    BY <1>14, <2>1
  <2>3. N \in Nat /\ StageIds = 1 .. N /\ N' = N /\ StageIds' = StageIds /\ Stored(z)'
    BY <1>1, <1>2, <2>2, NStages, SamePlan
  <2>4. z.todo \in Seq(Items) /\ z.todo \in Seq(Of(InitNames, z.s))
    BY <2>2
  <2>5. MeasuresShared(z.todo, z.s)'
    BY <2>2 DEF MeasuresShared
  <2>6. TodoOK(z)'
    BY <2>2, <2>3, <2>4, <2>5 DEF TodoOK
  <2>7. \A s \in StageIds : ~Reached(z, s) /\ ~Settled(z, s)
    BY <2>2, <2>3 DEF Reached, Settled
  <2>8. DataOK(p, z)'
    BY <2>3, <2>7 DEF DataOK
  <2>9. IsProc(z)
    BY <2>2, <2>4 DEF IsProc
  <2>10. ProcOK(p, z)'
    BY <1>8, <2>3, <2>6, <2>8, <2>9 DEF ProcOK
  <2> QED BY <2>1, <2>10
<1>17. ASSUME NEW p \in Talking', NEW r \in Talking' PROVE Pair(p, r, n[p], n[r])'
  <2>1. PICK x : x = n[p]
    OBVIOUS
  <2>2. PICK y : y = n[r]
    OBVIOUS
  <2>3. /\ x.mode = "init" /\ x.s = 0 /\ x.todo = <<>> /\ x.st = proc[p].st
        /\ y.mode = "init" /\ y.s = 0 /\ y.todo = <<>> /\ y.st = proc[r].st
    BY <1>14, <2>1, <2>2
  <2>4. N \in Nat /\ StageIds = 1 .. N /\ StageIds' = StageIds /\ \A s : UsesTop(s)' <=> UsesTop(s)
    BY <1>1, <1>2, NStages, SamePlan
  <2>5. Place(x) = Place(y)
    BY <2>3, PlaceOf
  <2>6. Ahead(y.todo, x.todo)
    <3>1. <<>> \in Seq(Items)
      OBVIOUS
    <3> QED BY <2>3, <3>1, AheadSame
  <2>7. Behind(x, y)'
    BY <2>5, <2>6 DEF Behind
  <2>8. \A s \in StageIds : ~Settled(x, s)
    BY <2>3, <2>4 DEF Settled
  <2>9. AgreeOps(x, y)'
    BY <2>4, <2>8 DEF AgreeOps
  <2>10. \A s \in StageIds : UsesTop(s) => x.st[s].top = y.st[s].top
    <3>1. ASSUME NEW s \in StageIds, UsesTop(s) PROVE proc[p].st[s].top = proc[r].st[s].top
      <4>1. p \in Talking /\ r \in Talking
        BY <1>11
      <4>2. AgreeTop(p, r, proc[p], proc[r])
        BY <1>2, <4>1 DEF Together, Pair
      <4>3. ~Has(proc[p].todo, "stages") /\ ~Has(proc[r].todo, "stages")
        BY <1>1, <4>1 DEF Has
      <4>4. TopSettled(p, proc[p], s) /\ TopSettled(r, proc[r], s)
        BY <1>1, <4>1, <4>3 DEF TopSettled
      <4> QED BY <3>1, <4>2, <4>4 DEF AgreeTop
    <3> QED BY <2>3, <3>1
  <2>11. AgreeTop(p, r, x, y)'
    BY <2>4, <2>10 DEF AgreeTop
  <2>12. Pair(p, r, x, y)'
    BY <2>7, <2>9, <2>11 DEF Pair
  <2> QED BY <2>1, <2>2, <2>12
<1>18. Together(n)'
  BY <1>16, <1>17 DEF Together
<1>19. Talking' \subseteq DOMAIN n
  BY <1>6, <1>11, <1>12
<1>20. Shape'
  <2>1. comm' = CommOf(2)' /\ PlanOK'
    BY <1>7
  <2>2. Talking' \subseteq DOMAIN proc' /\ \A p \in DOMAIN proc' \ Talking' : proc'[p].todo = <<>>
    BY <1>13, <1>15, <1>19
  <2>3. group' \in {1, 2} /\ group' # 1 /\ kids' \in {<<>>, KidsOf'}
    BY <1>1
  <2>4. comm' = CommOf(group)'
    BY <1>1, <2>1
  <2> QED BY <1>1, <2>1, <2>2, <2>3, <2>4 DEF Shape
<1>21. Handed'
  BY <1>13, <1>14 DEF Handed
<1> QED BY <1>13, <1>18, <1>20, <1>21 DEF Inv
-----------------------------------------------------------------------------
(* What the invariant says. *)

LEMMA StutterKeeps ==
  ASSUME Inv, UNCHANGED vars
  PROVE  Inv'
<1>1. Frame /\ proc' = proc
  BY DEF vars, Frame
<1>2. Stepped
  BY <1>1 DEF Inv, Stepped
<1> QED BY <1>2, SteppedKeeps

LEMMA Inductive ==
  ASSUME Sound, Inv, [Next]_vars
  PROVE  Inv'
<1>1. Shape /\ Together(proc)
  BY DEF Inv
<1>2. CASE \E p \in DOMAIN proc : Step(p)
  BY <1>1, <1>2, StepSteps, SteppedKeeps
<1>3. CASE Collective
  BY <1>1, <1>3, CollectiveSteps, SteppedKeeps
<1>4. CASE Reconfigure
  BY <1>4, ReconfigureKeeps
<1>5. CASE StartGroup
  BY <1>5, StartGroupKeeps
<1>6. CASE Finished
  BY <1>6, StutterKeeps DEF Finished
<1>7. CASE UNCHANGED vars
  BY <1>7, StutterKeeps
<1> QED BY <1>2, <1>3, <1>4, <1>5, <1>6, <1>7 DEF Next

\* Two processes that stand in collective calls stand in the same call.
LEMMA SameCall == ASSUME Inv PROVE InStep
<1>1. Shape /\ PlanOK /\ \A p \in Talking : ProcOK(p, proc[p]) /\ Placed(proc[p])
  BY PlacedIs DEF Inv, Shape, Together
<1>2. "next" \notin Collectives
  BY CollectivesAre DEF SendNames
<1>3. ASSUME NEW p \in Talking, NEW q \in Talking, Head1(p) \in Collectives, Head1(q) \in Collectives
      PROVE  Item(p) = Item(q)
  <2>1. PICK x : x = proc[p]
    OBVIOUS
  <2>2. PICK y : y = proc[q]
    OBVIOUS
  <2>3. x.todo # <<>> /\ IsCall(Head(x.todo)) /\ y.todo # <<>> /\ IsCall(Head(y.todo))
    <3>1. proc[p].todo # <<>> /\ Head1(p) = Head(proc[p].todo)[1] /\ proc[q].todo # <<>> /\ Head1(q) = Head(proc[q].todo)[1]
      BY <1>1, <1>2, <1>3, Head1Is
    <3> QED BY <1>3, <2>1, <2>2, <3>1 DEF IsCall
  <2>4. Near(x, y) /\ Placed(x) /\ Placed(y)
    BY <1>1, <2>1, <2>2 DEF Inv, Together, Pair, Near
  <2>5. x.todo = y.todo
    BY <1>1, <2>3, <2>4, MeetInCall
  <2> QED BY <2>1, <2>2, <2>5 DEF Item
<1> QED BY <1>3 DEF InStep

\* Two ranks at work agree on the operations, and on what each gathers.
LEMMA SameOps == ASSUME Inv PROVE SameWork
<1>1. Shape /\ PlanOK
  BY DEF Inv, Shape
<1>2. numP \in Nat \ {0} /\ Ranks \subseteq Talking
  BY <1>1, GroupIs DEF Talking
<1>3. ASSUME NEW p \in Ranks, NEW q \in Ranks, proc[p].mode = "run", proc[q].mode = "run", NEW s \in StageIds
      PROVE  /\ proc[p].st[s].ops = proc[q].st[s].ops
             /\ plan.stages[s].kind = "gather" =>
                  /\ Len(proc[p].st[s].counts) = numP
                  /\ proc[p].st[s].counts[Rank(q) + 1] = proc[q].st[s].my
  <2>1. ProcOK(p, proc[p]) /\ ProcOK(q, proc[q]) /\ Pair(p, q, proc[p], proc[q])
    BY <1>2 DEF Inv, Together
  <2>2. /\ Settled(proc[p], s) /\ Settled(proc[q], s) /\ Reached(proc[p], s) /\ Reached(proc[q], s)
    BY <1>3 DEF Settled, Reached
  <2>3. proc[p].st[s].ops = proc[q].st[s].ops
    BY <2>1, <2>2 DEF Pair, AgreeOps
  <2>4. ASSUME plan.stages[s].kind = "gather"
        PROVE  /\ Len(proc[p].st[s].counts) = numP
               /\ proc[p].st[s].counts[Rank(q) + 1] = proc[q].st[s].my
    <3>1. GatherOK(proc[p].st[s], s, Rank(p)) /\ GatherOK(proc[q].st[s], s, Rank(q))
      BY <2>1, <2>2, <2>4 DEF ProcOK, DataOK
    <3>2. PICK c : c = proc[p].st[s].counts
      OBVIOUS
    <3>3. c = [i \in 1 .. numP |-> SamBlock(RealBytes(plan.stages[s]), i - 1, numP)]
      BY <3>1, <3>2 DEF GatherOK
    <3>4. Len(c) = numP
      BY <1>2, <3>3
    <3>5. PICK k : k = Rank(q) + 1
      OBVIOUS
    <3>6. k \in 1 .. numP /\ k - 1 = Rank(q)
      BY <1>1, <1>2, <3>5, RankIs
    <3>7. c[k] = SamBlock(RealBytes(plan.stages[s]), k - 1, numP)
      BY <3>3, <3>6
    <3>8. c[k] = proc[q].st[s].my
      BY <3>1, <3>6, <3>7 DEF GatherOK
    <3> QED BY <3>2, <3>4, <3>5, <3>8
  <2> QED BY <2>3, <2>4
<1> QED BY <1>3 DEF SameWork

LEMMA Always == Spec => [](Sound => Inv)
<1>1. (Sound => Inv) /\ [Next]_vars => (Sound => Inv)'
  <2> SUFFICES ASSUME Sound => Inv, [Next]_vars, Sound' PROVE Inv'
    OBVIOUS
  <2>1. Sound
    BY PlanStays DEF Sound, StageIds
  <2> QED BY <2>1, Inductive
<1> QED BY <1>1, InitInv, PTL DEF Spec

\* Whatever the stages, the groups and the costs, no rank of the emulation
\* waits in one collective call for ranks that stand in another, unless an
\* asynchronous exchange is calibrated with t_capped set by chance, or a file
\* does not open.
THEOREM MeetInStep == Spec => [](Sound => InStep)
BY Always, SameCall, PTL

\* And the ranks of both groups, survivors and children, do the operations and
\* gather the bytes that the others expect of them, with the same exceptions.
THEOREM WorkAgreed == Spec => [](Sound => SameWork)
BY Always, SameOps, PTL
-----------------------------------------------------------------------------
(* The requests of a process, when no wait is limited by time. *)

Kind(s) == plan.stages[s].kind
WaitsFor(w, s) == Kind(w) = "wait" /\ Kind(s) = "ipoint" /\ plan.stages[w].id = plan.stages[s].id

\* An asynchronous exchange is the first with its identifier, with a wait after
\* it, and a wait has an exchange before it.
ListOK ==
  /\ \A s \in StageIds : Kind(s) = "ipoint" =>
       /\ plan.stages[s].id > 0 /\ \A t \in 1 .. s - 1 : plan.stages[t].id # plan.stages[s].id
       /\ \E w \in StageIds : s < w /\ WaitsFor(w, s)
  /\ \A w \in StageIds : Kind(w) = "wait" => ~plan.stages[w].capped /\ \E s \in StageIds : WaitsFor(w, s)

\* Stages whose requests are those of their iterations.
Linked(q, s) ==
  q.mode \in {"run", "ready"} \/ (q.mode = "init" /\ (s < q.s \/ (s = q.s /\ q.todo = <<>>)))

\* An array in use belongs to one exchange, which knows its length.
Arrays(q) ==
  /\ q.len \in Seq(Nat) /\ q.live \subseteq 1 .. Len(q.len)
  /\ \A s \in StageIds :
       /\ Kind(s) = "ipoint" /\ q.st[s].reqs # 0 =>
            q.st[s].reqs \in q.live /\ q.st[s].count = q.len[q.st[s].reqs]
       /\ Kind(s) \notin {"ipoint", "wait"} => q.st[s].reqs = 0
  /\ \A s, t \in StageIds :
       Kind(s) = "ipoint" /\ Kind(t) = "ipoint" /\ q.st[s].reqs = q.st[t].reqs /\ q.st[s].reqs # 0 => s = t
  /\ \A a \in q.live : \E s \in StageIds : Kind(s) = "ipoint" /\ q.st[s].reqs = a

\* An exchange has requests for its operations, and its waits have the same.
Links(q) ==
  /\ \A s \in StageIds : Kind(s) = "ipoint" =>
       /\ Reached(q, s) => q.st[s].reqs # 0
       /\ Linked(q, s) => q.st[s].ops = q.st[s].count
  /\ \A w, s \in StageIds : WaitsFor(w, s) /\ Linked(q, w) =>
       q.st[w].reqs = q.st[s].reqs /\ q.st[w].count = q.st[s].count

\* What is pending is waited for later, and has a slot of its own.
Pending(q, s) ==
  \/ q.mode = "init" /\ s = q.s /\ Has(q.todo, "waitall")
  \/ /\ q.mode = "run" /\ s <= q.s
     /\ \A w \in StageIds : WaitsFor(w, s) => q.s < w \/ (q.s = w /\ Has(q.todo, "waitall"))
Belongs(q, a, s) == Kind(s) = "ipoint" /\ Pending(q, s) /\ a[1] = q.st[s].reqs /\ a[2] \in 1 .. q.st[s].count
Alone(set) == \A a, b \in set : a[1] = b[1] /\ a[2] = b[2] => a = b
Exchanges(q) == (\A a \in q.active : \E s \in StageIds : Belongs(q, a, s)) /\ Alone(q.active)

\* Exchanges are posted in order, before their wait; new requests come last.
Rising(list, n) ==
  \A i \in 1 .. Len(list) : list[i][1] = "post" =>
    /\ list[i][3] \in 1 .. n
    /\ \A j \in 1 .. i - 1 : list[j][1] = "post" => list[j][3] < list[i][3]
Closing(list) ==
  /\ \A i \in 1 .. Len(list) : list[i][1] = "post" => \E j \in i + 1 .. Len(list) : list[j][1] = "waitall"
  /\ \A i \in 1 .. Len(list) : list[i][1] = "realloc" <=> i = Len(list)
Later(a, reqs, list) == a[1] = reqs => \A i \in 1 .. Len(list) : list[i][1] = "post" => a[2] < list[i][3]
Tidy(q) ==
  q.mode \in {"init", "run"} /\ q.s # 0 =>
    /\ Kind(q.s) = "ipoint" =>
         /\ Rising(q.todo, q.st[q.s].count)
         /\ \A a \in q.active : Later(a, q.st[q.s].reqs, q.todo)
         /\ q.mode = "init" => Closing(q.todo)
    /\ Kind(q.s) # "ipoint" /\ q.mode = "init" =>
         ~Has(q.todo, "post") /\ ~Has(q.todo, "waitall") /\ ~Has(q.todo, "realloc")
    /\ Kind(q.s) = "wait" /\ q.mode = "run" => \A i \in 1 .. Len(q.todo) : q.todo[i][1] \in {"waitall", "barrier"}

Held(q) == Arrays(q) /\ Links(q) /\ Exchanges(q) /\ Tidy(q)
Req(p, q) ==
  \/ q.mode = "gone" /\ q.live = {} /\ q.active = {}
  \/ /\ q.mode # "gone"
     /\ p \in Kids => q.live = {} /\ q.active = {} /\ q.len = <<>>
     /\ (p \in Kids /\ Has(q.todo, "stages")) \/ Held(q)
AllReq == \A p \in DOMAIN proc : Req(p, proc[p])

\* The waits of an exchange come after it, and are of no other.
LEMMA WaitAfter ==
  ASSUME PlanOK, ListOK, NEW w \in StageIds, NEW s \in StageIds, WaitsFor(w, s)
  PROVE  /\ s < w /\ plan.stages[w].id > 0
         /\ \A t \in StageIds : plan.stages[t].id = plan.stages[w].id => s <= t
         /\ \A t \in StageIds : WaitsFor(w, t) => t = s
<1>0. StageIds = 1 .. N /\ N \in Nat
  BY NStages
<1>1. ASSUME NEW u \in StageIds, WaitsFor(w, u), NEW t \in StageIds, plan.stages[t].id = plan.stages[w].id PROVE u <= t
  <2>1. \A v \in 1 .. u - 1 : plan.stages[v].id # plan.stages[u].id
    BY <1>1 DEF ListOK, WaitsFor
  <2>2. plan.stages[t].id = plan.stages[u].id
    BY <1>1 DEF WaitsFor
  <2>3. t \notin 1 .. u - 1
    BY <2>1, <2>2
  <2> QED BY <1>0, <2>3
<1>2. s <= w /\ s # w
  BY <1>1 DEF WaitsFor
<1>3. ASSUME NEW t \in StageIds, WaitsFor(w, t) PROVE t = s
  <2>1. plan.stages[t].id = plan.stages[w].id /\ plan.stages[s].id = plan.stages[w].id
    BY <1>3 DEF WaitsFor
  <2>2. s <= t /\ t <= s
    BY <1>1, <1>3, <2>1
  <2> QED BY <1>0, <2>2
<1>4. plan.stages[w].id > 0
  BY DEF ListOK, WaitsFor
<1> QED BY <1>0, <1>1, <1>2, <1>3, <1>4

\* What a step does to the requests.
SameReqs(q, z) ==
  /\ z.len = q.len /\ z.live = q.live
  /\ \A t \in StageIds : z.st[t].reqs = q.st[t].reqs /\ z.st[t].count = q.st[t].count
Linking(q, z) ==
  \A t \in StageIds :
    /\ Kind(t) \in {"ipoint", "wait"} /\ Linked(z, t) => Linked(q, t)
    /\ Kind(t) = "ipoint" /\ Linked(z, t) => z.st[t].ops = q.st[t].ops
    /\ Kind(t) = "ipoint" /\ Reached(z, t) => Reached(q, t)

LEMMA ArraysKept ==
  ASSUME NEW q, NEW z, Arrays(q), z.len = q.len, z.live = q.live,
         \A t \in StageIds : Kind(t) # "wait" => z.st[t].reqs = q.st[t].reqs /\ z.st[t].count = q.st[t].count
  PROVE  Arrays(z)
<1>1. z.len \in Seq(Nat) /\ z.live \subseteq 1 .. Len(z.len)
  BY DEF Arrays
<1>2. ASSUME NEW s \in StageIds
      PROVE  /\ Kind(s) = "ipoint" /\ z.st[s].reqs # 0 =>
                  z.st[s].reqs \in z.live /\ z.st[s].count = z.len[z.st[s].reqs]
             /\ Kind(s) \notin {"ipoint", "wait"} => z.st[s].reqs = 0
  BY DEF Arrays
<1>3. ASSUME NEW s \in StageIds, NEW t \in StageIds, Kind(s) = "ipoint", Kind(t) = "ipoint",
             z.st[s].reqs = z.st[t].reqs, z.st[s].reqs # 0
      PROVE  s = t
  BY <1>3 DEF Arrays
<1>4. ASSUME NEW a \in z.live PROVE \E s \in StageIds : Kind(s) = "ipoint" /\ z.st[s].reqs = a
  BY DEF Arrays
<1> QED BY <1>1, <1>2, <1>3, <1>4 DEF Arrays

LEMMA ArraysSame == ASSUME NEW q, NEW z, Arrays(q), SameReqs(q, z) PROVE Arrays(z)
BY ArraysKept DEF SameReqs

LEMMA LinksSame == ASSUME NEW q, NEW z, Links(q), SameReqs(q, z), Linking(q, z) PROVE Links(z)
<1>1. ASSUME NEW s \in StageIds, Kind(s) = "ipoint"
      PROVE  /\ Reached(z, s) => z.st[s].reqs # 0
             /\ Linked(z, s) => z.st[s].ops = z.st[s].count
  BY <1>1 DEF Links, SameReqs, Linking
<1>2. ASSUME NEW w \in StageIds, NEW s \in StageIds, WaitsFor(w, s), Linked(z, w)
      PROVE  z.st[w].reqs = z.st[s].reqs /\ z.st[w].count = z.st[s].count
  <2>1. Linked(q, w)
    BY <1>2 DEF Linking, WaitsFor
  <2> QED BY <1>2, <2>1 DEF Links, SameReqs
<1> QED BY <1>1, <1>2 DEF Links

\* What a process has left is tidy when it drops an item.
LEMMA TailTidy ==
  ASSUME PlanOK, NEW p, NEW q, ProcOK(p, q), q.todo # <<>>, Tidy(q), NEW z, z.mode = q.mode, z.s = q.s,
         z.todo = Tail(q.todo), \A t \in StageIds : z.st[t].reqs = q.st[t].reqs /\ z.st[t].count = q.st[t].count,
         \A a \in z.active : a \in q.active \/ (Head(q.todo)[1] = "post" /\ a[2] = Head(q.todo)[3])
  PROVE  Tidy(z)
<1> SUFFICES ASSUME q.mode \in {"init", "run"}, q.s # 0 PROVE Tidy(z)
  BY DEF Tidy
<1> DEFINE l == q.todo
           m == z.todo
<1>1. /\ m \in Seq(Items) /\ Len(m) = Len(l) - 1 /\ Len(l) \in Nat \ {0} /\ l \in Seq(Items)
      /\ \A i \in 1 .. Len(m) : m[i] = l[i + 1]
      /\ Head(l) = l[1]
  BY Memory, TailIs
<1>2. q.s \in StageIds
  <2>1. q.s \in 0 .. N
    BY DEF ProcOK, TodoOK
  <2> QED BY <2>1, NStages
<1>3. \A i \in 1 .. Len(m) : i + 1 \in 1 .. Len(l)
  BY <1>1
<1> HIDE DEF l, m
<1>4. ASSUME Kind(q.s) = "ipoint"
      PROVE  /\ Rising(m, q.st[q.s].count)
             /\ \A a \in z.active : Later(a, q.st[q.s].reqs, m)
             /\ q.mode = "init" => Closing(m)
  <2>1. /\ Rising(l, q.st[q.s].count)
        /\ \A a \in q.active : Later(a, q.st[q.s].reqs, l)
        /\ q.mode = "init" => Closing(l)
    BY <1>4 DEF Tidy, l
  <2>2. Rising(m, q.st[q.s].count)
    <3>1. ASSUME NEW i \in 1 .. Len(m), m[i][1] = "post"
          PROVE  /\ m[i][3] \in 1 .. q.st[q.s].count
                 /\ \A j \in 1 .. i - 1 : m[j][1] = "post" => m[j][3] < m[i][3]
      <4>1. i + 1 \in 1 .. Len(l) /\ m[i] = l[i + 1]
        BY <1>1, <1>3
      <4>2. /\ l[i + 1][3] \in 1 .. q.st[q.s].count
            /\ \A j \in 1 .. (i + 1) - 1 : l[j][1] = "post" => l[j][3] < l[i + 1][3]
        BY <2>1, <3>1, <4>1 DEF Rising
      <4>3. ASSUME NEW j \in 1 .. i - 1 PROVE j + 1 \in 1 .. (i + 1) - 1 /\ m[j] = l[j + 1]
        <5>1. j \in 1 .. Len(m)
          BY <1>1, <4>3
        <5> QED BY <1>1, <4>3, <5>1
      <4> QED BY <4>1, <4>2, <4>3
    <3> QED BY <3>1 DEF Rising
  <2>3. ASSUME NEW a \in z.active PROVE Later(a, q.st[q.s].reqs, m)
    <3>1. CASE a \in q.active
      <4>1. Later(a, q.st[q.s].reqs, l)
        BY <2>1, <3>1
      <4> QED BY <1>1, <1>3, <4>1 DEF Later
    <3>2. CASE Head(q.todo)[1] = "post" /\ a[2] = Head(q.todo)[3]
      <4>1. l[1][1] = "post" /\ a[2] = l[1][3]
        BY <1>1, <3>2 DEF l
      <4>2. ASSUME NEW i \in 1 .. Len(m), m[i][1] = "post" PROVE a[2] < m[i][3]
        <5>1. i + 1 \in 1 .. Len(l) /\ m[i] = l[i + 1] /\ 1 \in 1 .. (i + 1) - 1
          BY <1>1, <1>3
        <5> QED BY <2>1, <4>1, <4>2, <5>1 DEF Rising
      <4> QED BY <4>2 DEF Later
    <3> QED BY <3>1, <3>2
  <2>4. ASSUME q.mode = "init" PROVE Closing(m)
    <3>1. Closing(l)
      BY <2>1, <2>4
    <3>2. ASSUME NEW i \in 1 .. Len(m), m[i][1] = "post" PROVE \E j \in i + 1 .. Len(m) : m[j][1] = "waitall"
      <4>1. i + 1 \in 1 .. Len(l) /\ m[i] = l[i + 1]
        BY <1>1, <1>3
      <4>2. PICK j \in (i + 1) + 1 .. Len(l) : l[j][1] = "waitall"
        BY <3>1, <3>2, <4>1 DEF Closing
      <4>3. j - 1 \in i + 1 .. Len(m) /\ j - 1 \in 1 .. Len(m) /\ (j - 1) + 1 = j
        BY <1>1, <4>2
      <4>4. m[j - 1] = l[j]
        BY <1>1, <4>3
      <4> QED BY <4>2, <4>3, <4>4
    <3>3. ASSUME NEW i \in 1 .. Len(m) PROVE m[i][1] = "realloc" <=> i = Len(m)
      <4>1. i + 1 \in 1 .. Len(l) /\ m[i] = l[i + 1] /\ (i = Len(m) <=> i + 1 = Len(l))
        BY <1>1, <1>3
      <4> QED BY <3>1, <4>1 DEF Closing
    <3> QED BY <3>2, <3>3 DEF Closing
  <2> QED BY <2>2, <2>3, <2>4
<1>5. ASSUME Kind(q.s) # "ipoint", q.mode = "init"
      PROVE  ~Has(m, "post") /\ ~Has(m, "waitall") /\ ~Has(m, "realloc")
  <2>1. ~Has(l, "post") /\ ~Has(l, "waitall") /\ ~Has(l, "realloc")
    BY <1>5 DEF Tidy, l
  <2>2. m = Tail(l) /\ l # <<>>
    BY DEF m, l
  <2> QED BY <1>1, <2>1, <2>2, HasTail
<1>6. ASSUME Kind(q.s) = "wait", q.mode = "run" PROVE \A i \in 1 .. Len(m) : m[i][1] \in {"waitall", "barrier"}
  <2>1. \A i \in 1 .. Len(l) : l[i][1] \in {"waitall", "barrier"}
    BY <1>6 DEF Tidy, l
  <2> QED BY <1>1, <1>3, <2>1
<1>7. z.st[q.s].reqs = q.st[q.s].reqs /\ z.st[q.s].count = q.st[q.s].count
  BY <1>2
<1> QED BY <1>4, <1>5, <1>6, <1>7 DEF Tidy, m

LEMMA EmptyTidy == ASSUME NEW z, z.todo = <<>> PROVE Tidy(z)
<1>1. Len(z.todo) = 0
  OBVIOUS
<1>2. \A n : Rising(z.todo, n)
  BY <1>1 DEF Rising
<1>3. Closing(z.todo)
  BY <1>1 DEF Closing
<1>4. \A a, r : Later(a, r, z.todo)
  BY <1>1 DEF Later
<1>5. \A name : ~Has(z.todo, name)
  BY <1>1 DEF Has
<1> QED BY <1>1, <1>2, <1>3, <1>4, <1>5 DEF Tidy

LEMMA ExchangesSame ==
  ASSUME NEW q, NEW z, Exchanges(q), z.active \subseteq q.active,
         \A t \in StageIds : z.st[t].reqs = q.st[t].reqs /\ z.st[t].count = q.st[t].count,
         \A a \in z.active, t \in StageIds : Belongs(q, a, t) => Pending(z, t)
  PROVE  Exchanges(z)
<1>1. ASSUME NEW a \in z.active PROVE \E s \in StageIds : Belongs(z, a, s)
  <2>1. PICK s \in StageIds : Belongs(q, a, s)
    BY DEF Exchanges
  <2>2. Belongs(z, a, s)
    BY <2>1 DEF Belongs
  <2> QED BY <2>2
<1>2. Alone(z.active)
  BY DEF Exchanges, Alone
<1> QED BY <1>1, <1>2 DEF Exchanges

\* Where a process with something to do is, as far as its requests go.
LEMMA HeadWhere ==
  ASSUME PlanOK, NEW p, NEW q, ProcOK(p, q), q.todo # <<>>, Tidy(q)
  PROVE  LET name == Head(q.todo)[1]
         IN  /\ q.mode \in {"init", "run"} /\ q.s # 0 => q.s \in StageIds /\ Head(q.todo)[2] = q.s
             /\ name \in {"post", "waitall", "waitpair", "cancel", "realloc"} =>
                  q.mode \in {"init", "run"} /\ q.s \in StageIds
             /\ name = "post" => Kind(q.s) = "ipoint"
             /\ name \notin {"waitpair", "cancel"}
             /\ name = "waitall" => Kind(q.s) = IF q.mode = "init" THEN "ipoint" ELSE "wait"
             /\ name = "realloc" => q.mode = "init" /\ Kind(q.s) = "ipoint"
<1> DEFINE name == Head(q.todo)[1]
<1>1. /\ Head(q.todo) = q.todo[1]
      /\ q.mode \in {"init", "run", "ready", "config"}
      /\ q.mode = "init" => name \in InitNames /\ Head(q.todo)[2] = q.s /\ q.s \in 1 .. N /\ Calibrated(q.s)
      /\ q.mode = "run" => name \in RunNames(q.s) /\ Head(q.todo)[2] = q.s
      /\ q.mode = "ready" => name = "barrier"
      /\ q.mode = "config" => name \in SendNames
  BY HeadIs
<1>2. N \in Nat /\ StageIds = 1 .. N /\ 1 \in 1 .. Len(q.todo)
  <2>1. Len(q.todo) \in Nat \ {0}
    BY Memory, TailIs
  <2> QED BY <2>1, NStages
<1>3. q.mode \in {"init", "run"} => q.s \in 0 .. N
  BY DEF ProcOK, TodoOK
<1>4. Has(q.todo, name)
  BY <1>1, <1>2 DEF Has
<1> HIDE DEF name
<1>5. name \in {"post", "waitall", "waitpair", "cancel", "realloc"} => q.mode \in {"init", "run"}
  BY <1>1 DEF SendNames
<1>6. q.mode = "run" /\ name \in {"post", "waitall", "waitpair", "cancel", "realloc"} =>
        /\ q.s # 0 /\ name # "realloc" /\ (name = "post" => Kind(q.s) = "ipoint")
        /\ name # "post" => Kind(q.s) = "wait"
  BY <1>1 DEF RunNames, Kind
<1>7. q.mode = "init" => q.s # 0 /\ name \notin {"waitpair", "cancel"}
  BY <1>1 DEF InitNames
<1>8. q.mode = "init" /\ name \in {"post", "waitall", "realloc"} => Kind(q.s) = "ipoint"
  BY <1>4, <1>7 DEF Tidy
<1>9. q.mode = "run" => name \notin {"waitpair", "cancel"}
  <2>1. ASSUME q.mode = "run", name \in {"waitpair", "cancel"} PROVE FALSE
    <3>1. Kind(q.s) = "wait" /\ q.s # 0
      BY <1>6, <2>1
    <3>2. q.todo[1][1] \in {"waitall", "barrier"}
      BY <1>2, <2>1, <3>1 DEF Tidy
    <3> QED BY <1>1, <2>1, <3>2 DEF name
  <2> QED BY <2>1
<1>10. /\ q.mode \in {"init", "run"} /\ q.s # 0 => q.s \in StageIds /\ Head(q.todo)[2] = q.s
  BY <1>1, <1>2, <1>3
<1>11. name \in {"post", "waitall", "waitpair", "cancel", "realloc"} => q.mode \in {"init", "run"} /\ q.s \in StageIds
  BY <1>5, <1>6, <1>7, <1>10
<1>12. name \notin {"waitpair", "cancel"}
  BY <1>5, <1>7, <1>9
<1>13. name = "post" => Kind(q.s) = "ipoint"
  BY <1>5, <1>6, <1>8
<1>14. name = "waitall" => Kind(q.s) = IF q.mode = "init" THEN "ipoint" ELSE "wait"
  BY <1>5, <1>6, <1>8
<1>15. name = "realloc" => q.mode = "init" /\ Kind(q.s) = "ipoint"
  BY <1>5, <1>6, <1>8
<1> QED BY <1>10, <1>11, <1>12, <1>13, <1>14, <1>15 DEF name

\* The last item of the initialisation of an exchange asks for new requests.
LEMMA LinkingTail ==
  ASSUME PlanOK, NEW p, NEW q, ProcOK(p, q), q.todo # <<>>, Tidy(q), NEW z, z.mode = q.mode, z.s = q.s,
         z.todo = Tail(q.todo), Head(q.todo)[1] # "realloc",
         \A t \in StageIds : Kind(t) = "ipoint" /\ Linked(q, t) => z.st[t].ops = q.st[t].ops
  PROVE  Linking(q, z)
<1>1. /\ Len(z.todo) = Len(q.todo) - 1 /\ Len(q.todo) \in Nat \ {0} /\ Head(q.todo) = q.todo[1]
      /\ z.todo \in Seq(Items)
  BY Memory, TailIs
<1>2. ASSUME NEW t \in StageIds, Kind(t) \in {"ipoint", "wait"}, Linked(z, t) PROVE Linked(q, t)
  <2>1. ASSUME q.mode = "init", t = q.s, z.todo = <<>> PROVE FALSE
    <3>a. Len(z.todo) = 0
      BY <1>1, <2>1, EmptyIs
    <3>1. Len(q.todo) = 1
      BY <1>1, <3>a
    <3>2. q.s # 0
      BY <1>2, <2>1, NStages
    <3>3. CASE Kind(t) = "ipoint"
      <4>1. Closing(q.todo)
        BY <2>1, <3>2, <3>3 DEF Tidy
      <4>2. 1 \in 1 .. Len(q.todo) /\ 1 = Len(q.todo)
        BY <3>1
      <4> QED BY <1>1, <4>1, <4>2 DEF Closing
    <3>4. CASE Kind(t) = "wait"
      <4>1. Calibrated(q.s)
        BY <2>1, HeadIs
      <4> QED BY <2>1, <3>4, <4>1 DEF Calibrated, Kind
    <3> QED BY <1>2, <3>3, <3>4
  <2> QED BY <1>2, <2>1 DEF Linked
<1>3. ASSUME NEW t \in StageIds, Kind(t) = "ipoint", Linked(z, t) PROVE z.st[t].ops = q.st[t].ops
  BY <1>2, <1>3
<1>4. ASSUME NEW t \in StageIds, Reached(z, t) PROVE Reached(q, t)
  BY <1>4 DEF Reached
<1> QED BY <1>2, <1>3, <1>4 DEF Linking

\* A process drops an item that has to do with no request.
LEMMA PassKeeps ==
  ASSUME PlanOK, NEW p, NEW q, ProcOK(p, q), q.todo # <<>>, Held(q), NEW z, z.mode = q.mode, z.s = q.s,
         z.todo = Tail(q.todo), SameReqs(q, z), z.active = q.active, Head(q.todo)[1] \notin {"waitall", "realloc"},
         \A t \in StageIds : Kind(t) = "ipoint" /\ Linked(q, t) => z.st[t].ops = q.st[t].ops
  PROVE  Held(z)
<1>1. Arrays(q) /\ Links(q) /\ Exchanges(q) /\ Tidy(q)
  BY DEF Held
<1>2. \A t \in StageIds : z.st[t].reqs = q.st[t].reqs /\ z.st[t].count = q.st[t].count
  BY DEF SameReqs
<1>3. Tidy(z)
  BY <1>1, <1>2, TailTidy
<1>4. Linking(q, z)
  BY <1>1, LinkingTail
<1>5. Arrays(z) /\ Links(z)
  BY <1>1, <1>4, ArraysSame, LinksSame
<1>6. Has(q.todo, "waitall") => Has(z.todo, "waitall")
  BY Memory, HasTail
<1>7. \A t : Pending(q, t) => Pending(z, t)
  BY <1>6 DEF Pending
<1>8. Exchanges(z)
  BY <1>1, <1>2, <1>7, ExchangesSame DEF Belongs
<1> QED BY <1>3, <1>5, <1>8 DEF Held

\* A wait, for the exchanges of the stage.
Awaits(q) == {a \in q.active : a[1] = q.st[q.s].reqs /\ a[2] <= q.st[q.s].count}

LEMMA WaitKeeps ==
  ASSUME PlanOK, NEW p, NEW q, ProcOK(p, q), q.todo # <<>>, Held(q), NEW z, z.mode = q.mode, z.s = q.s,
         z.todo = Tail(q.todo), z.len = q.len, z.live = q.live, z.st = q.st,
         Head(q.todo)[1] = "waitall", z.active = q.active \ Awaits(q)
  PROVE  Held(z)
<1>1. Arrays(q) /\ Links(q) /\ Exchanges(q) /\ Tidy(q)
  BY DEF Held
<1>2. /\ q.mode \in {"init", "run"} /\ q.s \in StageIds
      /\ Kind(q.s) = IF q.mode = "init" THEN "ipoint" ELSE "wait"
  BY <1>1, HeadWhere
<1>3. Tidy(z)
  BY <1>1, TailTidy
<1>4. Linking(q, z)
  BY <1>1, LinkingTail
<1>5. SameReqs(q, z)
  BY DEF SameReqs
<1>6. Arrays(z) /\ Links(z)
  BY <1>1, <1>4, <1>5, ArraysSame, LinksSame
<1>7. ASSUME NEW a \in z.active, NEW t \in StageIds, Belongs(q, a, t) PROVE Pending(z, t)
  <2>1. ~(a[1] = q.st[q.s].reqs /\ a[2] <= q.st[q.s].count) /\ a[1] = q.st[t].reqs /\ a[2] <= q.st[t].count
        /\ Kind(t) = "ipoint" /\ Pending(q, t)
    <3>1. a[2] \in 1 .. q.st[t].count
      BY <1>7 DEF Belongs
    <3>2. a[2] <= q.st[t].count
      BY <3>1
    <3> QED BY <1>7, <3>2 DEF Awaits, Belongs
  <2>2. CASE q.mode = "init"
    <3>1. t = q.s
      BY <2>1, <2>2 DEF Pending
    <3> QED BY <2>1, <3>1
  <2>3. CASE q.mode = "run"
    <3>1. ~WaitsFor(q.s, t)
      <4>1. Linked(q, q.s)
        BY <2>3 DEF Linked
      <4>2. WaitsFor(q.s, t) => q.st[q.s].reqs = q.st[t].reqs /\ q.st[q.s].count = q.st[t].count
        BY <1>1, <1>2, <4>1 DEF Links
      <4> QED BY <2>1, <4>2
    <3>2. t <= q.s /\ \A w \in StageIds : WaitsFor(w, t) => q.s < w
      BY <2>1, <2>3, <3>1 DEF Pending
    <3> QED BY <2>3, <3>2 DEF Pending
  <2> QED BY <1>2, <2>2, <2>3
<1>8. Exchanges(z)
  BY <1>1, <1>7, ExchangesSame
<1> QED BY <1>3, <1>6, <1>8 DEF Held

\* A posted exchange.
LEMMA PostKeeps ==
  ASSUME PlanOK, ListOK, NEW p, NEW q, ProcOK(p, q), q.todo # <<>>, Held(q), NEW z, z.mode = q.mode, z.s = q.s,
         z.todo = Tail(q.todo), z.len = q.len, z.live = q.live, z.st = q.st,
         Head(q.todo)[1] = "post", NEW n,
         z.active = q.active \cup {<<q.st[q.s].reqs, Head(q.todo)[3], n>>}
  PROVE  Held(z)
<1>1. Arrays(q) /\ Links(q) /\ Exchanges(q) /\ Tidy(q)
  BY DEF Held
<1>2. q.mode \in {"init", "run"} /\ q.s \in StageIds /\ Kind(q.s) = "ipoint" /\ q.s # 0
  <2>1. q.mode \in {"init", "run"} /\ q.s \in StageIds /\ Kind(q.s) = "ipoint"
    BY <1>1, HeadWhere
  <2> QED BY <2>1, NStages
<1>3. PICK b : b = <<q.st[q.s].reqs, Head(q.todo)[3], n>>
  OBVIOUS
<1>4. b[1] = q.st[q.s].reqs /\ b[2] = Head(q.todo)[3] /\ z.active = q.active \cup {b}
  BY <1>3
<1>5. Tidy(z)
  BY <1>1, <1>4, TailTidy
<1>6. Linking(q, z)
  BY <1>1, LinkingTail
<1>7. SameReqs(q, z)
  BY DEF SameReqs
<1>8. Arrays(z) /\ Links(z)
  BY <1>1, <1>6, <1>7, ArraysSame, LinksSame
<1>9. /\ Rising(q.todo, q.st[q.s].count)
      /\ \A a \in q.active : Later(a, q.st[q.s].reqs, q.todo)
      /\ q.mode = "init" => Closing(q.todo)
  BY <1>1, <1>2 DEF Tidy
<1>10. /\ Len(q.todo) \in Nat \ {0} /\ Head(q.todo) = q.todo[1] /\ Len(z.todo) = Len(q.todo) - 1
       /\ 1 \in 1 .. Len(q.todo) /\ \A i \in 1 .. Len(z.todo) : z.todo[i] = q.todo[i + 1]
  <2>1. /\ Len(q.todo) \in Nat \ {0} /\ Head(q.todo) = q.todo[1] /\ Len(z.todo) = Len(q.todo) - 1
        /\ \A i \in 1 .. Len(z.todo) : z.todo[i] = q.todo[i + 1]
    BY Memory, TailIs
  <2> QED BY <2>1
<1>11. b[2] \in 1 .. q.st[q.s].count
  BY <1>4, <1>9, <1>10 DEF Rising
<1>12. \A a \in q.active : a[1] = b[1] => a[2] < b[2]
  BY <1>4, <1>9, <1>10 DEF Later
<1>13. Has(q.todo, "waitall") => Has(z.todo, "waitall")
  BY Memory, HasTail
<1>14. \A t : Pending(q, t) => Pending(z, t)
  BY <1>13 DEF Pending
<1>15. Pending(z, q.s)
  <2>1. CASE q.mode = "init"
    <3>1. PICK j \in 1 + 1 .. Len(q.todo) : q.todo[j][1] = "waitall"
      BY <1>9, <1>10, <2>1 DEF Closing
    <3>2. j \in 1 .. Len(q.todo)
      BY <1>10
    <3>3. Has(q.todo, "waitall")
      BY <3>1, <3>2 DEF Has
    <3> QED BY <1>13, <2>1, <3>3 DEF Pending
  <2>2. CASE q.mode = "run"
    <3>1. \A w \in StageIds : WaitsFor(w, q.s) => q.s < w
      BY <1>2, WaitAfter
    <3>2. q.s <= q.s
      BY <1>2, NStages
    <3> QED BY <2>2, <3>1, <3>2 DEF Pending
  <2> QED BY <1>2, <2>1, <2>2
<1>16. ASSUME NEW a \in z.active PROVE \E s \in StageIds : Belongs(z, a, s)
  <2>1. CASE a \in q.active
    <3>1. PICK s \in StageIds : Belongs(q, a, s)
      BY <1>1, <2>1 DEF Exchanges
    <3>2. Belongs(z, a, s)
      BY <1>14, <3>1 DEF Belongs
    <3> QED BY <3>2
  <2>2. CASE a = b
    BY <1>2, <1>4, <1>11, <1>15, <2>2 DEF Belongs
  <2> QED BY <1>4, <2>1, <2>2
<1>17. ASSUME NEW a \in z.active, NEW c \in z.active, a[1] = c[1], a[2] = c[2] PROVE a = c
  <2>1. \A e \in q.active : e[1] = b[1] => e[2] # b[2]
    <3>1. ASSUME NEW e \in q.active, e[1] = b[1], e[2] = b[2] PROVE FALSE
      <4>1. b[2] < b[2] /\ b[2] \in Int
        BY <1>11, <1>12, <3>1
      <4> QED BY <4>1
    <3> QED BY <3>1
  <2>2. a \in q.active /\ c \in q.active => a = c
    BY <1>1, <1>17 DEF Exchanges, Alone
  <2> QED BY <1>4, <1>17, <2>1, <2>2
<1>18. Exchanges(z)
  BY <1>16, <1>17 DEF Exchanges, Alone
<1> QED BY <1>5, <1>8, <1>18 DEF Held

\* Stage s has a new array of n pairs, the last one, instead of the one it had.
Renewed(q, s, n, z) ==
  /\ z.len = Append(q.len, n) /\ z.live = (q.live \ {q.st[s].reqs}) \cup {Len(q.len) + 1}
  /\ z.st[s].reqs = Len(q.len) + 1 /\ z.st[s].count = n
  /\ \A t \in StageIds \ {s} : z.st[t].reqs = q.st[t].reqs /\ z.st[t].count = q.st[t].count

LEMMA RenewedArrays ==
  ASSUME NEW q, Arrays(q), NEW s \in StageIds, Kind(s) = "ipoint", NEW n \in Nat, NEW z, Renewed(q, s, n, z)
  PROVE  Arrays(z)
<1> DEFINE a == Len(q.len) + 1
<1>1. q.len \in Seq(Nat) /\ q.live \subseteq 1 .. Len(q.len) /\ Len(q.len) \in Nat
  BY DEF Arrays
<1>2. /\ z.len = Append(q.len, n) /\ z.live = (q.live \ {q.st[s].reqs}) \cup {a}
      /\ z.st[s].reqs = a /\ z.st[s].count = n
      /\ \A t \in StageIds \ {s} : z.st[t].reqs = q.st[t].reqs /\ z.st[t].count = q.st[t].count
  BY DEF Renewed
<1>3. z.len \in Seq(Nat) /\ Len(z.len) = a /\ z.len[a] = n /\ \A i \in 1 .. Len(q.len) : z.len[i] = q.len[i]
  BY <1>1, <1>2
<1>4. a \in Nat \ {0} /\ a \notin q.live /\ q.live \subseteq 1 .. a
  BY <1>1
<1> HIDE DEF a
<1>5. z.live \subseteq 1 .. Len(z.len)
  BY <1>2, <1>3, <1>4
<1>6. ASSUME NEW t \in StageIds, Kind(t) = "ipoint", t # s, q.st[t].reqs # 0
      PROVE  /\ q.st[t].reqs \in q.live /\ q.st[t].reqs # a /\ q.st[t].reqs \in z.live
             /\ z.len[q.st[t].reqs] = q.len[q.st[t].reqs] /\ q.st[t].count = q.len[q.st[t].reqs]
  <2>1. q.st[t].reqs \in q.live /\ q.st[t].count = q.len[q.st[t].reqs]
    BY <1>6 DEF Arrays
  <2>2. q.st[t].reqs # q.st[s].reqs
    BY <1>6 DEF Arrays
  <2> QED BY <1>1, <1>2, <1>3, <1>4, <2>1, <2>2
<1>7. ASSUME NEW t \in StageIds
      PROVE  /\ Kind(t) = "ipoint" /\ z.st[t].reqs # 0 => z.st[t].reqs \in z.live /\ z.st[t].count = z.len[z.st[t].reqs]
             /\ Kind(t) \notin {"ipoint", "wait"} => z.st[t].reqs = 0
  <2>1. CASE t = s
    BY <1>2, <1>3, <2>1
  <2>2. CASE t # s
    <3>1. z.st[t].reqs = q.st[t].reqs /\ z.st[t].count = q.st[t].count
      BY <1>2, <2>2
    <3>2. Kind(t) \notin {"ipoint", "wait"} => q.st[t].reqs = 0
      BY DEF Arrays
    <3> QED BY <1>6, <2>2, <3>1, <3>2
  <2> QED BY <2>1, <2>2
<1>8. ASSUME NEW t \in StageIds, NEW u \in StageIds, Kind(t) = "ipoint", Kind(u) = "ipoint",
             z.st[t].reqs = z.st[u].reqs, z.st[t].reqs # 0
      PROVE  t = u
  <2>1. CASE t = s /\ u # s
    <3>1. q.st[u].reqs = a /\ q.st[u].reqs # 0
      BY <1>2, <1>8, <2>1
    <3> QED BY <1>6, <1>8, <2>1, <3>1
  <2>2. CASE t # s /\ u = s
    <3>1. q.st[t].reqs = a /\ q.st[t].reqs # 0
      BY <1>2, <1>8, <2>2
    <3> QED BY <1>6, <1>8, <2>2, <3>1
  <2>3. CASE t # s /\ u # s
    <3>1. q.st[t].reqs = q.st[u].reqs /\ q.st[t].reqs # 0
      BY <1>2, <1>8, <2>3
    <3> QED BY <1>8, <3>1 DEF Arrays
  <2> QED BY <2>1, <2>2, <2>3
<1>9. ASSUME NEW b \in z.live PROVE \E t \in StageIds : Kind(t) = "ipoint" /\ z.st[t].reqs = b
  <2>1. CASE b = a
    BY <1>2, <2>1
  <2>2. CASE b # a
    <3>1. b \in q.live /\ b # q.st[s].reqs
      BY <1>2, <1>9, <2>2
    <3>2. PICK t \in StageIds : Kind(t) = "ipoint" /\ q.st[t].reqs = b
      BY <3>1 DEF Arrays
    <3>3. t # s
      BY <3>1, <3>2
    <3> QED BY <1>2, <3>2, <3>3
  <2> QED BY <2>1, <2>2
<1> QED BY <1>3, <1>5, <1>7, <1>8, <1>9 DEF Arrays

LEMMA RenewedLinks ==
  ASSUME PlanOK, ListOK, NEW q, Arrays(q), Links(q), NEW s \in StageIds, Kind(s) = "ipoint", NEW n, NEW z,
         Renewed(q, s, n, z), z.mode = "init", z.s = s, z.todo = <<>> => z.st[s].ops = n,
         \A t \in StageIds : t < s => Linked(q, t) /\ Reached(q, t) /\ z.st[t].ops = q.st[t].ops
  PROVE  Links(z)
<1>0. StageIds = 1 .. N /\ N \in Nat
  BY NStages
<1>1. /\ z.st[s].reqs = Len(q.len) + 1 /\ z.st[s].count = n
      /\ \A t \in StageIds : t < s => z.st[t].reqs = q.st[t].reqs /\ z.st[t].count = q.st[t].count
  BY <1>0 DEF Renewed
<1>2. z.st[s].reqs # 0
  <2>1. Len(q.len) \in Nat
    BY DEF Arrays
  <2> QED BY <1>1, <2>1
<1>3. ASSUME NEW t \in StageIds, Kind(t) = "ipoint"
      PROVE  /\ Reached(z, t) => z.st[t].reqs # 0
             /\ Linked(z, t) => z.st[t].ops = z.st[t].count
  <2>1. CASE t = s
    <3>1. Linked(z, t) => z.todo = <<>>
      BY <1>0, <2>1 DEF Linked
    <3> QED BY <1>1, <1>2, <2>1, <3>1
  <2>2. CASE t < s
    BY <1>1, <1>3, <2>2 DEF Links
  <2>3. CASE s < t
    <3>1. ~Reached(z, t) /\ ~Linked(z, t)
      BY <1>0, <2>3 DEF Reached, Linked
    <3> QED BY <3>1
  <2> QED BY <1>0, <2>1, <2>2, <2>3
<1>4. ASSUME NEW w \in StageIds, NEW t \in StageIds, WaitsFor(w, t), Linked(z, w)
      PROVE  z.st[w].reqs = z.st[t].reqs /\ z.st[w].count = z.st[t].count
  <2>1. w # s
    BY <1>4 DEF WaitsFor
  <2>2. w < s
    BY <1>0, <1>4, <2>1 DEF Linked
  <2>3. t < w
    BY <1>4, WaitAfter
  <2>4. t < s
    BY <1>0, <2>2, <2>3
  <2>5. q.st[w].reqs = q.st[t].reqs /\ q.st[w].count = q.st[t].count
    BY <1>4, <2>2 DEF Links
  <2> QED BY <1>1, <2>2, <2>4, <2>5
<1> QED BY <1>3, <1>4 DEF Links

LEMMA NonePending ==
  ASSUME NEW q, Exchanges(q), \A s \in StageIds : Kind(s) = "ipoint" => ~Pending(q, s)
  PROVE  q.active = {}
BY DEF Exchanges, Belongs

LEMMA NoneExchanged == ASSUME NEW z, z.active = {} PROVE Exchanges(z)
BY DEF Exchanges, Alone

\* The requests of a calibration are replaced when all of them have ended.
LEMMA ReallocKeeps ==
  ASSUME PlanOK, ListOK, NEW p, NEW q, ProcOK(p, q), q.todo # <<>>, Held(q), NEW z, z.mode = q.mode, z.s = q.s,
         z.todo = Tail(q.todo), z.active = q.active, Head(q.todo)[1] = "realloc",
         Renewed(q, q.s, q.st[q.s].ops, z), \A t \in StageIds : z.st[t].ops = q.st[t].ops
  PROVE  Held(z)
<1>1. Arrays(q) /\ Links(q) /\ Exchanges(q) /\ Tidy(q)
  BY DEF Held
<1>2. q.mode = "init" /\ q.s \in StageIds /\ Kind(q.s) = "ipoint" /\ q.s # 0 /\ StageIds = 1 .. N /\ N \in Nat
  <2>1. q.mode = "init" /\ q.s \in StageIds /\ Kind(q.s) = "ipoint"
    BY <1>1, HeadWhere
  <2> QED BY <2>1, NStages
<1>3. /\ Len(q.todo) \in Nat \ {0} /\ Head(q.todo) = q.todo[1] /\ Len(z.todo) = Len(q.todo) - 1
      /\ z.todo \in Seq(Items)
  BY Memory, TailIs
<1>4. Len(q.todo) = 1
  <2>1. Closing(q.todo)
    BY <1>1, <1>2 DEF Tidy
  <2>2. 1 \in 1 .. Len(q.todo) /\ q.todo[1][1] = "realloc"
    BY <1>3
  <2> QED BY <2>1, <2>2 DEF Closing
<1>5. ~Has(q.todo, "waitall")
  BY <1>3, <1>4 DEF Has
<1>6. q.active = {}
  <2>1. \A t : ~Pending(q, t)
    BY <1>2, <1>5 DEF Pending
  <2> QED BY <1>1, <2>1, NonePending
<1>7. z.todo = <<>>
  <2>1. Len(z.todo) = 0
    BY <1>3, <1>4
  <2> QED BY <1>3, <2>1, EmptyIs
<1>8. q.st[q.s].ops \in Nat
  <2>1. Reached(q, q.s) /\ Messages(q.s)
    BY <1>2 DEF Reached, Messages, Kind
  <2> QED BY <1>2, <2>1 DEF ProcOK, DataOK
<1>9. Arrays(z)
  BY <1>1, <1>2, <1>8, RenewedArrays
<1>10. \A t \in StageIds : t < q.s => Linked(q, t) /\ Reached(q, t) /\ z.st[t].ops = q.st[t].ops
  BY <1>2 DEF Linked, Reached
<1>11. z.st[q.s].ops = q.st[q.s].ops
  BY <1>2
<1>12. Links(z)
  BY <1>1, <1>2, <1>10, <1>11, RenewedLinks
<1> QED BY <1>6, <1>7, <1>9, <1>12, EmptyTidy, NoneExchanged DEF Held
-----------------------------------------------------------------------------
(* The calls of an initialisation and of an iteration that use requests. *)

LEMMA PostsAre ==
  ASSUME NEW s, NEW n \in Nat, NEW names, "post" \in names
  PROVE  /\ Posts(s, n) \in Seq(Of(names, s)) /\ Len(Posts(s, n)) = n
         /\ \A i \in 1 .. n : Posts(s, n)[i][1] = "post" /\ Posts(s, n)[i][3] = i
<1>1. Posts(s, n) \in Seq(Of(names, s)) /\ Len(Posts(s, n)) = n /\ \A i \in 1 .. n : Posts(s, n)[i] = <<"post", s, i>>
  BY ItemIs DEF Posts
<1> QED BY <1>1

\* Posts that follow one another, with something before and after them.
LEMMA RisingIs ==
  ASSUME NEW list, Len(list) \in Nat, NEW n \in Nat, NEW d \in Nat,
         \A i \in 1 .. Len(list) : list[i][1] = "post" => i - d \in 1 .. n /\ list[i][3] = i - d
  PROVE  Rising(list, n)
<1>1. ASSUME NEW i \in 1 .. Len(list), list[i][1] = "post"
      PROVE  /\ list[i][3] \in 1 .. n
             /\ \A j \in 1 .. i - 1 : list[j][1] = "post" => list[j][3] < list[i][3]
  <2>1. list[i][3] = i - d /\ i - d \in 1 .. n
    BY <1>1
  <2>2. ASSUME NEW j \in 1 .. i - 1, list[j][1] = "post" PROVE list[j][3] < list[i][3]
    <3>1. j \in 1 .. Len(list)
      BY <1>1, <2>2
    <3>2. list[j][3] = j - d
      BY <2>2, <3>1
    <3> QED BY <2>1, <2>2, <3>2
  <2> QED BY <2>1, <2>2
<1> QED BY <1>1 DEF Rising

\* A list that joins two others.
LEMMA JoinIs ==
  ASSUME NEW S, NEW a \in Seq(S), NEW b \in Seq(S), NEW c, c = a \o b
  PROVE  /\ c \in Seq(S) /\ Len(c) = Len(a) + Len(b) /\ Len(a) \in Nat /\ Len(b) \in Nat
         /\ \A i \in 1 .. Len(a) : c[i] = a[i]
         /\ \A i \in 1 .. Len(b) : c[Len(a) + i] = b[i]
<1>1. c \in Seq(S) /\ Len(c) = Len(a) + Len(b) /\ Len(a) \in Nat /\ Len(b) \in Nat
  BY ConcatProperties
<1>2. \A i \in 1 .. Len(a) + Len(b) : c[i] = IF i <= Len(a) THEN a[i] ELSE b[i - Len(a)]
  BY ConcatProperties
<1>3. ASSUME NEW i \in 1 .. Len(a) PROVE c[i] = a[i]
  BY <1>1, <1>2, <1>3
<1>4. ASSUME NEW i \in 1 .. Len(b) PROVE c[Len(a) + i] = b[i]
  <2>1. Len(a) + i \in 1 .. Len(a) + Len(b) /\ ~(Len(a) + i <= Len(a)) /\ Len(a) + i - Len(a) = i
    BY <1>1
  <2> QED BY <1>2, <2>1
<1> QED BY <1>1, <1>3, <1>4

LEMMA IPointOrder ==
  ASSUME NEW s
  PROVE  Rising(IPointCalls(s), Calibration) /\ Closing(IPointCalls(s))
<1>a. PICK C : C = Calibration
  OBVIOUS
<1>b. PICK a : a = << <<"barrier", s, 0>> >>
  OBVIOUS
<1>c. PICK b : b = Posts(s, C)
  OBVIOUS
<1>d. PICK w : w = << <<"waitall", s, 0>> >>
  OBVIOUS
<1>e. PICK c : c = << <<"barrier", s, 1>>, <<"measure", s, 0>>, <<"bops", s, 0>>, <<"realloc", s, 0>> >>
  OBVIOUS
<1>f. PICK S : S = Of(InitNames, s)
  OBVIOUS
<1>0. C \in Nat
  BY <1>a, CalibrationIs
<1>1. a \in Seq(S) /\ Len(a) = 1 /\ a[1][1] = "barrier"
  <2>1. <<"barrier", s, 0>> \in S
    BY <1>f, ItemIs DEF InitNames
  <2>2. PICK x \in S : x = <<"barrier", s, 0>>
    BY <2>1
  <2>3. a = <<x>> /\ x[1] = "barrier"
    BY <1>b, <2>2
  <2> QED BY <2>3, Lists
<1>2. w \in Seq(S) /\ Len(w) = 1 /\ w[1][1] = "waitall"
  <2>1. <<"waitall", s, 0>> \in S
    BY <1>f, ItemIs DEF InitNames
  <2>2. PICK x \in S : x = <<"waitall", s, 0>>
    BY <2>1
  <2>3. w = <<x>> /\ x[1] = "waitall"
    BY <1>d, <2>2
  <2> QED BY <2>3, Lists
<1>3. c \in Seq(S) /\ Len(c) = 4 /\ c[4][1] = "realloc" /\ \A i \in 1 .. 3 : c[i][1] \in {"barrier", "measure", "bops"}
  <2>0. "barrier" \in InitNames /\ "measure" \in InitNames /\ "bops" \in InitNames /\ "realloc" \in InitNames
    BY DEF InitNames
  <2>1. PICK u \in S : u = <<"barrier", s, 1>>
    BY <1>f, <2>0, ItemIs
  <2>2. PICK v \in S : v = <<"measure", s, 0>>
    BY <1>f, <2>0, ItemIs
  <2>3. PICK x \in S : x = <<"bops", s, 0>>
    BY <1>f, <2>0, ItemIs
  <2>4. PICK y \in S : y = <<"realloc", s, 0>>
    BY <1>f, <2>0, ItemIs
  <2>5. c = <<u, v, x, y>>
    BY <1>e, <2>1, <2>2, <2>3, <2>4
  <2>6. c \in Seq(S) /\ Len(c) = 4 /\ c[1] = u /\ c[2] = v /\ c[3] = x /\ c[4] = y
    BY <2>5, Lists
  <2>7. u[1] = "barrier" /\ v[1] = "measure" /\ x[1] = "bops" /\ y[1] = "realloc"
    BY <2>1, <2>2, <2>3, <2>4
  <2>8. \A i \in 1 .. 3 : i = 1 \/ i = 2 \/ i = 3
    OBVIOUS
  <2> QED BY <2>6, <2>7, <2>8
<1>4. b \in Seq(S) /\ Len(b) = C /\ \A i \in 1 .. C : b[i][1] = "post" /\ b[i][3] = i
  <2>1. "post" \in InitNames
    BY DEF InitNames
  <2> QED BY <1>0, <1>c, <1>f, <2>1, PostsAre
<1>5. IPointCalls(s) = ((a \o b) \o w) \o c
  BY <1>a, <1>b, <1>c, <1>d, <1>e DEF IPointCalls
<1>s. a \in Seq(S) /\ b \in Seq(S) /\ w \in Seq(S) /\ c \in Seq(S)
  BY <1>1, <1>2, <1>3, <1>4
<1>6. PICK d : d = a \o b
  OBVIOUS
<1>7. /\ d \in Seq(S) /\ Len(d) = C + 1 /\ d[1][1] = "barrier"
      /\ \A i \in 1 .. C : d[1 + i][1] = "post" /\ d[1 + i][3] = i
  <2>1. /\ d \in Seq(S) /\ Len(d) = Len(a) + Len(b) /\ \A i \in 1 .. Len(a) : d[i] = a[i]
        /\ \A i \in 1 .. Len(b) : d[Len(a) + i] = b[i]
    BY <1>6, <1>s, JoinIs
  <2>2. 1 \in 1 .. Len(a)
    BY <1>1
  <2> QED BY <1>0, <1>1, <1>4, <2>1, <2>2
<1>8. PICK e : e = d \o w
  OBVIOUS
<1>9. /\ e \in Seq(S) /\ Len(e) = C + 2 /\ e[1][1] = "barrier" /\ e[C + 2][1] = "waitall"
      /\ \A i \in 1 .. C : e[1 + i][1] = "post" /\ e[1 + i][3] = i
  <2>1. /\ e \in Seq(S) /\ Len(e) = Len(d) + Len(w) /\ \A i \in 1 .. Len(d) : e[i] = d[i]
        /\ \A i \in 1 .. Len(w) : e[Len(d) + i] = w[i]
    <3>1. d \in Seq(S)
      BY <1>7
    <3> QED BY <1>8, <1>s, <3>1, JoinIs
  <2>2. Len(e) = C + 2 /\ e[1] = d[1] /\ e[C + 2] = w[1]
    <3>1. 1 \in 1 .. Len(d) /\ 1 \in 1 .. Len(w) /\ Len(d) + 1 = C + 2 /\ Len(d) + Len(w) = C + 2
      BY <1>0, <1>2, <1>7
    <3> QED BY <2>1, <3>1
  <2>3. \A i \in 1 .. C : 1 + i \in 1 .. Len(d)
    BY <1>0, <1>7
  <2> QED BY <1>2, <1>7, <2>1, <2>2, <2>3
<1>10. PICK l : l = IPointCalls(s)
  OBVIOUS
<1>11. l = e \o c
  BY <1>5, <1>6, <1>8, <1>10
<1>12. /\ l \in Seq(S) /\ Len(l) = C + 6 /\ l[1][1] = "barrier" /\ l[C + 2][1] = "waitall" /\ l[C + 6][1] = "realloc"
       /\ \A i \in 1 .. C : l[1 + i][1] = "post" /\ l[1 + i][3] = i
       /\ \A i \in 1 .. 3 : l[(C + 2) + i][1] \in {"barrier", "measure", "bops"}
  <2>1. /\ l \in Seq(S) /\ Len(l) = Len(e) + Len(c) /\ \A i \in 1 .. Len(e) : l[i] = e[i]
        /\ \A i \in 1 .. Len(c) : l[Len(e) + i] = c[i]
    <3>1. e \in Seq(S)
      BY <1>9
    <3> QED BY <1>11, <1>s, <3>1, JoinIs
  <2>2. 1 \in 1 .. Len(e) /\ C + 2 \in 1 .. Len(e) /\ 4 \in 1 .. Len(c) /\ Len(e) + 4 = C + 6 /\ Len(e) + Len(c) = C + 6
    BY <1>0, <1>3, <1>9
  <2>3. \A i \in 1 .. C : 1 + i \in 1 .. Len(e)
    BY <1>0, <1>9
  <2>4. \A i \in 1 .. 3 : i \in 1 .. Len(c) /\ Len(e) + i = (C + 2) + i
    BY <1>3, <1>9
  <2>5. Len(l) = C + 6 /\ l[1][1] = "barrier" /\ l[C + 2][1] = "waitall" /\ l[C + 6][1] = "realloc"
    <3>1. l[1] = e[1] /\ l[C + 2] = e[C + 2] /\ l[C + 6] = c[4]
      BY <2>1, <2>2
    <3> QED BY <1>3, <1>9, <2>1, <2>2, <3>1
  <2>6. \A i \in 1 .. C : l[1 + i][1] = "post" /\ l[1 + i][3] = i
    BY <1>9, <2>1, <2>3
  <2>7. \A i \in 1 .. 3 : l[(C + 2) + i][1] \in {"barrier", "measure", "bops"}
    BY <1>3, <2>1, <2>4
  <2> QED BY <2>1, <2>5, <2>6, <2>7
<1>13. ASSUME NEW i \in 1 .. Len(l)
       PROVE  i = 1 \/ i = C + 2 \/ i = C + 6 \/ (\E k \in 1 .. C : i = 1 + k) \/ (\E k \in 1 .. 3 : i = (C + 2) + k)
  <2>1. CASE i \in 2 .. C + 1
    <3>1. i - 1 \in 1 .. C /\ i = 1 + (i - 1)
      BY <1>0, <2>1
    <3> QED BY <3>1
  <2>2. CASE i \in C + 3 .. C + 5
    <3>1. i - (C + 2) \in 1 .. 3 /\ i = (C + 2) + (i - (C + 2))
      BY <1>0, <2>2
    <3> QED BY <3>1
  <2> QED BY <1>0, <1>12, <2>1, <2>2
<1>14. ASSUME NEW i \in 1 .. Len(l), l[i][1] = "post" PROVE i - 1 \in 1 .. C /\ l[i][3] = i - 1
  <2>1. \E k \in 1 .. C : i = 1 + k
    BY <1>12, <1>13, <1>14
  <2>2. PICK k \in 1 .. C : i = 1 + k
    BY <2>1
  <2>3. i - 1 = k
    BY <1>0, <2>2
  <2> QED BY <1>12, <2>2, <2>3
<1>15. Rising(l, C)
  <2>1. Len(l) \in Nat /\ 1 \in Nat
    BY <1>0, <1>12
  <2> QED BY <1>0, <1>14, <2>1, RisingIs
<1>16. Closing(l)
  <2>1. ASSUME NEW i \in 1 .. Len(l), l[i][1] = "post" PROVE \E j \in i + 1 .. Len(l) : l[j][1] = "waitall"
    <3>1. i - 1 \in 1 .. C
      BY <1>14, <2>1
    <3>2. C + 2 \in i + 1 .. Len(l)
      BY <1>0, <1>12, <3>1
    <3> QED BY <1>12, <3>2
  <2>2. ASSUME NEW i \in 1 .. Len(l) PROVE l[i][1] = "realloc" <=> i = Len(l)
    <3>1. ASSUME i # Len(l) PROVE l[i][1] # "realloc"
      <4>1. i # C + 6
        BY <1>12, <3>1
      <4> QED BY <1>12, <1>13, <4>1
    <3> QED BY <1>12, <3>1
  <2> QED BY <2>1, <2>2 DEF Closing
<1> QED BY <1>a, <1>10, <1>15, <1>16

\* The other initialisations have nothing to do with requests.
LEMMA OtherCalls ==
  ASSUME PlanOK, NEW s \in StageIds, Kind(s) # "ipoint"
  PROVE  ~Has(InitCalls(s), "post") /\ ~Has(InitCalls(s), "waitall") /\ ~Has(InitCalls(s), "realloc")
<1> DEFINE few == {"barrier", "p2p", "collective", "measure", "bops", "btop"}
<1>1. InitCalls(s) \in Seq(Of(few, s))
  <2>0. Kind(s) \in Kinds
    BY StageIs DEF Kind
  <2>1. ASSUME NEW k \in few, NEW i \in Nat PROVE <<k, s, i>> \in Of(few, s)
    BY ItemIs
  <2>2. PICK u \in Of(few, s) : u = <<"barrier", s, 0>>
    BY <2>1
  <2>3. PICK v \in Of(few, s) : v = <<"barrier", s, 1>>
    BY <2>1
  <2>4. PICK x \in Of(few, s) : x = <<"measure", s, 0>>
    BY <2>1
  <2>5. PICK y \in Of(few, s) : y = <<"bops", s, 0>>
    BY <2>1
  <2>6. PICK t \in Of(few, s) : t = <<"btop", s, 0>>
    BY <2>1
  <2> HIDE DEF few
  <2>7. ComputeCalls(s) = <<x, y, t>> /\ FileCalls(s) = <<u, v, x, y, t>>
    BY <2>2, <2>3, <2>4, <2>5, <2>6 DEF ComputeCalls, FileCalls
  <2>8. ComputeCalls(s) \in Seq(Of(few, s)) /\ FileCalls(s) \in Seq(Of(few, s))
    BY <2>7, Lists
  <2>9. Kind(s) \in {"point", "collective", "gather"} => CommCalls(s) \in Seq(Of(few, s))
    <3> SUFFICES ASSUME Kind(s) \in {"point", "collective", "gather"} PROVE CommCalls(s) \in Seq(Of(few, s))
      OBVIOUS
    <3>1. PICK m \in Of(few, s) : m = <<Call(s), s, 0>>
      <4>1. Call(s) \in few
        BY CallIs DEF few, Kind
      <4> QED BY <2>1, <4>1
    <3>2. PICK b : b = Times(Calibration, m)
      OBVIOUS
    <3>3. b \in Seq(Of(few, s))
      BY <3>2, TimesIs, CalibrationIs
    <3>4. PICK a : a = <<u>>
      OBVIOUS
    <3>5. PICK c : c = <<v, x, y>>
      OBVIOUS
    <3>6. a \in Seq(Of(few, s)) /\ c \in Seq(Of(few, s))
      BY <3>4, <3>5, Lists
    <3>7. CommCalls(s) = (a \o b) \o c
      BY <2>2, <2>3, <2>4, <2>5, <3>1, <3>2, <3>4, <3>5 DEF CommCalls
    <3>8. PICK d : d = a \o b
      OBVIOUS
    <3>9. d \in Seq(Of(few, s))
      BY <3>3, <3>6, <3>8, Joined
    <3> QED BY <3>6, <3>7, <3>8, <3>9, Joined
  <2>10. <<>> \in Seq(Of(few, s))
    OBVIOUS
  <2>11. Kind(s) = "wait" => ~Calibrated(s)
    BY DEF Calibrated, Kind
  <2> QED BY <2>0, <2>8, <2>9, <2>10, <2>11 DEF InitCalls, Kind, Kinds
<1> QED BY <1>1, HasNames
-----------------------------------------------------------------------------
(* The requests of a stage that is initialised. *)

Untouched(q, z) == SameReqs(q, z) /\ z.active = q.active

LEMMA UntouchedMore == ASSUME NEW q, NEW y, NEW z, Untouched(q, y), Untouched(y, z) PROVE Untouched(q, z)
BY DEF Untouched, SameReqs

LEMMA OpsUntouched ==
  ASSUME NEW q, DOMAIN q = Fields, Stored(q), NEW s \in StageIds, NEW v, NEW z, z = WithOps(q, s, v)
  PROVE  Untouched(q, z)
<1>0. DOMAIN q.st = StageIds /\ \A t \in StageIds : DOMAIN q.st[t] = Cells
  BY DEF Stored
<1>1. /\ z.len = q.len /\ z.live = q.live /\ z.active = q.active
      /\ (\A t \in StageIds \ {s} : z.st[t] = q.st[t]) /\ z.st[s] = [q.st[s] EXCEPT !.ops = v]
  BY <1>0 DEF Fields, WithOps
<1>2. z.st[s].reqs = q.st[s].reqs /\ z.st[s].count = q.st[s].count
  BY <1>0, <1>1 DEF Cells
<1>3. \A t \in StageIds : z.st[t].reqs = q.st[t].reqs /\ z.st[t].count = q.st[t].count
  BY <1>1, <1>2
<1> QED BY <1>1, <1>3 DEF Untouched, SameReqs

LEMMA GatherUntouched ==
  ASSUME NEW q, DOMAIN q = Fields, Stored(q), NEW s \in StageIds, NEW u, NEW w, NEW z, z = WithGather(q, s, u, w)
  PROVE  Untouched(q, z)
<1>0. DOMAIN q.st = StageIds /\ \A t \in StageIds : DOMAIN q.st[t] = Cells
  BY DEF Stored
<1>1. /\ z.len = q.len /\ z.live = q.live /\ z.active = q.active
      /\ (\A t \in StageIds \ {s} : z.st[t] = q.st[t]) /\ z.st[s] = [q.st[s] EXCEPT !.my = u, !.counts = w]
  BY <1>0 DEF Fields, WithGather
<1>2. z.st[s].reqs = q.st[s].reqs /\ z.st[s].count = q.st[s].count
  BY <1>0, <1>1 DEF Cells
<1>3. \A t \in StageIds : z.st[t].reqs = q.st[t].reqs /\ z.st[t].count = q.st[t].count
  BY <1>1, <1>2
<1> QED BY <1>1, <1>3 DEF Untouched, SameReqs

LEMMA DoUntouched ==
  ASSUME NEW q, DOMAIN q = Fields, NEW calls
  PROVE  Untouched(q, Do(q, calls))
BY DEF Do, Fields, Untouched, SameReqs

LEMMA BeginsUntouched ==
  ASSUME NEW q, DOMAIN q = Fields, Stored(q), NEW s \in StageIds, NEW z, StageBegins(q, s, z)
  PROVE  Untouched(q, z)
<1>1. PICK r : r = [q EXCEPT !.s = s]
  OBVIOUS
<1>2. z = WithOps(r, s, Calibration)
  BY <1>1 DEF WithOps, StageBegins
<1>3. DOMAIN r = Fields /\ r.st = q.st /\ r.len = q.len /\ r.live = q.live /\ r.active = q.active
  BY <1>1 DEF Fields
<1>4. Stored(r) /\ Untouched(q, r)
  BY <1>3 DEF Stored, Untouched, SameReqs
<1>5. Untouched(r, z)
  BY <1>2, <1>3, <1>4, OpsUntouched
<1> QED BY <1>4, <1>5, UntouchedMore

\* Old requests freed and new ones allocated.
Paired(c, u, w) == [c EXCEPT !.reqs = u, !.count = w]

LEMMA PairCell ==
  ASSUME NEW x, DOMAIN x = Fields, DOMAIN x.st = StageIds, NEW s \in StageIds, NEW u, NEW w, NEW z, z = WithReqs(x, s, u, w)
  PROVE  z.st[s] = Paired(x.st[s], u, w)
BY DEF Fields, WithReqs, Paired

LEMMA NewArray ==
  ASSUME NEW q, DOMAIN q = Fields, Stored(q), NEW s \in StageIds, NEW n, NEW z, z = Allocate(Free(q, q.st[s].reqs), s, n)
  PROVE  Renewed(q, s, n, z) /\ z.active = q.active
<1>1. PICK r : r = Free(q, q.st[s].reqs)
  OBVIOUS
<1>2. /\ DOMAIN r = Fields /\ r.st = q.st /\ r.len = q.len /\ r.active = q.active
      /\ r.live = q.live \ {q.st[s].reqs}
  BY <1>1 DEF Free, Fields
<1>3. PICK a : a = Len(r.len) + 1
  OBVIOUS
<1>4. PICK l : l = Append(r.len, n)
  OBVIOUS
<1>5. PICK v : v = r.live \cup {a}
  OBVIOUS
<1>6. z = [r EXCEPT !.len = l, !.live = v, !.st[s].reqs = a, !.st[s].count = n]
  BY Zenon, <1>1, <1>3, <1>4, <1>5 DEF Allocate
<1>7. DOMAIN r.st = StageIds /\ DOMAIN r.st[s] = Cells
  BY <1>2 DEF Stored
<1>8. /\ z.len = l /\ z.live = v /\ z.active = r.active
      /\ (\A t \in StageIds \ {s} : z.st[t] = r.st[t]) /\ z.st[s] = [r.st[s] EXCEPT !.reqs = a, !.count = n]
  <2>1. z.len = l /\ z.live = v /\ z.active = r.active
    BY <1>2, <1>6 DEF Fields
  <2>2. \A t \in StageIds \ {s} : z.st[t] = r.st[t]
    BY <1>2, <1>6, <1>7 DEF Fields
  <2>3. z.st[s] = [r.st[s] EXCEPT !.reqs = a, !.count = n]
    <3>1. PICK x : x = [r EXCEPT !.len = l, !.live = v]
      OBVIOUS
    <3>2. DOMAIN x = Fields /\ x.st = r.st
      BY <1>2, <3>1 DEF Fields
    <3>3. z = WithReqs(x, s, a, n)
      BY <1>6, <3>1 DEF WithReqs
    <3>4. DOMAIN x = Fields /\ DOMAIN x.st = StageIds /\ x.st[s] = r.st[s]
      BY <1>7, <3>2
    <3>5. z.st[s] = Paired(x.st[s], a, n)
      BY <3>3, <3>4, PairCell
    <3>6. z.st[s] = Paired(r.st[s], a, n)
      BY <3>4, <3>5
    <3> QED BY <3>6 DEF Paired
  <2> QED BY <2>1, <2>2, <2>3
<1>9. z.st[s].reqs = a /\ z.st[s].count = n
  BY <1>7, <1>8 DEF Cells
<1> QED BY Zenon, <1>2, <1>3, <1>4, <1>5, <1>8, <1>9 DEF Renewed

\* The requests of each kind of stage.
Linker(s, t) ==
  t \in StageIds /\ plan.stages[t].id = plan.stages[s].id /\ \A u \in 1 .. t - 1 : plan.stages[u].id # plan.stages[s].id
StartReqs(q, s, z) ==
  /\ z.active = q.active
  /\ Kind(s) \notin {"ipoint", "wait"} => SameReqs(q, z)
  /\ Kind(s) = "ipoint" => Renewed(q, s, IF Calibrated(s) THEN Calibration ELSE 1, z)
  /\ Kind(s) = "wait" =>
       /\ z.len = q.len /\ z.live = q.live
       /\ \A t \in StageIds \ {s} : z.st[t].reqs = q.st[t].reqs /\ z.st[t].count = q.st[t].count
       /\ \A t : Linker(s, t) => z.st[s].reqs = q.st[t].reqs /\ z.st[s].count = q.st[t].count

LEMMA InitCommReqs ==
  ASSUME NEW y, DOMAIN y = Fields, Stored(y), NEW s \in StageIds, NEW z, z = InitComm(y, s)
  PROVE  Untouched(y, z)
<1>1. (\E calls : z = Do(y, calls)) \/ z = WithOps(y, s, 1)
  BY DEF InitComm, Calibrate, WithOps
<1>2. ASSUME NEW calls, z = Do(y, calls) PROVE Untouched(y, z)
  BY <1>2, DoUntouched
<1>3. ASSUME z = WithOps(y, s, 1) PROVE Untouched(y, z)
  BY <1>3, OpsUntouched
<1> QED BY <1>1, <1>2, <1>3

LEMMA InitFileReqs ==
  ASSUME NEW y, DOMAIN y = Fields, Stored(y), NEW s \in StageIds, NEW z, z = InitFile(y, s) \/ z = InitCompute(y, s)
  PROVE  Untouched(y, z)
<1>1. (\E calls : z = Do(y, calls)) \/ (\E v : z = WithOps(y, s, v))
  <2>1. Uncalibrated(y, s) = WithOps(y, s, CeilDiv(Goal(plan.stages[s]), y.st[s].top))
    BY DEF Uncalibrated, WithOps
  <2>2. PICK u : u = Uncalibrated(y, s)
    OBVIOUS
  <2>3. \E v : u = WithOps(y, s, v)
    BY <2>1, <2>2
  <2>4. ASSUME z = InitCompute(y, s) PROVE (\E calls : z = Do(y, calls)) \/ z = u
    BY <2>2, <2>4 DEF InitCompute
  <2>5. ASSUME z = InitFile(y, s) PROVE (\E calls : z = Do(y, calls)) \/ z = u \/ z = WithOps(y, s, 1)
    <3>1. CASE plan.stages[s].bytes # 0 \/ plan.stages[s].capped
      BY <2>5, <3>1 DEF InitFile, WithOps
    <3>2. CASE ~(plan.stages[s].bytes # 0 \/ plan.stages[s].capped) /\ compute
      BY <2>5, <3>2 DEF InitFile
    <3>3. CASE ~(plan.stages[s].bytes # 0 \/ plan.stages[s].capped) /\ ~compute
      BY <2>2, <2>5, <3>3 DEF InitFile
    <3> QED BY <3>1, <3>2, <3>3
  <2> QED BY <2>3, <2>4, <2>5
<1>2. ASSUME NEW calls, z = Do(y, calls) PROVE Untouched(y, z)
  BY <1>2, DoUntouched
<1>3. ASSUME NEW v, z = WithOps(y, s, v) PROVE Untouched(y, z)
  BY <1>3, OpsUntouched
<1> QED BY <1>1, <1>2, <1>3

LEMMA LinkerIs ==
  ASSUME PlanOK, NEW s \in StageIds, NEW t, NEW u, Linker(s, t), Linker(s, u)
  PROVE  t = u
<1>1. StageIds = 1 .. N /\ N \in Nat
  BY NStages
<1>2. t \notin 1 .. u - 1 /\ u \notin 1 .. t - 1 /\ t \in 1 .. N /\ u \in 1 .. N
  BY <1>1 DEF Linker
<1> QED BY <1>1, <1>2

LEMMA StartReqsIs ==
  ASSUME PlanOK, NEW y, DOMAIN y = Fields, Stored(y), NEW s \in StageIds, NEW r, NEW z, StartOf(y, s, r, z)
  PROVE  StartReqs(y, s, z)
<1> DEFINE k == plan.stages[s].kind
<1>0. k \in Kinds
  BY StageIs
<1>1. CASE k \in {"compute", "point", "collective", "write", "read"}
  <2>1. Untouched(y, z)
    BY <1>1, InitCommReqs, InitFileReqs DEF StartOf
  <2> QED BY <1>1, <2>1 DEF StartReqs, Untouched, Kind
<1>2. CASE k = "gather"
  <2> DEFINE my == SamBlock(RealBytes(plan.stages[s]), r, numP)
             counts == [i \in 1 .. numP |-> SamBlock(RealBytes(plan.stages[s]), i - 1, numP)]
  <2>1. PICK g : g = Gather(y, s, r)
    OBVIOUS
  <2>2. g = WithGather(y, s, my, counts)
    BY <2>1 DEF Gather, WithGather
  <2>3. z = InitComm(g, s)
    BY <1>2, <2>1 DEF StartOf
  <2> HIDE DEF my, counts
  <2>4. DOMAIN g = Fields /\ Stored(g) /\ Untouched(y, g)
    BY <2>2, GatherCell, GatherUntouched
  <2>5. Untouched(g, z)
    BY <2>3, <2>4, InitCommReqs
  <2>6. Untouched(y, z)
    BY <2>4, <2>5, UntouchedMore
  <2> QED BY <1>2, <2>6 DEF StartReqs, Untouched, Kind
<1>3. CASE k = "ipoint"
  <2>0. Calibrated(s) <=> compute /\ plan.stages[s].bytes = 0
    BY <1>3 DEF Calibrated
  <2>1. PICK n : n = IF Calibrated(s) THEN Calibration ELSE 1
    OBVIOUS
  <2>2. PICK a : a = Allocate(Free(y, y.st[s].reqs), s, n)
    OBVIOUS
  <2>3. Renewed(y, s, n, a) /\ a.active = y.active
    BY <2>2, NewArray
  <2>4. DOMAIN a = Fields /\ Stored(a)
    <3>1. PICK f : f = Free(y, y.st[s].reqs)
      OBVIOUS
    <3>2. DOMAIN f = Fields /\ f.st = y.st
      BY <3>1, FreeIs
    <3>3. Stored(f)
      BY <3>2 DEF Stored
    <3>4. a = Allocate(f, s, n)
      BY <2>2, <3>1
    <3> QED BY <3>2, <3>3, <3>4, AllocateIs
  <2>5. Untouched(a, z)
    <3>1. CASE Calibrated(s)
      <4>1. \E calls : z = Do(a, calls)
        BY <1>3, <2>0, <2>1, <2>2, <3>1 DEF StartOf, InitIPoint, CalibrateAsync
      <4> QED BY <2>4, <4>1, DoUntouched
    <3>2. CASE ~Calibrated(s)
      <4>1. z = WithOps(a, s, 1)
        BY <1>3, <2>0, <2>1, <2>2, <3>2 DEF StartOf, InitIPoint, WithOps
      <4> QED BY <2>4, <4>1, OpsUntouched
    <3> QED BY <3>1, <3>2
  <2>6. Renewed(y, s, n, z) /\ z.active = y.active
    BY <2>3, <2>5 DEF Renewed, Untouched, SameReqs
  <2> QED BY <1>3, <2>1, <2>6 DEF StartReqs, Kind
<1>4. CASE k = "wait"
  <2>1. PICK t : t = CHOOSE x \in StageIds : /\ plan.stages[x].id = plan.stages[s].id
                                             /\ \A u \in 1 .. x - 1 : plan.stages[u].id # plan.stages[s].id
    OBVIOUS
  <2>2. PICK v : v = y.st[t].reqs
    OBVIOUS
  <2>3. PICK w : w = y.st[t].count
    OBVIOUS
  <2>4. z = WithReqs(y, s, v, w)
    BY Zenon, <1>4, <2>1, <2>2, <2>3 DEF StartOf, InitWait, WithReqs
  <2>5. DOMAIN y.st = StageIds /\ DOMAIN y.st[s] = Cells
    BY DEF Stored
  <2>6. /\ z.len = y.len /\ z.live = y.live /\ z.active = y.active
        /\ (\A u \in StageIds \ {s} : z.st[u] = y.st[u]) /\ z.st[s] = [y.st[s] EXCEPT !.reqs = v, !.count = w]
    BY <2>4, <2>5 DEF Fields, WithReqs
  <2>7. z.st[s].reqs = v /\ z.st[s].count = w
    BY <2>5, <2>6 DEF Cells
  <2>8. ASSUME NEW u, Linker(s, u) PROVE u = t
    <3>1. Linker(s, t)
      BY <2>1, <2>8 DEF Linker
    <3> QED BY <2>8, <3>1, LinkerIs
  <2>9. \A u : Linker(s, u) => z.st[s].reqs = y.st[u].reqs /\ z.st[s].count = y.st[u].count
    BY <2>2, <2>3, <2>7, <2>8
  <2> QED BY <1>4, <2>6, <2>9 DEF StartReqs, Kind
<1> QED BY <1>0, <1>1, <1>2, <1>3, <1>4 DEF Kinds

LEMMA InitReqs ==
  ASSUME PlanOK, NEW q, DOMAIN q = Fields, Stored(q), NEW s \in StageIds, NEW r, NEW z, z = InitStage(q, s, r, TRUE, FALSE)
  PROVE  StartReqs(q, s, z)
<1>1. PICK y : StageBegins(q, s, y)
  BY DEF StageBegins
<1>2. DOMAIN y = Fields /\ Stored(y)
  BY <1>1, BegunIs DEF Begun
<1>3. Untouched(q, y)
  BY <1>1, BeginsUntouched
<1>4. StartOf(y, s, r, z)
  BY Zenon, <1>1 DEF StageBegins, StartOf, InitStage, InitCollective, InitGather, InitWrite, InitRead
<1>5. StartReqs(y, s, z)
  BY <1>2, <1>4, StartReqsIs
<1>6. \A t : Linker(s, t) => t \in StageIds
  BY DEF Linker
<1>7. /\ y.active = q.active /\ y.len = q.len /\ y.live = q.live
      /\ \A t \in StageIds : y.st[t].reqs = q.st[t].reqs /\ y.st[t].count = q.st[t].count
  BY <1>3 DEF Untouched, SameReqs
<1>8. z.active = q.active
  BY <1>5, <1>7 DEF StartReqs
<1>9. Kind(s) \notin {"ipoint", "wait"} => SameReqs(q, z)
  BY <1>5, <1>7 DEF StartReqs, SameReqs
<1>10. Kind(s) = "ipoint" => Renewed(q, s, IF Calibrated(s) THEN Calibration ELSE 1, z)
  <2>1. PICK n : n = IF Calibrated(s) THEN Calibration ELSE 1
    OBVIOUS
  <2>2. Kind(s) = "ipoint" => Renewed(y, s, n, z)
    BY <1>5, <2>1 DEF StartReqs
  <2>3. Kind(s) = "ipoint" => Renewed(q, s, n, z)
    BY <1>7, <2>2 DEF Renewed
  <2> QED BY <2>1, <2>3
<1>11. Kind(s) = "wait" =>
         /\ z.len = q.len /\ z.live = q.live
         /\ \A t \in StageIds \ {s} : z.st[t].reqs = q.st[t].reqs /\ z.st[t].count = q.st[t].count
         /\ \A t : Linker(s, t) => z.st[s].reqs = q.st[t].reqs /\ z.st[s].count = q.st[t].count
  BY <1>5, <1>6, <1>7 DEF StartReqs
<1> QED BY <1>8, <1>9, <1>10, <1>11 DEF StartReqs

\* A stage is initialised when nothing is pending.
LEMMA InitKeeps ==
  ASSUME PlanOK, ListOK, NEW p, NEW q, ProcOK(p, q), q.todo = <<>>, q.mode = "init", q.s < N, Held(q),
         NEW s, s = q.s + 1, NEW r, NEW z, Initialised(q, s, z, r), StartReqs(q, s, z)
  PROVE  Held(z)
<1>0. N \in Nat /\ StageIds = 1 .. N
  BY NStages
<1>1. q.s \in 0 .. N /\ s \in StageIds /\ s \in Nat \ {0}
  <2>1. q.s \in 0 .. N
    BY DEF ProcOK, TodoOK
  <2> QED BY <1>0, <2>1
<1>2. Arrays(q) /\ Links(q) /\ Exchanges(q)
  BY DEF Held
<1>3. /\ z.mode = "init" /\ z.s = s /\ z.todo = InitCalls(s)
      /\ \A t \in StageIds \ {s} : z.st[t].ops = q.st[t].ops
      /\ ~Calibrated(s) => z.st[s].ops = LocalOps(s, z.st[s].top)
  BY DEF Initialised, Begun, Kept
<1>4. q.active = {}
  <2>1. ~Has(q.todo, "waitall")
    BY DEF Has
  <2>2. \A t : ~Pending(q, t)
    BY <2>1 DEF Pending
  <2> QED BY <1>2, <2>2, NonePending
<1>5. z.active = {} /\ Exchanges(z)
  BY <1>4, NoneExchanged DEF StartReqs
<1>6. \A t \in StageIds : t < s => Linked(q, t) /\ Reached(q, t) /\ z.st[t].ops = q.st[t].ops
  BY <1>0, <1>1, <1>3 DEF Linked, Reached
<1>7. ~Calibrated(s) => InitCalls(s) = <<>>
  BY <1>1, InitIs
<1>8. CASE Kind(s) = "ipoint"
  <2>1. PICK n : n = IF Calibrated(s) THEN Calibration ELSE 1
    OBVIOUS
  <2>2. n \in Nat /\ Renewed(q, s, n, z)
    BY <1>8, <2>1, CalibrationIs DEF StartReqs
  <2>3. Arrays(z)
    BY <1>1, <1>2, <1>8, <2>2, RenewedArrays
  <2>4. ~Calibrated(s) => z.st[s].ops = n
    BY <1>3, <1>8, <2>1 DEF LocalOps, UsesTop, Kind
  <2>5. Calibrated(s) => z.todo = IPointCalls(s) /\ z.todo # <<>>
    <3>1. ASSUME Calibrated(s) PROVE z.todo = IPointCalls(s) /\ z.todo # <<>>
      <4>1. InitCalls(s) = IPointCalls(s)
        BY <1>8, <3>1 DEF InitCalls, Kind
      <4>2. InitCalls(s) # <<>>
        BY <1>1, <3>1, InitIs DEF InitFacts
      <4> QED BY <1>3, <4>1, <4>2
    <3> QED BY <3>1
  <2>6. z.todo = <<>> => z.st[s].ops = n
    BY <2>4, <2>5
  <2>7. Links(z)
    BY <1>1, <1>2, <1>3, <1>6, <1>8, <2>2, <2>6, RenewedLinks
  <2>8. Tidy(z)
    <3>1. CASE Calibrated(s)
      <4>1. z.st[s].count = Calibration
        BY <2>1, <2>2, <3>1 DEF Renewed
      <4>2. Rising(z.todo, Calibration) /\ Closing(z.todo)
        BY <2>5, <3>1, IPointOrder
      <4> QED BY <1>3, <1>5, <1>8, <4>1, <4>2 DEF Tidy
    <3>2. CASE ~Calibrated(s)
      BY <1>3, <1>7, <3>2, EmptyTidy
    <3> QED BY <3>1, <3>2
  <2> QED BY <1>5, <2>3, <2>7, <2>8 DEF Held
<1>9. CASE Kind(s) = "wait"
  <2>1. /\ z.len = q.len /\ z.live = q.live
        /\ \A t \in StageIds \ {s} : z.st[t].reqs = q.st[t].reqs /\ z.st[t].count = q.st[t].count
        /\ \A t : Linker(s, t) => z.st[s].reqs = q.st[t].reqs /\ z.st[s].count = q.st[t].count
    BY <1>9 DEF StartReqs
  <2>2. Arrays(z)
    BY <1>2, <1>9, <2>1, ArraysKept
  <2>3. ASSUME NEW t \in StageIds, Kind(t) = "ipoint"
        PROVE  /\ Reached(z, t) => z.st[t].reqs # 0
               /\ Linked(z, t) => z.st[t].ops = z.st[t].count
    <3>1. t # s
      BY <1>9, <2>3
    <3>2. Reached(z, t) \/ Linked(z, t) => t < s
      BY <1>0, <1>1, <1>3, <3>1 DEF Reached, Linked
    <3> QED BY <1>2, <1>6, <2>1, <2>3, <3>1, <3>2 DEF Links
  <2>4. ASSUME NEW w \in StageIds, NEW t \in StageIds, WaitsFor(w, t), Linked(z, w)
        PROVE  z.st[w].reqs = z.st[t].reqs /\ z.st[w].count = z.st[t].count
    <3>1. t < w /\ t # s
      BY <1>9, <2>4, WaitAfter DEF WaitsFor
    <3>2. w = s \/ w < s
      BY <1>0, <1>1, <1>3, <2>4 DEF Linked
    <3>3. CASE w = s
      <4>1. Linker(s, t)
        <5>1. \A u \in 1 .. t - 1 : plan.stages[u].id # plan.stages[t].id
          BY <2>4 DEF ListOK, WaitsFor
        <5> QED BY <2>4, <3>3, <5>1 DEF Linker, WaitsFor
      <4> QED BY <2>1, <2>4, <3>1, <3>3, <4>1
    <3>4. CASE w < s
      <4>1. q.st[w].reqs = q.st[t].reqs /\ q.st[w].count = q.st[t].count
        BY <1>2, <1>6, <2>4, <3>4 DEF Links
      <4>2. w # s
        BY <1>0, <3>4
      <4> QED BY <2>1, <3>1, <4>1, <4>2
    <3> QED BY <3>2, <3>3, <3>4
  <2>5. Links(z)
    BY <2>3, <2>4 DEF Links
  <2>6. Tidy(z)
    <3>1. ~Calibrated(s)
      BY <1>9 DEF Calibrated, Kind
    <3> QED BY <1>3, <1>7, <3>1, EmptyTidy
  <2> QED BY <1>5, <2>2, <2>5, <2>6 DEF Held
<1>10. CASE Kind(s) \notin {"ipoint", "wait"}
  <2>1. SameReqs(q, z)
    BY <1>10 DEF StartReqs
  <2>2. Arrays(z)
    BY <1>2, <2>1, ArraysSame
  <2>3. ASSUME NEW t \in StageIds
        PROVE  /\ Kind(t) \in {"ipoint", "wait"} /\ Linked(z, t) => Linked(q, t)
               /\ Kind(t) = "ipoint" /\ Linked(z, t) => z.st[t].ops = q.st[t].ops
               /\ Kind(t) = "ipoint" /\ Reached(z, t) => Reached(q, t)
    <3>1. CASE t = s
      BY <1>10, <3>1
    <3>2. CASE t # s
      <4>1. Reached(z, t) \/ Linked(z, t) => t < s
        BY <1>0, <1>1, <1>3, <3>2 DEF Reached, Linked
      <4> QED BY <1>6, <4>1
    <3> QED BY <3>1, <3>2
  <2>4. Linking(q, z)
    BY <2>3 DEF Linking
  <2>5. Links(z)
    BY <1>2, <2>1, <2>4, LinksSame
  <2>6. Tidy(z)
    <3>1. ~Has(z.todo, "post") /\ ~Has(z.todo, "waitall") /\ ~Has(z.todo, "realloc")
      BY <1>1, <1>3, <1>10, OtherCalls
    <3> QED BY <1>3, <1>10, <3>1 DEF Tidy
  <2> QED BY <1>5, <2>2, <2>5, <2>6 DEF Held
<1> QED BY <1>8, <1>9, <1>10
-----------------------------------------------------------------------------
(* The requests of a rank that goes on to the next place. *)

\* The calls of an exchange and of a wait.
LEMMA RunOrder ==
  ASSUME PlanOK, NEW s \in StageIds, NEW q, q.st[s].ops \in Nat, NEW list, list = Process(q, s) \o Barrier(s)
  PROVE  /\ Kind(s) = "ipoint" => Rising(list, q.st[s].ops)
         /\ Kind(s) = "wait" /\ ~plan.stages[s].capped =>
              Has(list, "waitall") /\ \A i \in 1 .. Len(list) : list[i][1] \in {"waitall", "barrier"}
<1>1. PICK a : a = Process(q, s)
  OBVIOUS
<1>2. PICK b : b = Barrier(s)
  OBVIOUS
<1>3. list = a \o b
  BY <1>1, <1>2
<1>4. CASE Kind(s) = "ipoint"
  <2>1. PICK n \in Nat : n = q.st[s].ops
    OBVIOUS
  <2>2. a = Posts(s, n)
    BY <1>1, <1>4, <2>1 DEF Process, Kind, Limited
  <2>3. a \in Seq(Of({"post", "barrier"}, s)) /\ Len(a) = n /\ \A i \in 1 .. n : a[i][1] = "post" /\ a[i][3] = i
    BY <2>2, PostsAre
  <2>4. b \in Seq(Of({"post", "barrier"}, s)) /\ b \in Seq(Of({"barrier"}, s))
    BY <1>2, BarrierIs
  <2>5. \A i \in 1 .. Len(b) : b[i][1] # "post"
    BY <2>4, NamesIs
  <2>s. a \in Seq(Of({"post", "barrier"}, s))
    BY <2>3
  <2>6. /\ Len(list) = Len(a) + Len(b) /\ Len(a) \in Nat /\ Len(b) \in Nat
        /\ \A i \in 1 .. Len(a) : list[i] = a[i]
        /\ \A i \in 1 .. Len(b) : list[Len(a) + i] = b[i]
    BY <1>3, <2>4, <2>s, JoinIs
  <2>7. ASSUME NEW i \in 1 .. Len(list), list[i][1] = "post" PROVE i - 0 \in 1 .. n /\ list[i][3] = i - 0
    <3>1. CASE i \in 1 .. n
      BY <2>3, <2>6, <3>1
    <3>2. CASE i \notin 1 .. n
      <4>1. i - n \in 1 .. Len(b) /\ n + (i - n) = i
        BY <2>3, <2>6, <3>2
      <4>2. list[i] = b[i - n]
        BY <2>3, <2>6, <4>1
      <4> QED BY <2>5, <2>7, <4>1, <4>2
    <3> QED BY <3>1, <3>2
  <2>8. Len(list) \in Nat /\ 0 \in Nat
    BY <2>6
  <2>9. Rising(list, n)
    BY <2>7, <2>8, RisingIs
  <2> QED BY <1>4, <2>1, <2>9
<1>5. CASE Kind(s) = "wait" /\ ~plan.stages[s].capped
  <2>1. a = << <<"waitall", s, 0>> >>
    BY <1>1, <1>5 DEF Process, Kind
  <2>2. a \in Seq(Of({"waitall", "barrier"}, s))
    BY <2>1, OneName
  <2>3. Len(a) = 1 /\ a[1][1] = "waitall"
    BY <2>1
  <2>4. b \in Seq(Of({"waitall", "barrier"}, s))
    BY <1>2, BarrierIs
  <2>5. /\ list \in Seq(Of({"waitall", "barrier"}, s)) /\ Len(list) = Len(a) + Len(b) /\ Len(b) \in Nat
        /\ \A i \in 1 .. Len(a) : list[i] = a[i]
    BY <1>3, <2>2, <2>4, JoinIs
  <2>6. 1 \in 1 .. Len(list) /\ list[1][1] = "waitall"
    BY <2>3, <2>5
  <2>7. \A i \in 1 .. Len(list) : list[i][1] \in {"waitall", "barrier"}
    BY <2>5, NamesIs
  <2> QED BY <1>5, <2>6, <2>7 DEF Has
<1> QED BY <1>4, <1>5

\* A rank comes to a stage of an iteration, or to its end.
LEMMA RunKeeps ==
  ASSUME PlanOK, ListOK, NEW p, NEW q, ProcOK(p, q), q.todo = <<>>, Held(q), NEW z,
         z.st = q.st, z.len = q.len, z.live = q.live, z.active = q.active,
         \/ q.mode = "init" /\ q.s = N /\ z.mode = "run" /\ z.s = 0
         \/ q.mode = "run" /\ q.s < N /\ z.mode = "run" /\ z.s = q.s + 1 /\ z.todo = Process(q, z.s) \o Barrier(z.s)
         \/ q.mode = "run" /\ q.s = N /\ (z.mode = "ready" \/ (z.mode = "run" /\ z.s = 0))
  PROVE  Held(z)
<1>0. N \in Nat /\ StageIds = 1 .. N
  BY NStages
<1>1. Arrays(q) /\ Links(q) /\ Exchanges(q)
  BY DEF Held
<1>2. \A t \in StageIds : Linked(q, t) /\ Reached(q, t)
  BY <1>0 DEF Linked, Reached
<1>3. SameReqs(q, z) /\ Linking(q, z)
  BY <1>2 DEF SameReqs, Linking
<1>4. Arrays(z) /\ Links(z)
  BY <1>1, <1>3, ArraysSame, LinksSame
<1>5. ~Has(q.todo, "waitall")
  BY DEF Has
<1>6. ASSUME ~(q.mode = "run" /\ q.s < N) PROVE Held(z)
  <2>1. \A t \in StageIds : Kind(t) = "ipoint" => ~Pending(q, t)
    <3>1. ASSUME NEW t \in StageIds, Kind(t) = "ipoint", Pending(q, t) PROVE FALSE
      <4>1. q.mode = "run" /\ q.s = N
        BY <1>5, <1>6, <3>1 DEF Pending
      <4>2. PICK w \in StageIds : WaitsFor(w, t)
        BY <3>1 DEF ListOK
      <4>3. q.s < w
        BY <1>5, <3>1, <4>1, <4>2 DEF Pending
      <4> QED BY <1>0, <4>1, <4>3
    <3> QED BY <3>1
  <2>2. q.active = {}
    BY <1>1, <2>1, NonePending
  <2>3. Exchanges(z)
    BY <2>2, NoneExchanged
  <2>4. Tidy(z)
    BY <1>6 DEF Tidy
  <2> QED BY <1>4, <2>3, <2>4 DEF Held
<1>7. ASSUME q.mode = "run", q.s < N PROVE Held(z)
  <2>1. PICK s : s = z.s
    OBVIOUS
  <2>2. z.mode = "run" /\ s = q.s + 1 /\ z.todo = Process(q, s) \o Barrier(s)
    BY <1>0, <1>7, <2>1
  <2>3. q.s \in 0 .. N
    BY <1>7 DEF ProcOK, TodoOK
  <2>4. s \in StageIds /\ s # 0
    BY <1>0, <1>7, <2>2, <2>3
  <2>5. Messages(s) => q.st[s].ops \in Nat
    BY <1>2, <2>4 DEF ProcOK, DataOK
  <2>6. Kind(s) = "ipoint" => Rising(z.todo, q.st[s].count)
    <3>1. ASSUME Kind(s) = "ipoint" PROVE Rising(z.todo, q.st[s].count)
      <4>1. q.st[s].ops \in Nat
        BY <2>5, <3>1 DEF Messages, Kind
      <4>2. q.st[s].ops = q.st[s].count
        BY <1>1, <1>2, <2>4, <3>1 DEF Links
      <4>3. Rising(z.todo, q.st[s].ops)
        BY <2>2, <2>4, <3>1, <4>1, RunOrder
      <4> QED BY <4>2, <4>3
    <3> QED BY <3>1
  <2>7. Kind(s) = "wait" => Has(z.todo, "waitall") /\ \A i \in 1 .. Len(z.todo) : z.todo[i][1] \in {"waitall", "barrier"}
    <3>1. ASSUME Kind(s) = "wait" PROVE Has(z.todo, "waitall") /\ \A i \in 1 .. Len(z.todo) : z.todo[i][1] \in {"waitall", "barrier"}
      <4>1. q.st[s].ops \in Nat
        BY <2>5, <3>1 DEF Messages, Kind
      <4>2. ~plan.stages[s].capped
        BY <2>4, <3>1 DEF ListOK
      <4> QED BY <2>2, <2>4, <3>1, <4>1, <4>2, RunOrder
    <3> QED BY <3>1
  <2>8. ASSUME NEW a \in q.active, NEW t \in StageIds, Belongs(q, a, t) PROVE Pending(z, t) /\ t # s
    <3>1. t <= q.s /\ \A w \in StageIds : WaitsFor(w, t) => q.s < w
      BY <1>5, <1>7, <2>8 DEF Belongs, Pending
    <3>2. ASSUME NEW w \in StageIds, WaitsFor(w, t) PROVE s < w \/ (s = w /\ Has(z.todo, "waitall"))
      <4>1. q.s < w
        BY <3>1, <3>2
      <4>2. s < w \/ s = w
        BY <1>0, <2>2, <2>3, <4>1
      <4>3. s = w => Kind(s) = "wait"
        BY <3>2 DEF WaitsFor
      <4> QED BY <2>7, <4>2, <4>3
    <3>3. t <= s /\ t # s
      BY <1>0, <2>2, <2>3, <3>1
    <3> QED BY <2>1, <2>2, <3>2, <3>3 DEF Pending
  <2>9. Exchanges(z)
    BY <1>1, <2>8, ExchangesSame
  <2>10. ASSUME Kind(s) = "ipoint", NEW a \in q.active PROVE a[1] # q.st[s].reqs
    <3>1. PICK t \in StageIds : Belongs(q, a, t)
      BY <1>1, <2>10 DEF Exchanges
    <3>2. a[1] = q.st[t].reqs /\ Kind(t) = "ipoint" /\ t # s
      BY <2>8, <2>10, <3>1 DEF Belongs
    <3>3. q.st[s].reqs # 0
      BY <1>1, <1>2, <2>4, <2>10 DEF Links
    <3> QED BY <1>1, <2>4, <2>10, <3>2, <3>3 DEF Arrays
  <2>11. Tidy(z)
    <3>1. Kind(s) = "ipoint" => \A a \in z.active : Later(a, z.st[s].reqs, z.todo)
      BY <2>10 DEF Later
    <3> QED BY <2>1, <2>2, <2>6, <2>7, <3>1 DEF Tidy
  <2> QED BY <1>4, <2>9, <2>11 DEF Held
<1> QED BY <1>6, <1>7

\* The stages free every array, and nothing is pending.
LEMMA AllFreed ==
  ASSUME PlanOK, ListOK, NEW q, Held(q), Stored(q), q.mode \notin {"init", "run"}
  PROVE  /\ q.active = {}
         /\ \A a \in q.live : \E s \in Freeing(q) : q.st[s].reqs = a
         /\ \A s, t \in Freeing(q) : s # t => q.st[s].reqs # q.st[t].reqs
<1>0. StageIds = 1 .. N /\ N \in Nat
  BY NStages
<1>1. Arrays(q) /\ Exchanges(q)
  BY DEF Held
<1>2. q.active = {}
  <2>1. \A t : ~Pending(q, t)
    BY DEF Pending
  <2> QED BY <1>1, <2>1, NonePending
<1>3. ASSUME NEW a \in q.live PROVE \E s \in Freeing(q) : q.st[s].reqs = a
  <2>1. PICK s \in StageIds : Kind(s) = "ipoint" /\ q.st[s].reqs = a
    BY <1>1, <1>3 DEF Arrays
  <2>2. a # 0
    <3>1. a \in 1 .. Len(q.len)
      BY <1>1, <1>3 DEF Arrays
    <3> QED BY <3>1
  <2>3. \A t \in 1 .. s - 1 : plan.stages[t].id # plan.stages[s].id
    BY <2>1 DEF ListOK
  <2>4. s \in Freeing(q)
    BY <2>1, <2>2, <2>3 DEF Freeing, Stored
  <2> QED BY <2>1, <2>4
<1>4. \A s \in Freeing(q) : Kind(s) = "ipoint" /\ s \in StageIds /\ q.st[s].reqs # 0
  <2>1. ASSUME NEW s \in Freeing(q) PROVE Kind(s) = "ipoint" /\ s \in StageIds /\ q.st[s].reqs # 0
    <3>1. s \in StageIds /\ q.st[s].reqs # 0
      BY <2>1 DEF Freeing, Stored
    <3>2. Kind(s) \in {"ipoint", "wait"}
      BY <1>1, <3>1 DEF Arrays
    <3>3. ASSUME Kind(s) = "wait" PROVE FALSE
      <4>1. PICK t \in StageIds : WaitsFor(s, t)
        BY <3>1, <3>3 DEF ListOK
      <4>2. t < s /\ plan.stages[s].id > 0 /\ plan.stages[t].id = plan.stages[s].id
        BY <3>1, <4>1, WaitAfter DEF WaitsFor
      <4>3. t \in 1 .. s - 1
        BY <1>0, <3>1, <4>2
      <4> QED BY <2>1, <4>2, <4>3 DEF Freeing
    <3> QED BY <3>1, <3>2, <3>3
  <2> QED BY <2>1
<1>5. \A s, t \in Freeing(q) : s # t => q.st[s].reqs # q.st[t].reqs
  BY <1>1, <1>4 DEF Arrays
<1> QED BY <1>2, <1>3, <1>5

LEMMA FreeConfigIs ==
  ASSUME PlanOK, ListOK, NEW q, DOMAIN q = Fields, Stored(q), Held(q), q.mode \notin {"init", "run"}, NEW z, z = FreeConfig(q)
  PROVE  z.mode = "gone" /\ z.live = {} /\ z.active = {}
<1>1. /\ z.mode = "gone" /\ z.live = q.live \ {q.st[s].reqs : s \in Freeing(q)}
      /\ z.active = {a \in q.active : ~\E s \in Freeing(q) : a[1] = q.st[s].reqs}
  BY DEF FreeConfig, Fields
<1>2. q.active = {} /\ \A a \in q.live : \E s \in Freeing(q) : q.st[s].reqs = a
  BY AllFreed
<1> QED BY <1>1, <1>2
-----------------------------------------------------------------------------
(* The requests of a process in a collective call. *)

LEMMA TopUntouched ==
  ASSUME NEW q, DOMAIN q = Fields, Stored(q), NEW s \in StageIds, NEW v, NEW z, z = WithTop(q, s, v)
  PROVE  Untouched(q, z)
<1>0. DOMAIN q.st = StageIds /\ \A t \in StageIds : DOMAIN q.st[t] = Cells
  BY DEF Stored
<1>1. /\ z.len = q.len /\ z.live = q.live /\ z.active = q.active
      /\ (\A t \in StageIds \ {s} : z.st[t] = q.st[t]) /\ z.st[s] = [q.st[s] EXCEPT !.top = v]
  BY <1>0 DEF Fields, WithTop
<1>2. z.st[s].reqs = q.st[s].reqs /\ z.st[s].count = q.st[s].count
  BY <1>0, <1>1 DEF Cells
<1>3. \A t \in StageIds : z.st[t].reqs = q.st[t].reqs /\ z.st[t].count = q.st[t].count
  BY <1>1, <1>2
<1> QED BY <1>1, <1>3 DEF Untouched, SameReqs

LEMMA TopsNone ==
  ASSUME NEW q, DOMAIN q = Fields, NEW z, z = WithTops(q)
  PROVE  /\ z.len = q.len /\ z.live = q.live /\ z.active = q.active
         /\ \A t \in StageIds : z.st[t].reqs = 0
<1>1. PICK f : f = [t \in StageIds |-> [Blank EXCEPT !.top = Root.st[t].top]]
  OBVIOUS
<1>2. z.len = q.len /\ z.live = q.live /\ z.active = q.active /\ z.st = f
  BY <1>1 DEF Fields, WithTops
<1>3. \A t \in StageIds : f[t] = [Blank EXCEPT !.top = Root.st[t].top]
  BY <1>1
<1>4. \A v : [Blank EXCEPT !.top = v].reqs = 0
  BY DEF Blank
<1>5. \A t \in StageIds : f[t].reqs = 0
  BY <1>3, <1>4
<1> QED BY <1>2, <1>5

LEMMA AnswerReqs ==
  ASSUME Shape, Together(proc), Meeting, NEW p \in Talking, NEW q, q = proc[p], NEW z, z = After(p)
  PROVE  /\ z.len = q.len /\ z.live = q.live /\ z.active = q.active
         /\ IF TheCall[1] = "stages" /\ p \in Kids THEN \A t \in StageIds : z.st[t].reqs = 0 ELSE SameReqs(q, z)
<1>1. /\ q.todo = Root.todo /\ q.mode = Root.mode
      /\ q.todo # <<>> /\ Head(q.todo) = TheCall /\ ProcOK(p, q) /\ PlanOK
      /\ Item(p) = TheCall
  BY MeetIs DEF Shape, Meeting
<1>2. TheCall[1] \in {"bops", "btop"} => q.mode = "init" /\ TheCall[2] \in StageIds
  <2>1. /\ q.mode = "init" => q.s \in StageIds /\ Head(q.todo)[2] = q.s
        /\ Head(q.todo)[1] \in {"bops", "btop"} => q.mode = "init"
    BY <1>1, CallWhere
  <2> QED BY <1>1, <2>1
<1>3. PICK r : r = Rest(q)
  OBVIOUS
<1>4. DOMAIN r = Fields /\ r.st = q.st /\ r.len = q.len /\ r.live = q.live /\ r.active = q.active
  BY <1>1, <1>3, Memory, RestIs
<1>5. TheCall[1] \in {"bops", "btop"} => Stored(r)
  <2>1. p \in Kids => q.mode = "config"
    BY <1>1 DEF ProcOK
  <2>2. TheCall[1] \in {"bops", "btop"} => Stored(q)
    BY <1>1, <1>2, <2>1 DEF ProcOK
  <2> QED BY <1>4, <2>2 DEF Stored
<1>6. Untouched(q, r)
  BY <1>4 DEF Untouched, SameReqs
<1>7. PICK s : s = TheCall[2]
  OBVIOUS
<1>8. ASSUME Untouched(r, z), ~(TheCall[1] = "stages" /\ p \in Kids)
      PROVE  /\ z.len = q.len /\ z.live = q.live /\ z.active = q.active
             /\ IF TheCall[1] = "stages" /\ p \in Kids THEN \A t \in StageIds : z.st[t].reqs = 0 ELSE SameReqs(q, z)
  BY <1>6, <1>8, UntouchedMore DEF Untouched, SameReqs
<1>9. CASE TheCall[1] = "bops"
  <2>1. z = WithOps(r, s, Root.st[s].ops)
    BY <1>1, <1>3, <1>7, <1>9 DEF After, BcastOps, WithOps
  <2>2. Untouched(r, z)
    BY <1>2, <1>4, <1>5, <1>7, <1>9, <2>1, OpsUntouched
  <2> QED BY <1>8, <1>9, <2>2
<1>10. CASE TheCall[1] = "btop"
  <2>1. z = WithTop(r, s, Root.st[s].top)
    BY <1>1, <1>3, <1>7, <1>10 DEF After, BcastTop, WithTop
  <2>2. Untouched(r, z)
    BY <1>2, <1>4, <1>5, <1>7, <1>10, <2>1, TopUntouched
  <2> QED BY <1>8, <1>10, <2>2
<1>11. CASE TheCall[1] = "btotal"
  <2>1. (\E calls : z = Do(r, calls)) \/ z = r
    BY <1>1, <1>3, <1>11 DEF After
  <2>2. Untouched(r, r)
    BY DEF Untouched, SameReqs
  <2>3. Untouched(r, z)
    BY <1>4, <2>1, <2>2, DoUntouched
  <2> QED BY <1>8, <1>11, <2>3
<1>12. CASE TheCall[1] = "stages" /\ p \in Kids
  <2>1. z = WithTops(r)
    BY <1>1, <1>3, <1>12 DEF After, WithTops
  <2>2. z.len = r.len /\ z.live = r.live /\ z.active = r.active /\ \A t \in StageIds : z.st[t].reqs = 0
    BY <1>4, <2>1, TopsNone
  <2> QED BY <1>4, <1>12, <2>2
<1>13. CASE TheCall[1] \notin {"bops", "btop", "btotal"} /\ ~(TheCall[1] = "stages" /\ p \in Kids)
  <2>1. z = r
    BY <1>1, <1>3, <1>13 DEF After
  <2>2. Untouched(r, z)
    BY <2>1 DEF Untouched, SameReqs
  <2> QED BY <1>8, <1>13, <2>2
<1> QED BY <1>9, <1>10, <1>11, <1>12, <1>13

\* A turn of a stage limited by time is of a stage without requests.
LEMMA LapKeeps ==
  ASSUME PlanOK, NEW p, NEW q, ProcOK(p, q), q.todo # <<>>, Held(q), Head(q.todo)[1] = "btotal",
         NEW z, z.mode = q.mode, z.s = q.s, SameReqs(q, z), z.active = q.active,
         \A t \in StageIds : z.st[t].ops = q.st[t].ops
  PROVE  Held(z)
<1>1. Arrays(q) /\ Links(q) /\ Exchanges(q) /\ Tidy(q)
  BY DEF Held
<1>2. q.mode = "run" /\ q.s \in StageIds /\ Kind(q.s) \in {"point", "collective", "gather", "wait"}
  BY CallWhere DEF Kind
<1>3. Kind(q.s) # "wait"
  <2>1. ASSUME Kind(q.s) = "wait" PROVE FALSE
    <3>1. Head(q.todo) = q.todo[1] /\ 1 \in 1 .. Len(q.todo)
      <4>1. Head(q.todo) = q.todo[1] /\ Len(q.todo) \in Nat \ {0}
        BY Memory, TailIs
      <4> QED BY <4>1
    <3>2. q.s # 0
      BY <1>2, NStages
    <3>3. q.todo[1][1] \in {"waitall", "barrier"}
      BY <1>1, <1>2, <2>1, <3>1, <3>2 DEF Tidy
    <3> QED BY <3>1, <3>3
  <2> QED BY <2>1
<1>4. Linking(q, z)
  BY <1>2 DEF Linking, Linked, Reached
<1>5. Arrays(z) /\ Links(z)
  BY <1>1, <1>4, ArraysSame, LinksSame
<1>6. \A t : Pending(q, t) => Pending(z, t)
  <2>1. ASSUME NEW t, Pending(q, t) PROVE Pending(z, t)
    <3>1. \A w \in StageIds : WaitsFor(w, t) => q.s # w
      BY <1>3 DEF WaitsFor
    <3> QED BY <1>2, <2>1, <3>1 DEF Pending
  <2> QED BY <2>1
<1>7. Exchanges(z)
  BY <1>1, <1>6, ExchangesSame DEF Belongs, SameReqs
<1>8. Tidy(z)
  BY <1>2, <1>3 DEF Tidy
<1> QED BY <1>5, <1>7, <1>8 DEF Held

LEMMA AnswerKeeps ==
  ASSUME Shape, Together(proc), ListOK, Meeting, NEW p \in Talking, NEW q, q = proc[p], Req(p, q), NEW z, z = After(p)
  PROVE  Req(p, z)
<1>1. /\ q.todo = Root.todo /\ q.todo # <<>> /\ Head(q.todo) = TheCall /\ ProcOK(p, q) /\ PlanOK
      /\ TheCall[1] \in Collectives
  BY MeetIs DEF Shape
<1>2. /\ q.mode \in {"init", "run", "ready", "config"}
      /\ q.mode = "init" => q.s \in StageIds /\ TheCall[2] = q.s
      /\ TheCall[1] \in {"bops", "btop"} => q.mode = "init"
      /\ TheCall[1] = "btotal" => q.mode = "run"
      /\ TheCall[1] = "stages" => q.mode = "config"
  BY <1>1, CallWhere
<1>3. Answered(p, q, z)
  BY AnswerIs
<1>4. z.mode = q.mode /\ z.s = q.s /\ (TheCall[1] # "btotal" => z.todo = Tail(q.todo))
  BY <1>1, <1>3 DEF Answered, NextTodo
<1>5. /\ z.len = q.len /\ z.live = q.live /\ z.active = q.active
      /\ TheCall[1] = "stages" /\ p \in Kids => \A t \in StageIds : z.st[t].reqs = 0
      /\ ~(TheCall[1] = "stages" /\ p \in Kids) => SameReqs(q, z)
  BY AnswerReqs
<1>6. /\ p \in Kids => q.live = {} /\ q.active = {} /\ q.len = <<>>
      /\ (p \in Kids /\ Has(q.todo, "stages")) \/ Held(q)
  BY <1>2 DEF Req
<1>7. q.mode \in {"ready", "config"} => TheCall[1] # "btotal"
  BY <1>2
<1>8. CASE TheCall[1] = "stages" /\ p \in Kids
  <2>1. z.len = <<>> /\ z.live = {} /\ z.active = {} /\ \A t \in StageIds : z.st[t].reqs = 0
    BY <1>5, <1>6, <1>8
  <2>2. Arrays(z)
    BY <2>1 DEF Arrays
  <2>3. z.mode = "config"
    BY <1>2, <1>4, <1>8
  <2>4. Links(z)
    BY <2>3 DEF Links, Reached, Linked
  <2>5. Exchanges(z) /\ Tidy(z)
    BY <2>1, <2>3, NoneExchanged DEF Tidy
  <2> QED BY <2>1, <2>2, <2>3, <2>4, <2>5 DEF Req, Held
<1>9. CASE ~(TheCall[1] = "stages" /\ p \in Kids) /\ p \in Kids /\ Has(q.todo, "stages")
  <2>1. q.mode = "config"
    BY <1>1, <1>9 DEF ProcOK
  <2>2. z.todo = Tail(q.todo)
    BY <1>4, <1>7, <2>1
  <2>3. Has(z.todo, "stages")
    <3>1. q.todo \in Seq(Items)
      BY <1>1, Memory
    <3> QED BY <1>1, <1>9, <2>2, <3>1, HasTail
  <2> QED BY <1>4, <1>5, <1>6, <1>9, <2>1, <2>3 DEF Req
<1>10. CASE ~(TheCall[1] = "stages" /\ p \in Kids) /\ Held(q)
  <2>1. SameReqs(q, z)
    BY <1>5, <1>10
  <2>2. \A t \in StageIds : TheCall[1] # "bops" \/ t # TheCall[2] => z.st[t].ops = q.st[t].ops
    BY <1>3, <1>10 DEF Answered
  <2>3. CASE TheCall[1] = "btotal"
    <3>1. Held(z)
      BY <1>1, <1>4, <1>5, <1>10, <2>1, <2>2, <2>3, LapKeeps
    <3> QED BY <1>2, <1>4, <1>5, <1>6, <3>1 DEF Req
  <2>4. CASE TheCall[1] # "btotal"
    <3>1. ASSUME NEW t \in StageIds, Linked(q, t) PROVE z.st[t].ops = q.st[t].ops
      <4>1. ASSUME TheCall[1] = "bops", t = TheCall[2] PROVE FALSE
        <5>1. q.mode = "init" /\ t = q.s
          BY <1>2, <4>1
        <5> QED BY <1>1, <3>1, <5>1, NStages DEF Linked
      <4> QED BY <2>2, <4>1
    <3>2. TheCall[1] \notin {"waitall", "realloc"}
      BY <1>1, CollectivesAre DEF SendNames
    <3>3. Held(z)
      BY <1>1, <1>4, <1>5, <1>10, <2>1, <2>4, <3>1, <3>2, PassKeeps
    <3> QED BY <1>2, <1>4, <1>5, <1>6, <3>3 DEF Req
  <2> QED BY <2>3, <2>4
<1> QED BY <1>6, <1>8, <1>9, <1>10
-----------------------------------------------------------------------------
(* The steps of the system keep the requests. *)

\* Who is gone from the group has nothing to end.
Outside == \A p \in DOMAIN proc \ Talking : proc[p].mode # "ready"
Requested == ListOK /\ AllReq /\ Outside

LEMMA SameKinds ==
  ASSUME plan' = plan
  PROVE  /\ N' = N /\ StageIds' = StageIds /\ (ListOK' <=> ListOK) /\ \A s : Kind(s)' = Kind(s)
         /\ \A w, s : WaitsFor(w, s)' <=> WaitsFor(w, s)
<1>1. N' = N /\ StageIds' = StageIds
  BY SamePlan
<1>2. \A s : Kind(s)' = Kind(s)
  BY DEF Kind
<1>3. \A w, s : WaitsFor(w, s)' <=> WaitsFor(w, s)
  BY <1>2 DEF WaitsFor
<1>4. ListOK' <=> ListOK
  BY <1>1, <1>2, <1>3 DEF ListOK
<1> QED BY <1>1, <1>2, <1>3, <1>4

LEMMA SameHeld ==
  ASSUME plan' = plan, NEW q
  PROVE  Held(q)' <=> Held(q)
<1>1. /\ StageIds' = StageIds /\ (\A s : Kind(s)' = Kind(s))
      /\ \A w, s : WaitsFor(w, s)' <=> WaitsFor(w, s)
  BY SameKinds
<1>2. Arrays(q)' <=> Arrays(q)
  BY <1>1 DEF Arrays
<1>3. \A s : (Reached(q, s)' <=> Reached(q, s)) /\ (Linked(q, s)' <=> Linked(q, s))
  BY DEF Reached, Linked
<1>4. Links(q)' <=> Links(q)
  BY <1>1, <1>3 DEF Links
<1>5. \A s : Pending(q, s)' <=> Pending(q, s)
  BY <1>1 DEF Pending, Has
<1>6. \A a, s : Belongs(q, a, s)' <=> Belongs(q, a, s)
  BY <1>1, <1>5 DEF Belongs
<1>7. Exchanges(q)' <=> Exchanges(q)
  BY <1>1, <1>6 DEF Exchanges, Alone
<1>8. Tidy(q)' <=> Tidy(q)
  BY <1>1 DEF Tidy, Rising, Closing, Later, Has
<1> QED BY <1>2, <1>4, <1>7, <1>8 DEF Held

LEMMA SameReq ==
  ASSUME Frame, NEW p, NEW q
  PROVE  Req(p, q)' <=> Req(p, q)
<1>1. Kids' = Kids
  BY FrameTogether
<1>2. Held(q)' <=> Held(q)
  BY SameHeld DEF Frame
<1> QED BY <1>1, <1>2 DEF Req, Has

LEMMA SetReqs ==
  ASSUME Shape, Requested, NEW p \in Talking, NEW z, Set(p, z), Req(p, z)
  PROVE  Requested'
<1>1. Frame /\ proc' = [proc EXCEPT ![p] = z] /\ p \in DOMAIN proc
  BY DEF Set, Frame, Shape
<1>2. DOMAIN proc' = DOMAIN proc /\ proc'[p] = z /\ \A r \in DOMAIN proc \ {p} : proc'[r] = proc[r]
  BY <1>1
<1>3. Talking' = Talking /\ (ListOK' <=> ListOK)
  BY <1>1, FrameTogether, SameKinds DEF Frame
<1>4. ASSUME NEW r \in DOMAIN proc PROVE Req(r, proc'[r])
  BY <1>2, <1>4 DEF Requested, AllReq
<1>5. ASSUME NEW r \in DOMAIN proc' PROVE Req(r, proc[r])'
  <2>1. PICK y : y = proc'[r]
    OBVIOUS
  <2>2. Req(r, y)
    BY <1>2, <1>4, <2>1
  <2>3. Req(r, y)'
    BY <1>1, <2>2, SameReq
  <2> QED BY <2>1, <2>3
<1>6. AllReq'
  BY <1>5 DEF AllReq
<1>7. Outside'
  BY <1>2, <1>3 DEF Requested, Outside
<1> QED BY <1>3, <1>6, <1>7 DEF Requested

LEMMA HeldIs ==
  ASSUME Shape, Together(proc), Requested, NEW p \in Talking, NEW q, q = proc[p], q.mode \notin {"config", "gone"}
  PROVE  /\ PlanOK /\ ListOK /\ ProcOK(p, q) /\ DOMAIN q = Fields /\ q.todo \in Seq(Items) /\ Stored(q) /\ Held(q)
         /\ \A z : Held(z) /\ z.mode # "gone" => Req(p, z)
<1>1. PlanOK /\ ListOK /\ ProcOK(p, q) /\ Req(p, q)
  BY DEF Shape, Together, Requested, AllReq
<1>2. p \notin Kids
  BY <1>1 DEF ProcOK
<1>3. DOMAIN q = Fields /\ q.todo \in Seq(Items)
  BY <1>1, Memory
<1> QED BY <1>1, <1>2, <1>3 DEF Req, ProcOK

\* A rank with something to do alone is at work.
LEMMA AtWork ==
  ASSUME Shape, Together(proc), NEW p \in Talking, NEW q, q = proc[p],
         Head1(p) \in {"measure", "clock", "post", "realloc", "waitall", "waitpair", "cancel", "p2p"}
  PROVE  /\ q.mode \notin {"config", "gone"} /\ q.todo # <<>> /\ Item(p) = Head(q.todo) /\ Head1(p) = Head(q.todo)[1]
<1>1. ProcOK(p, proc[p])
  BY DEF Together
<1>2. q.todo # <<>> /\ Head1(p) = Head(q.todo)[1] /\ Item(p) = Head(q.todo)
  BY <1>1, Head1Is DEF Item
<1>3. ProcOK(p, q)
  BY <1>1
<1>4. q.mode \in {"init", "run", "ready", "config"} /\ (q.mode = "config" => Head(q.todo)[1] \in SendNames)
  BY <1>2, <1>3, HeadIs
<1>5. Head1(p) \notin SendNames
  BY DEF SendNames
<1> QED BY <1>2, <1>4, <1>5

LEMMA NextInitReqs ==
  ASSUME Shape, Together(proc), Requested, Sound, NEW p, NextInit(p)
  PROVE  Requested'
<1>1. p \in Talking /\ Head1(p) = "next" /\ proc[p].mode = "init"
  BY DEF NextInit, At
<1>2. PICK q : q = proc[p]
  OBVIOUS
<1>3. /\ PlanOK /\ ListOK /\ ProcOK(p, q) /\ DOMAIN q = Fields /\ Stored(q) /\ Held(q) /\ q.mode = "init"
      /\ \A z : Held(z) /\ z.mode # "gone" => Req(p, z)
  BY <1>1, <1>2, HeldIs
<1>4. q.todo = <<>> /\ q.s \in 0 .. N /\ N \in Nat /\ StageIds = 1 .. N
  <2>1. q.todo = <<>>
    BY <1>1, <1>2, <1>3, Head1Is
  <2>2. q.s \in 0 .. N
    BY <1>3 DEF ProcOK, TodoOK
  <2> QED BY <1>3, <2>1, <2>2, NStages
<1>5. CASE q.s < N
  <2>3. PICK s \in StageIds : s = q.s + 1
    BY <1>4, <1>5
  <2>1. PICK z : z = InitStage(q, q.s + 1, Rank(p), TRUE, FALSE)
    OBVIOUS
  <2>2. Set(p, z)
    <3>1. PICK opened \in Opens, garbage \in Garbage : Set(p, InitStage(q, q.s + 1, Rank(p), opened, garbage))
      BY <1>2, <1>5 DEF NextInit, N
    <3>2. InitStage(q, s, Rank(p), opened, garbage) = InitStage(q, s, Rank(p), TRUE, FALSE)
      BY <1>3, SoundInit
    <3> QED BY <2>1, <2>3, <3>1, <3>2
  <2>4. z = InitStage(q, s, Rank(p), TRUE, FALSE)
    BY <2>1, <2>3
  <2>5. Initialised(q, s, z, Rank(p))
    BY <1>3, <1>4, <2>4, InitStageIs
  <2>6. StartReqs(q, s, z)
    BY <1>3, <2>4, InitReqs
  <2>7. Held(z)
    BY <1>3, <1>4, <1>5, <2>3, <2>5, <2>6, InitKeeps
  <2>8. z.mode = "init"
    BY <1>3, <2>5 DEF Initialised, Begun
  <2> QED BY <1>1, <1>3, <2>2, <2>7, <2>8, SetReqs
<1>6. CASE ~(q.s < N)
  <2>1. PICK z : z = [q EXCEPT !.mode = "run", !.s = 0, !.todo = Barrier(0)]
    OBVIOUS
  <2>2. Set(p, z)
    BY <1>2, <1>6, <2>1 DEF NextInit, N
  <2>3. q.s = N
    BY <1>4, <1>6
  <2>4. z.mode = "run" /\ z.s = 0 /\ z.st = q.st /\ z.len = q.len /\ z.live = q.live /\ z.active = q.active
    BY <1>3, <2>1 DEF Fields
  <2>5. Held(z)
    BY <1>3, <1>4, <2>3, <2>4, RunKeeps
  <2> QED BY <1>1, <1>3, <2>2, <2>4, <2>5, SetReqs
<1> QED BY <1>5, <1>6

LEMMA NextStageReqs ==
  ASSUME Shape, Together(proc), Requested, NEW p, NextStage(p)
  PROVE  Requested'
<1>1. p \in Talking /\ Head1(p) = "next" /\ proc[p].mode = "run"
  BY DEF NextStage, At
<1>2. PICK q : q = proc[p]
  OBVIOUS
<1>3. /\ PlanOK /\ ListOK /\ ProcOK(p, q) /\ DOMAIN q = Fields /\ Held(q) /\ q.mode = "run"
      /\ \A z : Held(z) /\ z.mode # "gone" => Req(p, z)
  BY <1>1, <1>2, HeldIs
<1>4. q.todo = <<>> /\ q.s \in 0 .. N /\ N \in Nat
  <2>1. q.todo = <<>>
    BY <1>1, <1>2, <1>3, Head1Is
  <2>2. q.s \in 0 .. N
    BY <1>3 DEF ProcOK, TodoOK
  <2> QED BY <1>3, <2>1, <2>2, NStages
<1>5. CASE q.s < N
  <2>1. PICK z : z = [q EXCEPT !.s = @ + 1, !.todo = Process(q, q.s + 1) \o Barrier(q.s + 1)]
    OBVIOUS
  <2>2. Set(p, z)
    <3>1. q.s < Len(plan.stages) /\ ~(q.s = Len(plan.stages) /\ q.iter + 1 < Iters)
      BY <1>4, <1>5 DEF N
    <3> QED BY <1>2, <2>1, <3>1 DEF NextStage
  <2>3. PICK c : c = Process(q, q.s + 1) \o Barrier(q.s + 1)
    OBVIOUS
  <2>4. z = [q EXCEPT !.s = q.s + 1, !.todo = c]
    BY <1>3, <2>1, <2>3
  <2>5. /\ z.mode = "run" /\ z.s = q.s + 1 /\ z.todo = c /\ z.st = q.st /\ z.len = q.len /\ z.live = q.live
        /\ z.active = q.active
    BY <1>3, <2>4 DEF Fields
  <2>6. z.todo = Process(q, z.s) \o Barrier(z.s)
    BY <2>3, <2>5
  <2>7. Held(z)
    BY <1>3, <1>4, <1>5, <2>5, <2>6, RunKeeps
  <2> QED BY <1>1, <1>3, <2>2, <2>5, <2>7, SetReqs
<1>6. ASSUME q.s = N, NEW z, z.st = q.st, z.len = q.len, z.live = q.live, z.active = q.active,
             z.mode = "ready" \/ (z.mode = "run" /\ z.s = 0), Set(p, z)
      PROVE  Requested'
  <2>1. Held(z)
    BY <1>3, <1>4, <1>6, RunKeeps
  <2> QED BY <1>1, <1>3, <1>6, <2>1, SetReqs
<1>7. CASE q.s = N /\ q.iter + 1 < Iters
  <2>1. PICK z : z = [q EXCEPT !.s = 0, !.iter = @ + 1, !.todo = Barrier(0) \o Barrier(0)]
    OBVIOUS
  <2>2. Set(p, z)
    <3>1. ~(q.s < Len(plan.stages)) /\ q.s = Len(plan.stages) /\ q.iter + 1 < Iters
      BY <1>4, <1>7 DEF N
    <3> QED BY <1>2, <2>1, <3>1 DEF NextStage
  <2>3. z.mode = "run" /\ z.s = 0 /\ z.st = q.st /\ z.len = q.len /\ z.live = q.live /\ z.active = q.active
    BY <1>3, <2>1 DEF Fields
  <2> QED BY <1>6, <1>7, <2>2, <2>3
<1>8. CASE q.s = N /\ ~(q.iter + 1 < Iters)
  <2>1. PICK z : z = [q EXCEPT !.mode = "ready", !.s = 0, !.todo = Barrier(0)]
    OBVIOUS
  <2>2. Set(p, z)
    <3>1. ~(q.s < Len(plan.stages)) /\ ~(q.s = Len(plan.stages) /\ q.iter + 1 < Iters)
      BY <1>4, <1>8 DEF N
    <3> QED BY <1>2, <2>1, <3>1 DEF NextStage
  <2>3. z.mode = "ready" /\ z.st = q.st /\ z.len = q.len /\ z.live = q.live /\ z.active = q.active
    BY <1>3, <2>1 DEF Fields
  <2> QED BY <1>6, <1>8, <2>2, <2>3
<1>9. q.s < N \/ q.s = N
  BY <1>4
<1> QED BY <1>5, <1>7, <1>8, <1>9

LEMMA FinishReqs ==
  ASSUME Shape, Together(proc), Requested, NEW p, Finish(p)
  PROVE  Requested'
<1>1. p \in Talking /\ proc[p].mode = "ready" /\ Set(p, FreeConfig(proc[p]))
  BY DEF Finish, At
<1>2. PICK q : q = proc[p]
  OBVIOUS
<1>3. /\ PlanOK /\ ListOK /\ ProcOK(p, q) /\ DOMAIN q = Fields /\ Stored(q) /\ Held(q)
  BY <1>1, <1>2, HeldIs
<1>4. PICK z : z = FreeConfig(q)
  OBVIOUS
<1>5. z.mode = "gone" /\ z.live = {} /\ z.active = {}
  BY <1>1, <1>2, <1>3, <1>4, FreeConfigIs
<1>6. Req(p, z)
  BY <1>5 DEF Req
<1> QED BY <1>1, <1>2, <1>4, <1>6, SetReqs

LEMMA MeasureReqs ==
  ASSUME Shape, Together(proc), Requested, NEW p, Measure(p)
  PROVE  Requested'
<1>1. p \in Talking /\ Head1(p) = "measure"
  BY DEF Measure, At
<1>2. PICK q : q = proc[p]
  OBVIOUS
<1>3. /\ PlanOK /\ ProcOK(p, q) /\ DOMAIN q = Fields /\ q.todo # <<>> /\ Stored(q) /\ Held(q)
      /\ Item(p) = Head(q.todo) /\ Head(q.todo)[1] = "measure" /\ q.mode # "gone"
      /\ \A z : Held(z) /\ z.mode # "gone" => Req(p, z)
  BY <1>1, <1>2, AtWork, HeldIs
<1>4. PICK s : s = Head(q.todo)[2]
  OBVIOUS
<1>5. q.mode = "init" /\ s = q.s /\ s \in StageIds
  BY <1>3, <1>4, InitHead
<1>6. PICK r : r = Rest(q)
  OBVIOUS
<1>7. /\ DOMAIN r = Fields /\ r.todo = Tail(q.todo) /\ r.st = q.st /\ r.mode = q.mode /\ r.s = q.s
      /\ r.live = q.live /\ r.len = q.len /\ r.active = q.active
  BY <1>3, <1>6, RestIs
<1>8. \/ Set(p, r)
      \/ \E c \in Costs : Set(p, [r EXCEPT !.st[s].top = c, !.st[s].ops = CeilDiv(Goal(plan.stages[s]), c)])
  BY Zenon, <1>2, <1>3, <1>4, <1>6 DEF Measure
<1>9. CASE Set(p, r)
  <2>1. SameReqs(q, r)
    BY <1>7 DEF SameReqs
  <2>2. Held(r)
    BY <1>3, <1>7, <2>1, PassKeeps
  <2> QED BY <1>1, <1>3, <1>7, <1>9, <2>2, SetReqs
<1>10. ASSUME NEW c \in Costs,
              Set(p, [r EXCEPT !.st[s].top = c, !.st[s].ops = CeilDiv(Goal(plan.stages[s]), c)])
       PROVE  Requested'
  <2>1. PICK d : d = CeilDiv(Goal(plan.stages[s]), c)
    OBVIOUS
  <2>2. PICK z : z = [r EXCEPT !.st[s].top = c, !.st[s].ops = d]
    OBVIOUS
  <2>3. Set(p, z)
    BY <1>10, <2>1, <2>2
  <2>4. Stored(r)
    BY <1>3, <1>7 DEF Stored
  <2>5. /\ z.mode = r.mode /\ z.s = r.s /\ z.todo = r.todo /\ z.live = r.live /\ z.len = r.len /\ z.active = r.active
        /\ (\A t \in StageIds \ {s} : z.st[t] = r.st[t]) /\ z.st[s] = [r.st[s] EXCEPT !.top = c, !.ops = d]
    <3>1. DOMAIN r.st = StageIds
      BY <2>4 DEF Stored
    <3> QED BY <1>5, <1>7, <2>2, <3>1 DEF Fields
  <2>6. z.st[s].reqs = r.st[s].reqs /\ z.st[s].count = r.st[s].count
    <3>1. DOMAIN r.st[s] = Cells
      BY <1>5, <2>4 DEF Stored
    <3> QED BY <2>5, <3>1 DEF Cells
  <2>7. SameReqs(q, z)
    BY <1>7, <2>5, <2>6 DEF SameReqs
  <2>8. ~Linked(q, s)
    <3>1. q.s \in Int
      BY <1>3, <1>5, NStages
    <3> QED BY <1>3, <1>5, <3>1 DEF Linked
  <2>9. \A t \in StageIds : Kind(t) = "ipoint" /\ Linked(q, t) => z.st[t].ops = q.st[t].ops
    BY <1>7, <2>5, <2>8
  <2>10. z.mode = q.mode /\ z.s = q.s /\ z.todo = Tail(q.todo) /\ z.active = q.active
    BY <1>7, <2>5
  <2>11. Held(z)
    BY <1>3, <2>7, <2>9, <2>10, PassKeeps
  <2> QED BY <1>1, <1>3, <2>3, <2>10, <2>11, SetReqs
<1> QED BY <1>8, <1>9, <1>10

LEMMA ClockReqs ==
  ASSUME Shape, Together(proc), Requested, NEW p, Clock(p)
  PROVE  Requested'
<1>1. p \in Talking /\ Head1(p) = "clock"
  BY DEF Clock, At
<1>2. PICK q : q = proc[p]
  OBVIOUS
<1>3. /\ PlanOK /\ ProcOK(p, q) /\ DOMAIN q = Fields /\ q.todo # <<>> /\ Held(q)
      /\ Head(q.todo)[1] = "clock" /\ q.mode # "gone"
      /\ \A z : Held(z) /\ z.mode # "gone" => Req(p, z)
  BY <1>1, <1>2, AtWork, HeldIs
<1>4. PICK r : r = Rest(q)
  OBVIOUS
<1>5. /\ DOMAIN r = Fields /\ r.todo = Tail(q.todo) /\ r.st = q.st /\ r.mode = q.mode /\ r.s = q.s
      /\ r.live = q.live /\ r.len = q.len /\ r.active = q.active
  BY <1>3, <1>4, RestIs
<1>6. PICK late : Set(p, [r EXCEPT !.late = late])
  BY <1>2, <1>4 DEF Clock
<1>7. PICK z : z = [r EXCEPT !.late = late]
  OBVIOUS
<1>8. /\ z.todo = Tail(q.todo) /\ z.st = q.st /\ z.mode = q.mode /\ z.s = q.s
      /\ z.live = q.live /\ z.len = q.len /\ z.active = q.active
  BY <1>5, <1>7 DEF Fields
<1>9. SameReqs(q, z)
  BY <1>8 DEF SameReqs
<1>10. Held(z)
  BY <1>3, <1>8, <1>9, PassKeeps
<1> QED BY <1>1, <1>3, <1>6, <1>7, <1>8, <1>10, SetReqs

LEMMA PostReqs ==
  ASSUME Shape, Together(proc), Requested, NEW p, Post(p)
  PROVE  Requested'
<1>1. p \in Talking /\ Head1(p) = "post"
  BY DEF Post, At
<1>2. PICK q : q = proc[p]
  OBVIOUS
<1>3. /\ PlanOK /\ ListOK /\ ProcOK(p, q) /\ DOMAIN q = Fields /\ q.todo # <<>> /\ Held(q)
      /\ Item(p) = Head(q.todo) /\ Head(q.todo)[1] = "post" /\ q.mode # "gone"
      /\ \A z : Held(z) /\ z.mode # "gone" => Req(p, z)
  BY <1>1, <1>2, AtWork, HeldIs
<1>4. Head(q.todo)[2] = q.s
  <2>1. Tidy(q)
    BY <1>3 DEF Held
  <2>2. q.mode \in {"init", "run"} /\ q.s \in StageIds
    BY <1>3, <2>1, HeadWhere
  <2>3. q.s # 0
    BY <1>3, <2>2, NStages
  <2> QED BY <1>3, <2>1, <2>2, <2>3, HeadWhere
<1>5. PICK r : r = Rest(q)
  OBVIOUS
<1>6. /\ DOMAIN r = Fields /\ r.todo = Tail(q.todo) /\ r.st = q.st /\ r.mode = q.mode /\ r.s = q.s
      /\ r.live = q.live /\ r.len = q.len /\ r.active = q.active
  BY <1>3, <1>5, RestIs
<1>7. PICK n : n = q.posted + 1
  OBVIOUS
<1>8. PICK set : set = q.active \cup {<<q.st[q.s].reqs, Head(q.todo)[3], n>>}
  OBVIOUS
<1>9. PICK z : z = [r EXCEPT !.posted = n, !.active = set]
  OBVIOUS
<1>10. Set(p, z)
  <2>1. Set(p, [Rest(q) EXCEPT !.posted = q.posted + 1,
                               !.active = @ \cup {<<q.st[Item(p)[2]].reqs, Item(p)[3], q.posted + 1>>}])
    BY <1>2 DEF Post
  <2>2. Set(p, [r EXCEPT !.posted = n, !.active = r.active \cup {<<q.st[q.s].reqs, Head(q.todo)[3], n>>}])
    BY <1>3, <1>4, <1>5, <1>7, <2>1
  <2> QED BY <1>6, <1>8, <1>9, <2>2
<1>11. /\ z.todo = Tail(q.todo) /\ z.st = q.st /\ z.mode = q.mode /\ z.s = q.s
       /\ z.live = q.live /\ z.len = q.len /\ z.active = set
  BY <1>6, <1>9 DEF Fields
<1>12. z.active = q.active \cup {<<q.st[q.s].reqs, Head(q.todo)[3], n>>}
  BY <1>8, <1>11
<1>13. Held(z)
  BY <1>3, <1>11, <1>12, PostKeeps
<1> QED BY <1>1, <1>3, <1>10, <1>11, <1>13, SetReqs

LEMMA ReallocateReqs ==
  ASSUME Shape, Together(proc), Requested, NEW p, Reallocate(p)
  PROVE  Requested'
<1>1. p \in Talking /\ Head1(p) = "realloc"
  BY DEF Reallocate, At
<1>2. PICK q : q = proc[p]
  OBVIOUS
<1>3. /\ PlanOK /\ ListOK /\ ProcOK(p, q) /\ DOMAIN q = Fields /\ q.todo # <<>> /\ Stored(q) /\ Held(q)
      /\ Item(p) = Head(q.todo) /\ Head(q.todo)[1] = "realloc" /\ q.mode # "gone"
      /\ \A z : Held(z) /\ z.mode # "gone" => Req(p, z)
  BY <1>1, <1>2, AtWork, HeldIs
<1>4. PICK s : s = q.s
  OBVIOUS
<1>5. s = Head(q.todo)[2] /\ s \in StageIds
  BY <1>3, <1>4, InitHead
<1>6. PICK r : r = Rest(q)
  OBVIOUS
<1>7. /\ DOMAIN r = Fields /\ r.todo = Tail(q.todo) /\ r.st = q.st /\ r.mode = q.mode /\ r.s = q.s
      /\ r.live = q.live /\ r.len = q.len /\ r.active = q.active
  BY <1>3, <1>6, RestIs
<1>8. Stored(r)
  BY <1>3, <1>7 DEF Stored
<1>9. PICK f : f = Free(r, r.st[s].reqs)
  OBVIOUS
<1>10. /\ DOMAIN f = Fields /\ f.st = r.st /\ f.todo = r.todo /\ f.mode = r.mode /\ f.s = r.s
  BY <1>7, <1>9, FreeIs
<1>11. PICK n : n = q.st[s].ops
  OBVIOUS
<1>12. PICK z : z = Allocate(f, s, n)
  OBVIOUS
<1>13. Set(p, z)
  <2>1. Set(p, Allocate(Free(r, q.st[s].reqs), s, Free(r, q.st[s].reqs).st[s].ops))
    BY Zenon, <1>2, <1>3, <1>5, <1>6 DEF Reallocate
  <2>2. Set(p, Allocate(f, s, f.st[s].ops))
    BY <1>7, <1>9, <2>1
  <2> QED BY <1>7, <1>10, <1>11, <1>12, <2>2
<1>14. Renewed(r, s, n, z) /\ z.active = r.active
  <2>1. z = Allocate(Free(r, r.st[s].reqs), s, n)
    BY <1>9, <1>12
  <2> QED BY <1>5, <1>7, <1>8, <2>1, NewArray
<1>15. Renewed(q, s, n, z)
  BY <1>7, <1>14 DEF Renewed
<1>16. Stored(f)
  BY <1>8, <1>10 DEF Stored
<1>17. z.mode = f.mode /\ z.s = f.s /\ z.todo = f.todo /\ \A t \in StageIds : z.st[t].ops = f.st[t].ops
  BY <1>5, <1>10, <1>12, <1>16, AllocateIs
<1>18. /\ z.mode = q.mode /\ z.s = q.s /\ z.todo = Tail(q.todo) /\ z.active = q.active
       /\ \A t \in StageIds : z.st[t].ops = q.st[t].ops
  BY <1>7, <1>10, <1>14, <1>17
<1>19. Renewed(q, q.s, q.st[q.s].ops, z)
  BY <1>4, <1>11, <1>15
<1>20. Held(z)
  BY <1>3, <1>18, <1>19, ReallocKeeps
<1> QED BY <1>1, <1>3, <1>13, <1>18, <1>20, SetReqs

LEMMA WaitReqs ==
  ASSUME Shape, Together(proc), Requested, NEW p \in DOMAIN proc, Wait(p)
  PROVE  Requested'
<1>1. Head1(p) \in {"waitall", "waitpair", "cancel"}
  BY DEF Wait
<1>2. p \in Talking
  <2>1. ASSUME p \notin Talking PROVE FALSE
    <3>1. proc[p].todo = <<>>
      BY <2>1 DEF Shape
    <3> QED BY <1>1, <3>1 DEF Head1
  <2> QED BY <2>1
<1>3. PICK q : q = proc[p]
  OBVIOUS
<1>4. /\ PlanOK /\ ProcOK(p, q) /\ DOMAIN q = Fields /\ q.todo # <<>> /\ Held(q)
      /\ Item(p) = Head(q.todo) /\ Head1(p) = Head(q.todo)[1] /\ q.mode # "gone"
      /\ \A z : Held(z) /\ z.mode # "gone" => Req(p, z)
  BY <1>1, <1>2, <1>3, AtWork, HeldIs
<1>5. Head(q.todo)[1] = "waitall" /\ Head(q.todo)[2] = q.s
  <2>1. Tidy(q)
    BY <1>4 DEF Held
  <2>2. Head(q.todo)[1] \notin {"waitpair", "cancel"}
    BY <1>4, <2>1, HeadWhere
  <2>3. Head(q.todo)[1] = "waitall"
    BY <1>1, <1>4, <2>2
  <2>4. q.mode \in {"init", "run"} /\ q.s \in StageIds
    BY <1>4, <2>1, <2>3, HeadWhere
  <2>5. q.s # 0
    BY <1>4, <2>4, NStages
  <2> QED BY <1>4, <2>1, <2>3, <2>4, <2>5, HeadWhere
<1>6. Awaited(p) = Awaits(q)
  BY <1>3, <1>4, <1>5 DEF Awaited, Awaits
<1>7. PICK r : r = Rest(q)
  OBVIOUS
<1>8. /\ DOMAIN r = Fields /\ r.todo = Tail(q.todo) /\ r.st = q.st /\ r.mode = q.mode /\ r.s = q.s
      /\ r.live = q.live /\ r.len = q.len /\ r.active = q.active
  BY <1>4, <1>7, RestIs
<1>9. PICK set : set = r.active \ Awaited(p)
  OBVIOUS
<1>10. PICK z : z = [r EXCEPT !.active = set]
  OBVIOUS
<1>11. Set(p, z)
  BY <1>3, <1>7, <1>9, <1>10 DEF Wait
<1>12. /\ z.todo = Tail(q.todo) /\ z.st = q.st /\ z.mode = q.mode /\ z.s = q.s
       /\ z.live = q.live /\ z.len = q.len /\ z.active = q.active \ Awaits(q)
  BY <1>6, <1>8, <1>9, <1>10 DEF Fields
<1>13. Held(z)
  BY <1>4, <1>5, <1>12, WaitKeeps
<1> QED BY <1>2, <1>4, <1>11, <1>12, <1>13, SetReqs

\* The requests when several processes move.
LEMMA AllReqs ==
  ASSUME Shape, Requested, Frame, NEW n, proc' = n, DOMAIN n = DOMAIN proc,
         \A r \in DOMAIN proc \ Talking : n[r] = proc[r], \A r \in Talking : Req(r, n[r])
  PROVE  Requested'
<1>1. Talking' = Talking /\ (ListOK' <=> ListOK)
  BY FrameTogether, SameKinds DEF Frame
<1>2. ASSUME NEW r \in DOMAIN proc PROVE Req(r, n[r])
  BY <1>2 DEF Requested, AllReq
<1>3. ASSUME NEW r \in DOMAIN proc' PROVE Req(r, proc[r])'
  <2>1. PICK y : y = proc'[r]
    OBVIOUS
  <2>2. Req(r, y)
    BY <1>2, <2>1
  <2>3. Req(r, y)'
    BY <2>2, SameReq
  <2> QED BY <2>1, <2>3
<1>4. AllReq'
  BY <1>3 DEF AllReq
<1>5. Outside'
  BY <1>1 DEF Requested, Outside
<1> QED BY <1>1, <1>4, <1>5 DEF Requested

LEMMA ExchangeReqs ==
  ASSUME Shape, Together(proc), Requested, NEW p, Exchange(p)
  PROVE  Requested'
<1>1. PICK q : q = Partner(p)
  OBVIOUS
<1>2. Head1(p) = "p2p" /\ Head1(q) = "p2p" /\ Frame
  BY <1>1 DEF Exchange, At, Frame
<1>3. PICK n : n = [r \in DOMAIN proc |-> IF r \in {p, q} THEN Rest(proc[r]) ELSE proc[r]]
  OBVIOUS
<1>4. proc' = n
  BY <1>1, <1>3 DEF Exchange
<1>5. DOMAIN n = DOMAIN proc /\ \A r \in DOMAIN proc : n[r] = IF r \in {p, q} THEN Rest(proc[r]) ELSE proc[r]
  BY <1>3
<1>6. ASSUME NEW r \in DOMAIN proc \ Talking PROVE n[r] = proc[r]
  <2>1. proc[r].todo = <<>>
    BY DEF Shape
  <2>2. Head1(r) = "next"
    BY <2>1 DEF Head1
  <2> QED BY <1>2, <1>5, <2>2
<1>7. ASSUME NEW r \in Talking PROVE Req(r, n[r])
  <2>0. r \in DOMAIN proc /\ Req(r, proc[r])
    BY DEF Shape, Requested, AllReq
  <2>1. CASE r \notin {p, q}
    BY <1>5, <2>0, <2>1
  <2>2. CASE r \in {p, q}
    <3>1. Head1(r) = "p2p"
      BY <1>2, <2>2
    <3>2. PICK x : x = proc[r]
      OBVIOUS
    <3>3. /\ PlanOK /\ ProcOK(r, x) /\ DOMAIN x = Fields /\ x.todo # <<>> /\ Held(x)
          /\ Head(x.todo)[1] = "p2p" /\ x.mode # "gone"
          /\ \A z : Held(z) /\ z.mode # "gone" => Req(r, z)
      BY <3>1, <3>2, AtWork, HeldIs
    <3>4. PICK z : z = Rest(x)
      OBVIOUS
    <3>5. /\ z.todo = Tail(x.todo) /\ z.st = x.st /\ z.mode = x.mode /\ z.s = x.s
          /\ z.live = x.live /\ z.len = x.len /\ z.active = x.active
      BY <3>3, <3>4, RestIs
    <3>6. SameReqs(x, z)
      BY <3>5 DEF SameReqs
    <3>7. Held(z)
      BY <3>3, <3>5, <3>6, PassKeeps
    <3>8. n[r] = z
      BY <1>5, <2>0, <2>2, <3>2, <3>4
    <3> QED BY <3>3, <3>5, <3>7, <3>8
  <2> QED BY <2>1, <2>2
<1> QED BY <1>2, <1>4, <1>5, <1>6, <1>7, AllReqs

LEMMA CollectiveReqs ==
  ASSUME Shape, Together(proc), Requested, Collective
  PROVE  Requested'
<1>1. Meeting /\ Frame /\ Talking \subseteq DOMAIN proc /\ ListOK
  BY DEF Collective, Meeting, TheCall, Frame, Shape, Requested
<1>2. PICK n : n = [p \in DOMAIN proc |-> IF p \in Talking THEN After(p) ELSE proc[p]]
  OBVIOUS
<1>3. proc' = n
  BY <1>2 DEF Collective
<1>4. DOMAIN n = DOMAIN proc /\ (\A p \in Talking : n[p] = After(p)) /\ \A p \in DOMAIN proc \ Talking : n[p] = proc[p]
  BY <1>1, <1>2
<1>5. ASSUME NEW p \in Talking PROVE Req(p, n[p])
  <2>1. PICK q : q = proc[p]
    OBVIOUS
  <2>2. PICK z : z = After(p)
    OBVIOUS
  <2>3. Req(p, q)
    BY <1>1, <2>1 DEF Requested, AllReq
  <2>4. Req(p, z)
    BY <1>1, <2>1, <2>2, <2>3, AnswerKeeps
  <2> QED BY <1>4, <2>2, <2>4
<1> QED BY <1>1, <1>3, <1>4, <1>5, AllReqs

LEMMA StepReqs ==
  ASSUME Shape, Together(proc), Requested, Sound, NEW p \in DOMAIN proc, Step(p)
  PROVE  Requested'
BY NextInitReqs, NextStageReqs, MeasureReqs, ClockReqs, PostReqs, ReallocateReqs, WaitReqs, ExchangeReqs,
   FinishReqs DEF Step
-----------------------------------------------------------------------------
(* From one group to the next. *)

LEMMA FreshReqs ==
  ASSUME NEW n, NEW q, q = Fresh(n)
  PROVE  /\ DOMAIN q = Fields /\ q.mode = "init" /\ q.s = 0 /\ q.todo = <<>> /\ q.len = <<>> /\ q.live = {} /\ q.active = {}
         /\ \A s \in 1 .. n : q.st[s].reqs = 0
<1>1. PICK f : f = [s \in 1 .. n |-> Blank]
  OBVIOUS
<1>2. /\ DOMAIN q = Fields /\ q.mode = "init" /\ q.s = 0 /\ q.todo = <<>> /\ q.len = <<>> /\ q.live = {} /\ q.active = {}
      /\ q.st = f
  BY <1>1 DEF Fresh, Fields
<1>3. \A s \in 1 .. n : f[s] = Blank
  BY <1>1
<1>4. Blank.reqs = 0
  BY DEF Blank
<1> QED BY <1>2, <1>3, <1>4

\* A process that is about to begin, or is handing the configuration over.
LEMMA IdleHeld ==
  ASSUME PlanOK, NEW z, Arrays(z), z.active = {},
         z.mode = "config" \/ (z.mode = "init" /\ z.s = 0 /\ z.todo = <<>>)
  PROVE  Held(z)
<1>1. StageIds = 1 .. N /\ N \in Nat
  BY NStages
<1>2. \A s \in StageIds : ~Reached(z, s) /\ ~Linked(z, s)
  BY <1>1 DEF Reached, Linked
<1>3. Links(z)
  <2>1. \A w, s \in StageIds : WaitsFor(w, s) /\ Linked(z, w) =>
          z.st[w].reqs = z.st[s].reqs /\ z.st[w].count = z.st[s].count
    BY <1>2
  <2> QED BY <1>2, <2>1 DEF Links
<1>4. Exchanges(z)
  BY NoneExchanged
<1>5. Tidy(z)
  BY DEF Tidy
<1> QED BY <1>3, <1>4, <1>5 DEF Held

LEMMA InitRequested ==
  ASSUME Init, Uncapped
  PROVE  Requested
<1>1. Inv /\ Shape /\ PlanOK
  BY InitInv DEF Inv, Shape
<1>2. group = 1 /\ kids = <<>> /\ DOMAIN proc = Talking
  BY <1>1 DEF Init, Shape
<1>3. \A p \in DOMAIN proc : proc[p] = Fresh(N)
  BY DEF Init, N
<1>4. Kids = {}
  <2>1. DOMAIN kids = {}
    BY <1>2
  <2> QED BY <2>1 DEF Kids
<1>5. N \in Nat /\ StageIds = 1 .. N
  BY <1>1, NStages
<1>6. ASSUME NEW p \in DOMAIN proc PROVE Req(p, proc[p])
  <2>1. PICK q : q = Fresh(N)
    OBVIOUS
  <2>2. /\ q.mode = "init" /\ q.s = 0 /\ q.todo = <<>> /\ q.len = <<>> /\ q.live = {} /\ q.active = {}
        /\ \A s \in StageIds : q.st[s].reqs = 0
    BY <1>5, <2>1, FreshReqs
  <2>3. Arrays(q)
    <3>1. q.len \in Seq(Nat) /\ Len(q.len) \in Nat
      BY <2>2
    <3> QED BY <2>2, <3>1 DEF Arrays
  <2>4. Held(q)
    BY <1>1, <2>2, <2>3, IdleHeld
  <2>5. Req(p, q)
    BY <1>4, <2>2, <2>4 DEF Req
  <2> QED BY <1>3, <2>1, <2>5
<1>7. PICK l \in StageLists : plan.stages = l
  BY DEF Init
<1>8. ListOK
  <2>1. \A x \in Single : x.kind \notin {"ipoint", "wait"} /\ x.id = 0
    BY DEF Single, Stage
  <2>2. \A i \in Nat : \A x \in IPoints(i) : x.kind = "ipoint" /\ x.id = i
    BY DEF IPoints, Stage
  <2>3. \A i \in Nat : \A x \in Waits(i) : x.kind = "wait" /\ x.id = i
    BY DEF Waits, Stage
  <2>4. CASE \E x \in Single : l = <<x>>
    <3>1. StageIds = {1} /\ plan.stages[1] \in Single
      BY <1>7, <2>4 DEF StageIds
    <3> QED BY <2>1, <3>1 DEF ListOK, Kind
  <2>5. ASSUME NEW a \in IPoints(1), NEW x \in Single, NEW w \in Waits(1), l = <<a, x, w>> PROVE ListOK
    <3>1. StageIds = {1, 2, 3} /\ plan.stages[1] = a /\ plan.stages[2] = x /\ plan.stages[3] = w
      BY <1>7, <2>5 DEF StageIds
    <3>2. a.kind = "ipoint" /\ a.id = 1 /\ x.kind \notin {"ipoint", "wait"} /\ w.kind = "wait" /\ w.id = 1 /\ ~w.capped
      BY <2>1, <2>2, <2>3, <3>1 DEF Uncapped
    <3>3. /\ Kind(1) = "ipoint" /\ Kind(2) \notin {"ipoint", "wait"} /\ Kind(3) = "wait"
          /\ WaitsFor(3, 1)
      BY <3>1, <3>2 DEF Kind, WaitsFor
    <3> QED BY <3>1, <3>2, <3>3 DEF ListOK
  <2>6. ASSUME NEW a \in IPoints(1), NEW b \in IPoints(2), NEW v \in Waits(2), NEW w \in Waits(1), l = <<a, b, v, w>>
        PROVE  ListOK
    <3>1. /\ StageIds = {1, 2, 3, 4}
          /\ plan.stages[1] = a /\ plan.stages[2] = b /\ plan.stages[3] = v /\ plan.stages[4] = w
      BY <1>7, <2>6 DEF StageIds
    <3>2. /\ a.kind = "ipoint" /\ a.id = 1 /\ b.kind = "ipoint" /\ b.id = 2
          /\ v.kind = "wait" /\ v.id = 2 /\ ~v.capped /\ w.kind = "wait" /\ w.id = 1 /\ ~w.capped
      BY <2>2, <2>3, <3>1 DEF Uncapped
    <3>3. /\ Kind(1) = "ipoint" /\ Kind(2) = "ipoint" /\ Kind(3) = "wait" /\ Kind(4) = "wait"
          /\ WaitsFor(4, 1) /\ WaitsFor(3, 2)
      BY <3>1, <3>2 DEF Kind, WaitsFor
    <3>4. \A s \in StageIds : Kind(s) = "ipoint" =>
             /\ plan.stages[s].id > 0 /\ \A t \in 1 .. s - 1 : plan.stages[t].id # plan.stages[s].id
             /\ \E u \in StageIds : s < u /\ WaitsFor(u, s)
      BY <3>1, <3>2, <3>3
    <3>5. \A u \in StageIds : Kind(u) = "wait" => ~plan.stages[u].capped /\ \E s \in StageIds : WaitsFor(u, s)
      BY <3>1, <3>2, <3>3
    <3> QED BY <3>4, <3>5 DEF ListOK
  <2> QED BY <1>7, <2>4, <2>5, <2>6 DEF StageLists
<1>9. AllReq /\ Outside
  BY <1>2, <1>6 DEF AllReq, Outside
<1> QED BY <1>8, <1>9 DEF Requested

LEMMA ReconfigureReqs ==
  ASSUME Inv, Requested, Reconfigure
  PROVE  Requested'
<1>1. /\ group = 1 /\ kids = <<>> /\ plan' = plan /\ group' = 1 /\ comm' = comm
      /\ \A p \in Ranks : proc[p].mode = "ready" /\ proc[p].todo = <<>>
  BY Zenon DEF Reconfigure
<1>2. Shape /\ PlanOK /\ Together(proc) /\ DOMAIN proc = Talking /\ ListOK
  BY <1>1 DEF Inv, Shape, Requested
<1>3. Kids = {} /\ Talking = Ranks
  <2>1. DOMAIN kids = {}
    BY <1>1
  <2> QED BY <2>1 DEF Talking, Kids
<1>4. Ranks' = Ranks /\ Talking' = Ranks \cup Kids'
  <2>1. Ranks' = Ranks
    BY <1>1 DEF Ranks
  <2> QED BY <2>1 DEF Talking
<1>5. \A p \in Ranks : p \notin Kids'
  <2>1. numP = plan.procs[1] /\ DOMAIN comm = 1 .. plan.procs[1] /\ \A r \in 1 .. plan.procs[1] : comm[r] = r
    BY <1>1, <1>2, GroupIs DEF Shape
  <2>2. plan.procs[1] \in Nat /\ plan.procs[2] \in Nat
    BY <1>2 DEF PlanOK
  <2>3. kids' = KidsOf
    BY Zenon, <2>1 DEF Reconfigure, KidsOf
  <2>4. \A r \in DOMAIN KidsOf : KidsOf[r] \in Int /\ KidsOf[r] > plan.procs[1]
    BY <2>2 DEF KidsOf
  <2>5. \A r \in DOMAIN comm : comm[r] \in Int /\ comm[r] <= plan.procs[1]
    BY <2>1, <2>2
  <2>6. ASSUME NEW p \in Ranks, p \in Kids' PROVE FALSE
    <3>1. PICK r \in DOMAIN comm : comm[r] = p
      BY DEF Ranks
    <3>2. PICK k \in DOMAIN KidsOf : KidsOf[k] = p
      BY <2>3, <2>6 DEF Kids
    <3> QED BY <2>2, <2>4, <2>5, <3>1, <3>2
  <2> QED BY <2>6
<1>6. PICK n : n = [p \in DOMAIN proc \cup Kids' |->
                      IF p \in Ranks THEN [proc[p] EXCEPT !.mode = "config", !.todo = Sends]
                      ELSE [Fresh(0) EXCEPT !.mode = "config", !.todo = Receives]]
  OBVIOUS
<1>7. proc' = n
  BY Zenon, <1>6 DEF Reconfigure, Kids, Sends, Receives
<1>8. DOMAIN n = Talking'
  BY <1>2, <1>3, <1>4, <1>6
<1>9. ASSUME NEW p \in Ranks PROVE n[p].mode = "config" /\ Held(n[p])
  <2>1. PICK q : q = proc[p]
    OBVIOUS
  <2>2. DOMAIN q = Fields /\ Stored(q) /\ Held(q) /\ q.mode = "ready"
    BY <1>1, <1>2, <1>3, <2>1, HeldIs
  <2>3. q.active = {}
    BY <1>2, <2>2, AllFreed
  <2>4. PICK z : z = [q EXCEPT !.mode = "config", !.todo = Sends]
    OBVIOUS
  <2>5. z.mode = "config" /\ z.st = q.st /\ z.len = q.len /\ z.live = q.live /\ z.active = q.active
    BY <2>2, <2>4 DEF Fields
  <2>6. SameReqs(q, z)
    BY <2>5 DEF SameReqs
  <2>7. Arrays(z)
    BY <2>2, <2>6, ArraysSame DEF Held
  <2>8. Held(z)
    BY <1>2, <2>3, <2>5, <2>7, IdleHeld
  <2>9. n[p] = z
    BY <1>2, <1>3, <1>6, <2>1, <2>4
  <2> QED BY <2>5, <2>8, <2>9
<1>10. ASSUME NEW p \in Kids'
       PROVE  /\ n[p].mode = "config" /\ n[p].live = {} /\ n[p].active = {} /\ n[p].len = <<>>
              /\ Has(n[p].todo, "stages")
  <2>1. PICK q : q = Fresh(0)
    OBVIOUS
  <2>2. DOMAIN q = Fields /\ q.len = <<>> /\ q.live = {} /\ q.active = {}
    BY <2>1, FreshReqs
  <2>3. PICK z : z = [q EXCEPT !.mode = "config", !.todo = Receives]
    OBVIOUS
  <2>4. z.mode = "config" /\ z.todo = Receives /\ z.len = q.len /\ z.live = q.live /\ z.active = q.active
    BY <2>2, <2>3 DEF Fields
  <2>5. n[p] = z
    BY <1>5, <1>6, <2>1, <2>3
  <2> QED BY <2>2, <2>4, <2>5, SendsIs
<1>11. ASSUME NEW p \in DOMAIN proc' PROVE Req(p, proc[p])'
  <2>1. PICK z : z = proc'[p]
    OBVIOUS
  <2>2. CASE p \in Ranks
    <3>1. z.mode = "config" /\ Held(z) /\ p \notin Kids'
      BY <1>5, <1>7, <1>9, <2>1, <2>2
    <3>2. Held(z)'
      BY <1>1, <3>1, SameHeld
    <3>3. Req(p, z)'
      BY <3>1, <3>2 DEF Req
    <3> QED BY <2>1, <3>3
  <2>3. CASE p \in Kids'
    <3>1. z.mode = "config" /\ z.live = {} /\ z.active = {} /\ z.len = <<>> /\ Has(z.todo, "stages")
      BY <1>7, <1>10, <2>1, <2>3
    <3>2. Req(p, z)'
      BY <2>3, <3>1 DEF Req, Has
    <3> QED BY <2>1, <3>2
  <2> QED BY <1>4, <1>7, <1>8, <2>2, <2>3
<1>12. AllReq'
  BY <1>11 DEF AllReq
<1>13. Outside'
  BY <1>7, <1>8 DEF Outside
<1>14. ListOK'
  BY <1>1, <1>2, SameKinds
<1> QED BY <1>12, <1>13, <1>14 DEF Requested

LEMMA StartGroupReqs ==
  ASSUME Inv, Requested, StartGroup
  PROVE  Requested'
<1>1. /\ plan' = plan /\ group' = 2 /\ kids' = <<>>
      /\ \A p \in Talking : proc[p].mode = "config" /\ proc[p].todo = <<>>
  BY DEF StartGroup
<1>2. Shape /\ PlanOK /\ ListOK /\ \A p \in Talking : ProcOK(p, proc[p])
  BY DEF Inv, Shape, Together, Requested
<1>3. comm[1] \in Talking
  BY <1>2, RanksAre DEF Talking
<1>4. group = 1
  BY <1>1, <1>2, <1>3 DEF ProcOK, TodoOK
<1>5. DOMAIN proc = Talking
  BY <1>2, <1>4 DEF Shape
<1>6. Kids' = {}
  <2>1. DOMAIN kids' = {}
    BY <1>1
  <2> QED BY <2>1 DEF Kids
<1>7. PICK n : n = [p \in DOMAIN proc |->
                      IF Stays(p) THEN [proc[p] EXCEPT !.mode = "init", !.s = 0, !.iter = 0, !.posted = 0]
                      ELSE FreeConfig(proc[p])]
  OBVIOUS
<1>8. proc' = n
  BY <1>7 DEF StartGroup
<1>9. ASSUME NEW p \in DOMAIN proc
      PROVE  \/ n[p].mode = "init" /\ Held(n[p])
             \/ n[p].mode = "gone" /\ n[p].live = {} /\ n[p].active = {}
  <2>1. PICK q : q = proc[p]
    OBVIOUS
  <2>2. q.mode = "config" /\ q.todo = <<>> /\ ProcOK(p, q) /\ Req(p, q)
    BY <1>1, <1>2, <1>5, <2>1 DEF Requested, AllReq
  <2>3. ~Has(q.todo, "stages")
    BY <2>2 DEF Has
  <2>4. DOMAIN q = Fields /\ Stored(q) /\ Held(q)
    BY <2>2, <2>3, Memory DEF ProcOK, Req
  <2>5. q.active = {}
    BY <1>2, <2>2, <2>4, AllFreed
  <2>6. CASE Stays(p)
    <3>1. PICK z : z = [q EXCEPT !.mode = "init", !.s = 0, !.iter = 0, !.posted = 0]
      OBVIOUS
    <3>2. /\ z.mode = "init" /\ z.s = 0 /\ z.todo = q.todo
          /\ z.st = q.st /\ z.len = q.len /\ z.live = q.live /\ z.active = q.active
      BY <2>4, <3>1 DEF Fields
    <3>3. SameReqs(q, z)
      BY <3>2 DEF SameReqs
    <3>4. Arrays(z)
      BY <2>4, <3>3, ArraysSame DEF Held
    <3>5. Held(z)
      BY <1>2, <2>2, <2>5, <3>2, <3>4, IdleHeld
    <3>6. n[p] = z
      BY <1>7, <2>1, <2>6, <3>1
    <3> QED BY <3>2, <3>5, <3>6
  <2>7. CASE ~Stays(p)
    <3>1. PICK z : z = FreeConfig(q)
      OBVIOUS
    <3>2. z.mode = "gone" /\ z.live = {} /\ z.active = {}
      BY <1>2, <2>2, <2>4, <3>1, FreeConfigIs
    <3>3. n[p] = z
      BY <1>7, <2>1, <2>7, <3>1
    <3> QED BY <3>2, <3>3
  <2> QED BY <2>6, <2>7
<1>10. ASSUME NEW p \in DOMAIN proc' PROVE Req(p, proc[p])' /\ proc'[p].mode # "ready"
  <2>1. PICK z : z = proc'[p]
    OBVIOUS
  <2>2. p \in DOMAIN proc
    BY <1>7, <1>8
  <2>3. \/ z.mode = "init" /\ Held(z)
        \/ z.mode = "gone" /\ z.live = {} /\ z.active = {}
    BY <1>8, <1>9, <2>1, <2>2
  <2>4. Held(z)' <=> Held(z)
    BY <1>1, SameHeld
  <2>5. Req(p, z)'
    BY <1>6, <2>3, <2>4 DEF Req
  <2> QED BY <2>1, <2>3, <2>5
<1>11. AllReq' /\ Outside'
  BY <1>10 DEF AllReq, Outside
<1>12. ListOK'
  BY <1>1, <1>2, SameKinds
<1> QED BY <1>11, <1>12 DEF Requested

LEMMA StutterReqs ==
  ASSUME Inv, Requested, UNCHANGED vars
  PROVE  Requested'
<1>1. Shape /\ Frame /\ Talking \subseteq DOMAIN proc
  BY DEF Inv, Shape, vars, Frame
<1>2. PICK n : n = proc
  OBVIOUS
<1>3. proc' = n /\ DOMAIN n = DOMAIN proc /\ \A r \in Talking : Req(r, n[r])
  BY <1>1, <1>2 DEF vars, Requested, AllReq
<1> QED BY <1>1, <1>2, <1>3, AllReqs

LEMMA RequestedKept ==
  ASSUME Sound, Inv, Requested, [Next]_vars
  PROVE  Requested'
<1>1. Shape /\ Together(proc)
  BY DEF Inv
<1>2. CASE \E p \in DOMAIN proc : Step(p)
  BY <1>1, <1>2, StepReqs
<1>3. CASE Collective
  BY <1>1, <1>3, CollectiveReqs
<1>4. CASE Reconfigure
  BY <1>4, ReconfigureReqs
<1>5. CASE StartGroup
  BY <1>5, StartGroupReqs
<1>6. CASE UNCHANGED vars
  BY <1>6, StutterReqs
<1>7. Finished => UNCHANGED vars
  BY DEF Finished
<1> QED BY <1>2, <1>3, <1>4, <1>5, <1>6, <1>7 DEF Next

\* What is pending has a slot of its own in an array in use.
LEMMA SlotsSafe ==
  ASSUME PlanOK, NEW q, Held(q)
  PROVE  /\ \A s \in StageIds : Kind(s) = "ipoint" /\ Reached(q, s) =>
              q.st[s].reqs \in q.live /\ q.st[s].count = q.len[q.st[s].reqs]
         /\ \A a \in q.active : /\ a[1] \in q.live /\ a[2] <= q.len[a[1]]
                                /\ \A b \in q.active : a[1] = b[1] /\ a[2] = b[2] => a = b
<1>1. Arrays(q) /\ Links(q) /\ Exchanges(q)
  BY DEF Held
<1>2. N \in Nat /\ StageIds = 1 .. N
  BY NStages
<1>3. \A s \in StageIds : Kind(s) = "ipoint" /\ Reached(q, s) =>
        q.st[s].reqs \in q.live /\ q.st[s].count = q.len[q.st[s].reqs]
  BY <1>1 DEF Arrays, Links
<1>4. ASSUME NEW a \in q.active PROVE a[1] \in q.live /\ a[2] <= q.len[a[1]]
  <2>1. PICK s \in StageIds : Belongs(q, a, s)
    BY <1>1 DEF Exchanges
  <2>2. Kind(s) = "ipoint" /\ Pending(q, s) /\ a[1] = q.st[s].reqs /\ a[2] \in 1 .. q.st[s].count
    BY <2>1 DEF Belongs
  <2>3. Reached(q, s)
    BY <1>2, <2>2 DEF Pending, Reached
  <2> QED BY <1>3, <2>2, <2>3
<1>5. \A a, b \in q.active : a[1] = b[1] /\ a[2] = b[2] => a = b
  BY <1>1 DEF Exchanges, Alone
<1> QED BY <1>3, <1>4, <1>5

\* What a process with its requests in order may do with them.
LEMMA HeldSafe ==
  ASSUME PlanOK, ListOK, NEW p, NEW q, ProcOK(p, q), Stored(q), Held(q)
  PROVE  /\ q.todo # <<>> /\ Head(q.todo)[1] \in {"waitall", "waitpair", "cancel"} =>
              Head(q.todo)[1] = "waitall" /\ q.st[Head(q.todo)[2]].reqs \in q.live
         /\ q.mode = "ready" =>
              q.active = {} /\ \A s, t \in Freeing(q) : s # t => q.st[s].reqs # q.st[t].reqs
<1>1. Links(q) /\ Tidy(q)
  BY DEF Held
<1>2. N \in Nat /\ StageIds = 1 .. N
  BY NStages
<1>3. \A s \in StageIds : Kind(s) = "ipoint" /\ Reached(q, s) =>
        q.st[s].reqs \in q.live /\ q.st[s].count = q.len[q.st[s].reqs]
  BY SlotsSafe
<1>5. ASSUME q.todo # <<>>, Head(q.todo)[1] \in {"waitall", "waitpair", "cancel"}
      PROVE  Head(q.todo)[1] = "waitall" /\ q.st[Head(q.todo)[2]].reqs \in q.live
  <2>1. Head(q.todo)[1] \notin {"waitpair", "cancel"}
    BY <1>1, <1>5, HeadWhere
  <2>2. Head(q.todo)[1] = "waitall"
    BY <1>5, <2>1
  <2>3. q.mode \in {"init", "run"} /\ q.s \in StageIds
    BY <1>1, <1>5, <2>2, HeadWhere
  <2>4. q.s # 0
    BY <1>2, <2>3
  <2>5. Head(q.todo)[2] = q.s /\ Kind(q.s) = IF q.mode = "init" THEN "ipoint" ELSE "wait"
    BY <1>1, <1>5, <2>2, <2>3, <2>4, HeadWhere
  <2>6. Reached(q, q.s)
    BY <1>2, <2>3 DEF Reached
  <2>7. CASE q.mode = "init"
    BY <1>3, <2>2, <2>3, <2>5, <2>6, <2>7
  <2>8. CASE q.mode = "run"
    <3>1. Kind(q.s) = "wait"
      BY <2>5, <2>8
    <3>2. PICK s \in StageIds : WaitsFor(q.s, s)
      BY <2>3, <3>1 DEF ListOK
    <3>3. Linked(q, q.s) /\ Reached(q, s) /\ Kind(s) = "ipoint"
      BY <2>8, <3>2 DEF Linked, Reached, WaitsFor
    <3>4. q.st[q.s].reqs = q.st[s].reqs
      BY <1>1, <2>3, <3>2, <3>3 DEF Links
    <3> QED BY <1>3, <2>2, <2>5, <3>3, <3>4
  <2> QED BY <2>3, <2>7, <2>8
<1>6. q.mode = "ready" =>
        q.active = {} /\ \A s, t \in Freeing(q) : s # t => q.st[s].reqs # q.st[t].reqs
  BY AllFreed
<1> QED BY <1>5, <1>6

LEMMA RequestedSafe ==
  ASSUME Inv, Requested
  PROVE  RequestsSafe
<1>1. Shape /\ PlanOK /\ ListOK /\ \A p \in Talking : ProcOK(p, proc[p])
  BY DEF Inv, Shape, Together, Requested
<1> DEFINE Safe(p, q) ==
      /\ \A a \in q.active : /\ a[1] \in q.live /\ a[2] <= q.len[a[1]]
                             /\ \A b \in q.active : a[1] = b[1] /\ a[2] = b[2] => a = b
      /\ Head1(p) \in {"waitall", "waitpair", "cancel"} =>
           LET x == q.st[Item(p)[2]]
           IN  /\ x.reqs \in q.live
               /\ Head1(p) = "waitpair" => Item(p)[3] <= q.len[x.reqs]
               /\ Head1(p) = "cancel" => x.ops <= q.len[x.reqs]
      /\ q.mode = "ready" =>
           /\ q.active = {}
           /\ \A s, t \in Freeing(q) : s # t => q.st[s].reqs # q.st[t].reqs
      /\ q.mode = "gone" => q.live = {}
<1>2. ASSUME NEW p \in DOMAIN proc PROVE Safe(p, proc[p])
  <2>1. PICK q : q = proc[p]
    OBVIOUS
  <2>2. Req(p, q)
    BY <2>1 DEF Requested, AllReq
  <2>3. CASE q.mode = "gone"
    <3>1. q.live = {} /\ q.active = {}
      BY <2>2, <2>3 DEF Req
    <3>2. Head1(p) \notin {"waitall", "waitpair", "cancel"}
      <4>1. q.todo = <<>>
        BY <1>1, <2>1, <2>3 DEF Shape, ProcOK, TodoOK
      <4> QED BY <2>1, <4>1 DEF Head1
    <3> QED BY <2>1, <2>3, <3>1, <3>2
  <2>4. CASE q.mode # "gone" /\ p \notin Talking
    <3>1. q.todo = <<>> /\ q.mode # "ready"
      BY <1>1, <2>1, <2>4 DEF Shape, Requested, Outside
    <3>2. Head1(p) \notin {"waitall", "waitpair", "cancel"}
      BY <2>1, <3>1 DEF Head1
    <3>3. p \notin Kids
      BY <2>4 DEF Talking
    <3>4. Held(q)
      BY <2>2, <2>4, <3>3 DEF Req
    <3>5. \A a \in q.active : /\ a[1] \in q.live /\ a[2] <= q.len[a[1]]
                              /\ \A b \in q.active : a[1] = b[1] /\ a[2] = b[2] => a = b
      BY <1>1, <3>4, SlotsSafe
    <3> QED BY <2>1, <2>4, <3>1, <3>2, <3>5
  <2>5. CASE q.mode # "gone" /\ p \in Kids
    <3>1. q.mode = "config" /\ q.active = {} /\ p \in Talking /\ ProcOK(p, q)
      BY <1>1, <2>1, <2>2, <2>5 DEF Talking, ProcOK, Req
    <3>2. Head1(p) \notin {"waitall", "waitpair", "cancel"}
      <4>1. Head1(p) \in {"waitall", "waitpair", "cancel"} => q.mode \notin {"config", "gone"}
        BY <1>1, <2>1, <3>1, AtWork DEF Inv
      <4> QED BY <3>1, <4>1
    <3> QED BY <2>1, <3>1, <3>2
  <2>6. CASE q.mode # "gone" /\ p \in Talking /\ p \notin Kids
    <3>1. ProcOK(p, q) /\ Stored(q) /\ Held(q)
      BY <1>1, <2>1, <2>2, <2>6 DEF Req, ProcOK
    <3>2. Head1(p) \in {"waitall", "waitpair", "cancel"} =>
            q.todo # <<>> /\ Item(p) = Head(q.todo) /\ Head1(p) = Head(q.todo)[1]
      BY <1>1, <2>1, <2>6, AtWork DEF Inv
    <3>3. /\ q.todo # <<>> /\ Head(q.todo)[1] \in {"waitall", "waitpair", "cancel"} =>
               Head(q.todo)[1] = "waitall" /\ q.st[Head(q.todo)[2]].reqs \in q.live
          /\ q.mode = "ready" =>
               q.active = {} /\ \A s, t \in Freeing(q) : s # t => q.st[s].reqs # q.st[t].reqs
      BY <1>1, <3>1, HeldSafe
    <3>4. Head1(p) \in {"waitall", "waitpair", "cancel"} =>
            Head1(p) = "waitall" /\ q.st[Item(p)[2]].reqs \in q.live
      BY <3>2, <3>3
    <3>5. \A a \in q.active : /\ a[1] \in q.live /\ a[2] <= q.len[a[1]]
                              /\ \A b \in q.active : a[1] = b[1] /\ a[2] = b[2] => a = b
      BY <1>1, <3>1, SlotsSafe
    <3> QED BY <2>1, <2>6, <3>3, <3>4, <3>5
  <2> QED BY <2>3, <2>4, <2>5, <2>6 DEF Talking
<1> QED BY <1>2 DEF RequestsSafe

\* When every asynchronous exchange has a wait that is not limited by time, and
\* no rank is misled alone, no rank loses a request: what is pending has a slot of
\* its own in an array in use, a wait finds the array of its exchange, nothing is
\* pending when a group ends and free_config frees each array once and leaves none.
THEOREM RequestsKept == Spec => [](Sound /\ Uncapped => RequestsSafe)
<1> DEFINE Held1 == Sound /\ Uncapped => Inv /\ Requested
<1>1. Init => Held1
  BY InitInv, InitRequested
<1>2. Held1 /\ [Next]_vars => Held1'
  <2> SUFFICES ASSUME Held1, [Next]_vars, Sound', Uncapped' PROVE Inv' /\ Requested'
    OBVIOUS
  <2>1. Sound /\ Uncapped
    BY PlanStays DEF Sound, Uncapped, StageIds
  <2> QED BY <2>1, Inductive, RequestedKept
<1>3. Held1 => (Sound /\ Uncapped => RequestsSafe)
  BY RequestedSafe
<1> HIDE DEF Held1
<1> QED BY <1>1, <1>2, <1>3, PTL DEF Spec
=============================================================================
