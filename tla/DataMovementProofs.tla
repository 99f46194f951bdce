------------------------- MODULE DataMovementProofs -------------------------
(* The transfer of the entries, for every size of the groups, every         *)
(* quantity and every number of entries: the two sides of each pair agree,  *)
(* no transfer leaves a buffer, each element reaches its place, no window   *)
(* goes while it is read, and no circle of waiting processes forms.         *)
EXTENDS DataMovement, Redistribution, BlockDistributionProofs, SequenceTheorems

------------------------------------------------------------------------------
(* The inductive invariant.                                                 *)

(* What prepare_redistribution computes for a process from a quantity.      *)
Lay(p, qty) ==
  [s |-> SendCounts(p, qty), r |-> RecvCounts(p, qty), win |-> WinSize(p, qty)]

(* It has not divided by zero on the way.                                   *)
Computed(p, qty) ==
  /\ IsSource(p) => ~DividesByZero(qty, Block(qty, p, shape.numP), shape.numC)
  /\ IsTarget(p) => ~DividesByZero(qty, Block(qty, TargetId(p), shape.numC), shape.numP)

Layouts == { Lay(p, qty) : p \in Procs, qty \in Quantities }
Buffers == {<<>>} \cup UNION { [0 .. n - 1 -> Int] : n \in Nat }

(* The reconfiguration the transfer runs with.                              *)
Settled ==
  /\ conf \in Confs
  /\ shape \in [numP : Sizes, numC : Sizes, qty : [1 .. Entries -> Quantities],
                eager : BOOLEAN]
  /\ conf.spawn = "merge" => shape.numP # shape.numC

Types ==
  /\ Settled
  /\ layout \in [Procs -> Seq(Layouts)]
  /\ recv \in [Procs -> Seq(Buffers)]
  /\ got \in [Procs -> Seq(SUBSET Nat)]
  /\ phase \in [Procs -> {"moving", "ended", "returned", "crashed"}]
  /\ \A p \in Procs : /\ Len(layout[p]) \in 0 .. Entries
                      /\ Len(recv[p]) = Len(layout[p])
                      /\ Len(got[p]) = Len(layout[p])

(* Every entry has the layout its own quantity asks for, the entries that   *)
(* took the one of the previous entry included, and a buffer of that size.  *)
Prepared ==
  \A p \in Procs : \A e \in 1 .. Started(p) :
    /\ layout[p][e] = Lay(p, shape.qty[e]) /\ Computed(p, shape.qty[e])
    /\ IsTarget(p) => recv[p][e] \in [0 .. TargetBlock(p, e).tamBl - 1 -> Int]

------------------------------------------------------------------------------
(* The groups.                                                              *)

(* The roles and the ranks of the processes, whatever the method.           *)
LEMMA GroupsAre ==
  ASSUME Settled
  PROVE  /\ shape.numP \in Nat \ {0} /\ shape.numC \in Nat \ {0}
         /\ \A e \in 1 .. Entries : shape.qty[e] \in Quantities /\ shape.qty[e] \in Nat \ {0}
         /\ Entries \in Nat \ {0} /\ Quantities \subseteq Nat \ {0}
         /\ Procs \subseteq Nat /\ 0 .. shape.numP - 1 \subseteq Procs
         /\ \A p \in Procs : IsSource(p) <=> p \in 0 .. shape.numP - 1
         /\ \A p \in Procs : IsTarget(p) => TargetId(p) \in 0 .. shape.numC - 1
         /\ Offset \in Nat
         /\ \A p \in Procs : IsTarget(p) => SendIndex(p) = TargetId(p) + Offset
<1>1. shape.numP \in Nat \ {0} /\ shape.numC \in Nat \ {0}
  BY ParametersOK DEF Settled
<1>2. \A e \in 1 .. Entries : shape.qty[e] \in Quantities /\ shape.qty[e] \in Nat \ {0}
  BY ParametersOK DEF Settled
<1>3. Entries \in Nat \ {0} /\ Quantities \subseteq Nat \ {0}
  BY ParametersOK
<1>4. /\ conf.spawn \in {"baseline", "merge"} /\ conf.intercomm \in BOOLEAN
      /\ conf.intercomm => conf.spawn = "baseline"
  BY DEF Settled, Confs
<1>5. Procs \subseteq Nat /\ 0 .. shape.numP - 1 \subseteq Procs
  BY <1>1, <1>4 DEF Procs, Bigger
<1>6. \A p \in Procs : IsSource(p) <=> p \in 0 .. shape.numP - 1
  BY <1>1, <1>5 DEF IsSource
<1>7. \A p \in Procs : IsTarget(p) => TargetId(p) \in 0 .. shape.numC - 1
  BY <1>1, <1>4, <1>5 DEF IsTarget, TargetId, Procs, Bigger
<1>8. Offset \in Nat
  BY <1>1 DEF Offset
<1>9. \A p \in Procs : IsTarget(p) => SendIndex(p) = TargetId(p) + Offset
  BY <1>1, <1>4, <1>5, <1>7 DEF SendIndex, TargetId, Offset
<1> QED BY <1>1, <1>2, <1>3, <1>5, <1>6, <1>7, <1>8, <1>9

(* A step changes neither the groups nor what is computed from them.        *)
LEMMA GroupsStay ==
  ASSUME UNCHANGED <<conf, shape>>
  PROVE  /\ Procs' = Procs /\ Settled' = Settled /\ Layouts' = Layouts
         /\ \A p : IsTarget(p)' = IsTarget(p)
         /\ \A p, q : Lay(p, q)' = Lay(p, q) /\ Computed(p, q)' = Computed(p, q)
         /\ \A p, e : SourceBlock(p, e)' = SourceBlock(p, e)
         /\ \A p, e : TargetBlock(p, e)' = TargetBlock(p, e)
         /\ \A p, l : LocalCopy(p, l)' = LocalCopy(p, l) /\ SkipSelf(p, l)' = SkipSelf(p, l)
         /\ \A p, l : RecvPeers(p, l)' = RecvPeers(p, l)
<1>1. Procs' = Procs
  BY DEF Procs
<1>2. \A p : IsTarget(p)' = IsTarget(p)
  BY DEF IsTarget
<1>3. \A p, q : SendCounts(p, q)' = SendCounts(p, q)
  BY DEF SendCounts, Offset, IsSource
<1>4. \A p, q : RecvCounts(p, q)' = RecvCounts(p, q)
  BY DEF RecvCounts, TargetId, IsTarget
<1>5. \A p, q : WinSize(p, q)' = WinSize(p, q)
  BY DEF WinSize, IsSource
<1>6. \A p, q : Lay(p, q)' = Lay(p, q)
  BY <1>3, <1>4, <1>5 DEF Lay
<1>7. \A p, q : Computed(p, q)' = Computed(p, q)
  BY DEF Computed, IsSource, IsTarget, TargetId
<1>8. \A p, e : SourceBlock(p, e)' = SourceBlock(p, e)
  BY DEF SourceBlock
<1>9. \A p, e : TargetBlock(p, e)' = TargetBlock(p, e)
  BY DEF TargetBlock, TargetId
<1>10. \A p, l : LocalCopy(p, l)' = LocalCopy(p, l) /\ SkipSelf(p, l)' = SkipSelf(p, l)
  BY DEF LocalCopy, SkipSelf
<1>11. \A p, l : RecvPeers(p, l)' = RecvPeers(p, l)
  BY <1>10 DEF RecvPeers
<1>12. Settled' = Settled
  BY DEF Settled
<1>13. Layouts' = Layouts
  BY <1>1, <1>6 DEF Layouts
<1> QED BY <1>1, <1>2, <1>6, <1>7, <1>8, <1>9, <1>10, <1>11, <1>12, <1>13

(* Where the blocks of the entries lie.                                     *)
LEMMA BlocksAre ==
  ASSUME Settled, NEW e \in 1 .. Entries
  PROVE  /\ \A i \in 0 .. shape.numP - 1 :
              LET S == SourceBlock(i, e)
              IN  /\ S.ini \in Nat /\ S.fin \in Nat /\ S.tamBl \in Nat
                  /\ S.ini <= S.fin /\ S.fin = S.ini + S.tamBl
         /\ \A p \in Procs : IsTarget(p) =>
              LET T == TargetBlock(p, e)
              IN  /\ T.ini \in Nat /\ T.fin \in Nat /\ T.tamBl \in Nat
                  /\ T.ini <= T.fin /\ T.fin = T.ini + T.tamBl /\ T.fin <= shape.qty[e]
<1>1. /\ shape.numP \in Nat \ {0} /\ shape.numC \in Nat \ {0} /\ shape.qty[e] \in Nat
      /\ \A p \in Procs : IsTarget(p) => TargetId(p) \in 0 .. shape.numC - 1
  BY GroupsAre
<1>2. ASSUME NEW i \in 0 .. shape.numP - 1
      PROVE  LET S == SourceBlock(i, e)
             IN  /\ S.ini \in Nat /\ S.fin \in Nat /\ S.tamBl \in Nat
                 /\ S.ini <= S.fin /\ S.fin = S.ini + S.tamBl
  BY <1>1, Within, Zenon DEF SourceBlock
<1>3. ASSUME NEW p \in Procs, IsTarget(p)
      PROVE  LET T == TargetBlock(p, e)
             IN  /\ T.ini \in Nat /\ T.fin \in Nat /\ T.tamBl \in Nat
                 /\ T.ini <= T.fin /\ T.fin = T.ini + T.tamBl /\ T.fin <= shape.qty[e]
  BY <1>1, <1>3, Within, Zenon DEF TargetBlock
<1> QED BY <1>2, <1>3

------------------------------------------------------------------------------
(* What the two sides of a pair compute.                                    *)

(* What source i and target p computed for the e-th entry.                  *)
Agrees(p, e, i) ==
  Match(Lay(i, shape.qty[e]).s, Lay(p, shape.qty[e]).r,
        SourceBlock(i, e), TargetBlock(p, e), SendIndex(p), i)

(* A source and a target agree on whether they exchange elements, on how    *)
(* many and on where these lie in both blocks.                              *)
LEMMA SidesAgree ==
  ASSUME Settled, NEW e \in 1 .. Entries, NEW p \in Procs, IsTarget(p),
         NEW i \in 0 .. shape.numP - 1,
         Computed(p, shape.qty[e]), Computed(i, shape.qty[e])
  PROVE  Agrees(p, e, i)
<1> DEFINE q == shape.qty[e]
           n == shape.numP
           m == shape.numC
           j == TargetId(p)
           S == SourceBlock(i, e)
           T == TargetBlock(p, e)
           s == Lay(i, q).s
           r == Lay(p, q).r
<1>1. /\ n \in Nat \ {0} /\ m \in Nat \ {0} /\ q \in Nat /\ i \in Procs /\ i \in 0 .. n - 1
      /\ IsSource(i) /\ j \in 0 .. m - 1 /\ Offset \in Nat /\ SendIndex(p) = j + Offset
  BY GroupsAre
<1>2. S = Block(q, i, n) /\ T = Block(q, j, m)
  BY DEF SourceBlock, TargetBlock
<1>3. s = Counts(q, i, n, m, Offset) /\ r = Counts(q, j, m, n, 0)
  BY <1>1 DEF Lay, SendCounts, RecvCounts
<1>4. ~DividesByZero(q, S, m) /\ ~DividesByZero(q, T, n)
  BY <1>1, <1>2 DEF Computed
<1>5. Match(s, r, S, T, j + Offset, i)
  <2> HIDE DEF q, n, m, j, S, T, s, r
  <2>1. Match(Counts(q, i, n, m, Offset), Counts(q, j, m, n, 0),
              Block(q, i, n), Block(q, j, m), j + Offset, i)
    BY <1>1, <1>2, <1>4, BothSidesAgree
  <2> QED BY <1>2, <1>3, <2>1, Zenon
<1>6. Match(s, r, S, T, SendIndex(p), i)
  <2> HIDE DEF s, r, S, T, j
  <2> QED BY <1>1, <1>5, Zenon
<1> QED BY <1>6, Zenon DEF Agrees

(* The process exchanges elements with itself: both tests of                *)
(* sync_point2point recognise it.                                           *)
LEMMA SelfKept ==
  ASSUME Settled, NEW e \in 1 .. Entries, NEW p \in Procs, IsTarget(p),
         p \in 0 .. shape.numP - 1, conf.spawn = "merge",
         Computed(p, shape.qty[e]),
         Overlap(SourceBlock(p, e), TargetBlock(p, e)) > 0
  PROVE  LET lay == Lay(p, shape.qty[e])
         IN  /\ LocalCopy(p, lay) <=> conf.method = "point" /\ ~conf.async
             /\ SkipSelf(p, lay) <=> conf.method = "point" /\ ~conf.async
<1> DEFINE q == shape.qty[e]
           n == shape.numP
           m == shape.numC
           S == Block(q, p, n)
           T == Block(q, p, m)
           lay == Lay(p, q)
<1>1. /\ n \in Nat \ {0} /\ m \in Nat \ {0} /\ q \in Nat /\ p \in 0 .. n - 1 /\ n # m
      /\ IsSource(p) /\ TargetId(p) \in 0 .. m - 1 /\ TargetId(p) = p /\ Offset = 0
  BY GroupsAre DEF Settled, TargetId, Offset
<1>2. S = SourceBlock(p, e) /\ T = TargetBlock(p, e)
  BY <1>1 DEF SourceBlock, TargetBlock
<1>3. lay.s = Counts(q, p, n, m, 0) /\ lay.r = Counts(q, p, m, n, 0)
  BY <1>1 DEF Lay, SendCounts, RecvCounts
<1>4. Overlap(S, T) > 0
  BY <1>2
<1>a. Overlap(S, T) = Overlap(T, S)
  BY <1>1, OverlapSymmetric
<1>5. /\ lay.s.idI = FirstPeer(q, S, m) + 0 /\ lay.s.idE = EndPeer(q, S, m) + 0
      /\ lay.r.idI = FirstPeer(q, T, n) + 0 /\ lay.r.idE = EndPeer(q, T, n) + 0
  <2> HIDE DEF lay
  <2> QED BY <1>3 DEF Counts
<1>6. CASE n < m
  <2>1. FirstPeer(q, S, m) = p /\ EndPeer(q, T, n) = p + 1
    BY <1>1, <1>4, <1>6, SelfPeer
  <2> HIDE DEF lay, S, T
  <2>2. lay.s.idI = p /\ lay.r.idE = p + 1
    BY <1>1, <1>5, <2>1
  <2> QED BY <2>2 DEF LocalCopy, SkipSelf, lay
<1>7. CASE m < n
  <2>1. Overlap(T, S) > 0 /\ p \in 0 .. m - 1
    BY <1>1, <1>4, <1>a
  <2>2. FirstPeer(q, T, n) = p /\ EndPeer(q, S, m) = p + 1
    BY <1>1, <1>7, <2>1, SelfPeer
  <2> HIDE DEF lay, S, T
  <2>3. lay.r.idI = p /\ lay.s.idE = p + 1
    BY <1>1, <1>5, <2>2
  <2> QED BY <2>3 DEF LocalCopy, SkipSelf, lay
<1>8. n < m \/ m < n
  BY <1>1
<1> QED BY <1>6, <1>7, <1>8

(* Who a process without a role talks to: nobody.                           *)
LEMMA NoRole ==
  ASSUME Settled, NEW p \in Procs, NEW qty
  PROVE  /\ ~IsSource(p) => Range0(Lay(p, qty).s) = {}
         /\ ~IsTarget(p) => Range0(Lay(p, qty).r) = {}
BY DEF Lay, SendCounts, RecvCounts, NoCounts, Range0

(* The peers of a target are sources.                                       *)
LEMMA PeersAreSources ==
  ASSUME Settled, NEW e \in 1 .. Entries, NEW p \in Procs, Computed(p, shape.qty[e])
  PROVE  Range0(Lay(p, shape.qty[e]).r) \subseteq 0 .. shape.numP - 1
<1> DEFINE q == shape.qty[e]
           n == shape.numP
           m == shape.numC
           j == TargetId(p)
           T == Block(q, j, m)
           r == Lay(p, q).r
<1>1. CASE ~IsTarget(p)
  BY <1>1, NoRole
<1>2. CASE IsTarget(p)
  <2>1. /\ n \in Nat \ {0} /\ m \in Nat \ {0} /\ q \in Nat /\ j \in 0 .. m - 1
    BY <1>2, GroupsAre
  <2>2. r = Counts(q, j, m, n, 0) /\ ~DividesByZero(q, T, n)
    BY <1>2 DEF Lay, RecvCounts, Computed
  <2>3. r.idI = FirstPeer(q, T, n) + 0 /\ r.idE = EndPeer(q, T, n) + 0
    <3> HIDE DEF r
    <3> QED BY <2>2 DEF Counts
  <2>4. T.ini \in Nat /\ T.fin \in Nat /\ T.ini <= T.fin
    BY <2>1, Within
  <2>5. CASE T.ini = T.fin
    <3>1. FirstPeer(q, T, n) = n /\ EndPeer(q, T, n) = n
      BY <2>1, <2>2, <2>5, NoPeers
    <3> HIDE DEF r
    <3> QED BY <2>1, <2>3, <3>1 DEF Range0, r
  <2>6. CASE T.ini < T.fin
    <3>1. FirstPeer(q, T, n) \in 0 .. n - 1 /\ EndPeer(q, T, n) \in 1 .. n
      BY <2>1, <2>6, PeersAre
    <3> HIDE DEF r, T
    <3> QED BY <2>1, <2>3, <3>1 DEF Range0, r
  <2> HIDE DEF T
  <2> QED BY <2>4, <2>5, <2>6
<1> QED BY <1>1, <1>2

------------------------------------------------------------------------------
(* What a step does to the sequences of one process.                        *)

(* Source i holds the k-th element of the block of target p.                *)
Owns(i, p, e, k) ==
  LET y == TargetBlock(p, e).ini + k
  IN  SourceBlock(i, e).ini <= y /\ y < SourceBlock(i, e).fin

(* The owner of an element of a target exchanges elements with it.          *)
LEMMA OwnersMeet ==
  ASSUME Settled, NEW e \in 1 .. Entries, NEW p \in Procs, IsTarget(p),
         NEW i \in 0 .. shape.numP - 1, NEW k \in 0 .. TargetBlock(p, e).tamBl - 1,
         Owns(i, p, e, k)
  PROVE  Overlap(SourceBlock(i, e), TargetBlock(p, e)) > 0
<1> DEFINE S == SourceBlock(i, e)
           T == TargetBlock(p, e)
<1>1. /\ S.ini \in Nat /\ S.fin \in Nat /\ S.tamBl \in Nat
      /\ T.ini \in Nat /\ T.fin \in Nat /\ T.tamBl \in Nat /\ T.fin = T.ini + T.tamBl
  BY BlocksAre
<1>2. S.ini <= T.ini + k /\ T.ini + k < S.fin
  BY DEF Owns
<1> HIDE DEF S, T
<1>3. k \in Nat /\ k < T.tamBl
  BY <1>1 DEF T
<1>4. ~(S.ini >= T.fin) /\ ~(S.fin <= T.ini) /\ Smaller(S.fin, T.fin) - Bigger(S.ini, T.ini) > 0
  BY <1>1, <1>2, <1>3 DEF Smaller, Bigger
<1>5. Overlap(S, T) > 0
  BY <1>4 DEF Overlap
<1> QED BY <1>5 DEF S, T

(* The slice memcpy is given: the elements the process has on both sides,   *)
(* or nothing.                                                              *)
LEMMA KeptSlice ==
  ASSUME Settled, NEW e \in 1 .. Entries, NEW p \in Procs, IsTarget(p),
         Computed(p, shape.qty[e]), LocalCopy(p, Lay(p, shape.qty[e]))
  PROVE  LET lay == Lay(p, shape.qty[e])
             S == SourceBlock(p, e)
             T == TargetBlock(p, e)
         IN  \/ /\ CountOf(lay.s, p) = 0
                /\ ~(p \in 0 .. shape.numP - 1 /\ Overlap(S, T) > 0)
             \/ /\ p \in 0 .. shape.numP - 1 /\ Overlap(S, T) > 0
                /\ CountOf(lay.s, p) = Overlap(S, T)
                /\ DisplOf(lay.s, p) = Bigger(S.ini, T.ini) - S.ini
                /\ DisplOf(lay.r, p) = Bigger(S.ini, T.ini) - T.ini
                /\ Overlap(S, T) = Smaller(S.fin, T.fin) - Bigger(S.ini, T.ini)
<1> DEFINE lay == Lay(p, shape.qty[e])
           S == SourceBlock(p, e)
           T == TargetBlock(p, e)
<1>1. conf.spawn = "merge"
  BY DEF LocalCopy
<1>2. CASE p \in 0 .. shape.numP - 1
  <2>1. Agrees(p, e, p) /\ SendIndex(p) = p
    BY <1>1, <1>2, SidesAgree DEF SendIndex, Settled, Confs
  <2>2. CASE Overlap(S, T) > 0
    <3>1. /\ DOMAIN lay.s.counts = lay.s.idI .. (lay.s.idE - 1)
          /\ DOMAIN lay.s.displs = lay.s.idI .. (lay.s.idE - 1)
          /\ DOMAIN lay.r.displs = lay.r.idI .. (lay.r.idE - 1)
          /\ p \in lay.s.idI .. (lay.s.idE - 1) /\ p \in lay.r.idI .. (lay.r.idE - 1)
          /\ Overlap(S, T) = Smaller(S.fin, T.fin) - Bigger(S.ini, T.ini)
          /\ lay.s.counts[p] = Overlap(S, T)
          /\ lay.s.displs[p] = Bigger(S.ini, T.ini) - S.ini
          /\ lay.r.displs[p] = Bigger(S.ini, T.ini) - T.ini
      BY <2>1, <2>2, Zenon DEF Agrees, Match
    <3> HIDE DEF lay, S, T
    <3>2. /\ CountOf(lay.s, p) = Overlap(S, T)
          /\ DisplOf(lay.s, p) = Bigger(S.ini, T.ini) - S.ini
          /\ DisplOf(lay.r, p) = Bigger(S.ini, T.ini) - T.ini
      BY <3>1 DEF CountOf, DisplOf
    <3> QED BY <1>2, <2>2, <3>1, <3>2 DEF lay, S, T
  <2>3. CASE ~(Overlap(S, T) > 0)
    <3>1. p \notin DOMAIN lay.s.counts
      <4> HIDE DEF lay, S, T
      <4> QED BY <2>1, <2>3 DEF Agrees, Match, lay, S, T
    <3>2. CountOf(lay.s, p) = 0
      <4> HIDE DEF lay
      <4> QED BY <3>1 DEF CountOf
    <3> QED BY <2>3, <3>2
  <2> QED BY <2>2, <2>3
<1>3. CASE p \notin 0 .. shape.numP - 1
  <2>1. ~IsSource(p)
    BY <1>3, GroupsAre
  <2>2. lay.s = NoCounts
    BY <2>1 DEF Lay, SendCounts
  <2>3. DOMAIN lay.s.counts = {}
    BY <2>2 DEF NoCounts
  <2>4. CountOf(lay.s, p) = 0
    <3> HIDE DEF lay
    <3> QED BY <2>3 DEF CountOf
  <2> QED BY <1>3, <2>4
<1> QED BY <1>2, <1>3

(* What memcpy leaves out are elements the process itself was to keep.      *)
LEMMA CutOwned ==
  ASSUME Settled, NEW e \in 1 .. Entries, NEW p \in Procs, IsTarget(p),
         Computed(p, shape.qty[e]), NEW k \in 0 .. TargetBlock(p, e).tamBl - 1,
         Cut(p, Lay(p, shape.qty[e]), k)
  PROVE  p \in 0 .. shape.numP - 1 /\ Owns(p, p, e, k)
<1> DEFINE lay == Lay(p, shape.qty[e])
           S == SourceBlock(p, e)
           T == TargetBlock(p, e)
           at == DisplOf(lay.r, p)
           n == CountOf(lay.s, p)
           c == CopiedElements(lay, p)
<1>1. LocalCopy(p, lay) /\ k - at \in c .. n - 1 /\ c = n \div DataSize
  BY DEF Cut, CopiedElements
<1>2. T.ini \in Nat /\ T.fin \in Nat /\ T.tamBl \in Nat /\ T.fin = T.ini + T.tamBl
  BY BlocksAre
<1>3. DataSize \in Nat \ {0}
  BY ParametersOK
<1>4. n # 0
  <2>1. SUFFICES ASSUME n = 0 PROVE FALSE
    OBVIOUS
  <2>2. 0 \div DataSize = 0
    BY <1>3
  <2>3. c = 0 /\ n - 1 = -1
    <3> HIDE DEF n, c
    <3> QED BY <1>1, <2>1, <2>2
  <2> HIDE DEF n, c, at
  <2> QED BY <1>1, <2>3
<1>5. /\ p \in 0 .. shape.numP - 1 /\ Overlap(S, T) > 0
      /\ n = Overlap(S, T)
      /\ at = Bigger(S.ini, T.ini) - T.ini
      /\ Overlap(S, T) = Smaller(S.fin, T.fin) - Bigger(S.ini, T.ini)
  BY <1>1, <1>4, KeptSlice
<1>6. /\ S.ini \in Nat /\ S.fin \in Nat /\ S.tamBl \in Nat /\ S.fin = S.ini + S.tamBl
  BY <1>5, BlocksAre
<1>7. n \in Nat /\ c \in Nat
  <2>1. n \in Nat
    <3> HIDE DEF n, S, T
    <3> QED BY <1>2, <1>5, <1>6 DEF Bigger, Smaller
  <2>2. n \div DataSize \in Nat
    <3> HIDE DEF n
    <3> QED BY <1>3, <2>1
  <2> QED BY <1>1, <2>1, <2>2
<1> HIDE DEF lay, S, T, at, n, c
<1>8. k \in Nat /\ k < T.tamBl
  BY <1>2 DEF T
<1>9. S.ini <= T.ini + k /\ T.ini + k < S.fin
  BY <1>1, <1>2, <1>5, <1>6, <1>7, <1>8 DEF Bigger, Smaller
<1> QED BY <1>5, <1>9 DEF Owns, S, T

(* Only elements of the process itself are left out: what another source    *)
(* sends is never in memcpy's slice.                                        *)
LEMMA SentWhole ==
  ASSUME Settled, NEW e \in 1 .. Entries, NEW p \in Procs, IsTarget(p),
         Computed(p, shape.qty[e]), NEW k \in 0 .. TargetBlock(p, e).tamBl - 1,
         NEW j \in 0 .. shape.numP - 1, j \in RecvPeers(p, Lay(p, shape.qty[e])),
         Owns(j, p, e, k)
  PROVE  ~Cut(p, Lay(p, shape.qty[e]), k)
<1> DEFINE lay == Lay(p, shape.qty[e])
<1>1. SUFFICES ASSUME Cut(p, lay, k) PROVE FALSE
  OBVIOUS
<1>2. p \in 0 .. shape.numP - 1 /\ Owns(p, p, e, k)
  BY <1>1, CutOwned
<1>3. CASE j = p
  <2>1. LocalCopy(p, lay) /\ conf.spawn = "merge"
    BY <1>1 DEF Cut, LocalCopy
  <2>2. Overlap(SourceBlock(p, e), TargetBlock(p, e)) > 0
    BY <1>2, OwnersMeet
  <2>3. SkipSelf(p, lay)
    BY <1>2, <2>1, <2>2, SelfKept, Zenon
  <2> HIDE DEF lay
  <2> QED BY <1>3, <2>3 DEF RecvPeers, lay
<1>4. CASE j # p
  <2> DEFINE y == TargetBlock(p, e).ini + k
             n == shape.numP
             q == shape.qty[e]
  <2>1. q \in Nat /\ n \in Nat \ {0}
    BY GroupsAre
  <2>2. /\ Block(q, j, n).ini <= y /\ y < Block(q, j, n).fin
        /\ Block(q, p, n).ini <= y /\ y < Block(q, p, n).fin
    BY <1>2 DEF Owns, SourceBlock
  <2>3. /\ Block(q, j, n).ini \in Nat /\ Block(q, j, n).fin \in Nat
        /\ Block(q, p, n).ini \in Nat /\ Block(q, p, n).fin \in Nat
    BY <1>2, <2>1, Within
  <2>4. y \in Nat
    <3>1. TargetBlock(p, e).ini \in Nat /\ TargetBlock(p, e).tamBl \in Nat
      BY BlocksAre
    <3> QED BY <3>1
  <2>5. CASE j < p
    <3>1. Block(q, j, n).fin <= Block(q, p, n).ini
      BY <1>2, <2>1, <2>5, Ordered
    <3> HIDE DEF y, n, q
    <3> QED BY <2>2, <2>3, <2>4, <3>1
  <2>6. CASE p < j
    <3>1. Block(q, p, n).fin <= Block(q, j, n).ini
      BY <1>2, <2>1, <2>6, Ordered
    <3> HIDE DEF y, n, q
    <3> QED BY <2>2, <2>3, <2>4, <3>1
  <2>7. j < p \/ p < j
    BY <1>2, <1>4, <2>1
  <2> QED BY <2>5, <2>6, <2>7
<1> QED BY <1>3, <1>4

(* The new buffer of a target, and what memcpy leaves in it.                *)
LEMMA FreshIs ==
  ASSUME Settled, NEW e \in 1 .. Entries, NEW p \in Procs, IsTarget(p), Computed(p, shape.qty[e])
  PROVE  LET lay == Lay(p, shape.qty[e])
             T == TargetBlock(p, e)
             new == FreshBuffer(p, e, lay)
         IN  /\ new \in [0 .. T.tamBl - 1 -> Int]
             /\ LocalCopy(p, lay) =>
                  \A k \in 0 .. T.tamBl - 1 :
                    Owns(p, p, e, k) /\ p \in 0 .. shape.numP - 1 =>
                      new[k] = (IF Cut(p, lay, k) THEN Junk ELSE T.ini + k)
<1> DEFINE q == shape.qty[e]
           lay == Lay(p, q)
           S == SourceBlock(p, e)
           T == TargetBlock(p, e)
           new == FreshBuffer(p, e, lay)
           at == DisplOf(lay.r, p)
           n == CountOf(lay.s, p)
           c == CopiedElements(lay, p)
           d == DisplOf(lay.s, p)
<1>1. T.ini \in Nat /\ T.fin \in Nat /\ T.tamBl \in Nat /\ T.fin = T.ini + T.tamBl
  BY BlocksAre
<1>2. new = [k \in 0 .. T.tamBl - 1 |->
              IF LocalCopy(p, lay) /\ k - at \in 0 .. c - 1
                THEN SourceElement(p, e, d + (k - at)) ELSE Junk]
  BY DEF FreshBuffer
<1>3. DataSize \in Nat \ {0} /\ c = n \div DataSize
  BY ParametersOK DEF CopiedElements
<1>4. CASE ~LocalCopy(p, lay)
  <2> HIDE DEF new, lay, at, c, d, T
  <2>1. new \in [0 .. T.tamBl - 1 -> Int]
    BY <1>2, <1>4 DEF Junk
  <2> QED BY <1>4, <2>1 DEF new, lay, T
<1>5. CASE LocalCopy(p, lay) /\ n = 0 /\ ~(p \in 0 .. shape.numP - 1 /\ Overlap(S, T) > 0)
  <2>1. c = 0
    <3>1. 0 \div DataSize = 0
      BY <1>3
    <3> HIDE DEF n, c
    <3> QED BY <1>3, <1>5, <3>1
  <2>2. \A k \in 0 .. T.tamBl - 1 : ~(LocalCopy(p, lay) /\ k - at \in 0 .. c - 1)
    <3> HIDE DEF lay, at, c, T
    <3> QED BY <2>1
  <2>3. new \in [0 .. T.tamBl - 1 -> Int]
    <3> HIDE DEF new, lay, at, c, d, T
    <3> QED BY <1>2, <2>2 DEF Junk
  <2>4. \A k \in 0 .. T.tamBl - 1 : ~(Owns(p, p, e, k) /\ p \in 0 .. shape.numP - 1)
    BY <1>5, OwnersMeet
  <2> QED BY <2>3, <2>4
<1>6. CASE /\ LocalCopy(p, lay)
           /\ p \in 0 .. shape.numP - 1 /\ Overlap(S, T) > 0
           /\ n = Overlap(S, T)
           /\ d = Bigger(S.ini, T.ini) - S.ini
           /\ at = Bigger(S.ini, T.ini) - T.ini
           /\ Overlap(S, T) = Smaller(S.fin, T.fin) - Bigger(S.ini, T.ini)
  <2>1. /\ S.ini \in Nat /\ S.fin \in Nat /\ S.tamBl \in Nat /\ S.fin = S.ini + S.tamBl
    BY <1>6, BlocksAre
  <2> HIDE DEF S, T, lay, d, at, new, n
  <2>2. n \in Nat
    BY <1>1, <1>6, <2>1 DEF Bigger, Smaller
  <2>3. c \in Nat
    <3>1. n \div DataSize \in Nat
      BY <1>3, <2>2
    <3> QED BY <1>3, <3>1
  <2> HIDE DEF c
  <2>4. \A x \in Int : SourceElement(p, e, x) \in Int
    BY <2>1 DEF SourceElement, Junk, S
  <2>5. d \in Int /\ at \in Int
    BY <1>1, <1>6, <2>1 DEF Bigger
  <2>6. new \in [0 .. T.tamBl - 1 -> Int]
    <3>1. \A k \in 0 .. T.tamBl - 1 : d + (k - at) \in Int
      BY <2>5
    <3> QED BY SMTT(30), <1>2, <2>4, <3>1 DEF Junk
  <2>7. ASSUME NEW k \in 0 .. T.tamBl - 1, Owns(p, p, e, k)
        PROVE  new[k] = (IF Cut(p, lay, k) THEN Junk ELSE T.ini + k)
    <3>1. S.ini <= T.ini + k /\ T.ini + k < S.fin
      BY <2>7 DEF Owns, S, T
    <3>2. k \in Nat /\ k < T.tamBl
      BY <1>1
    <3>3. k - at \in 0 .. n - 1
      BY <1>1, <1>6, <2>1, <3>1, <3>2 DEF Bigger, Smaller
    <3>4. CASE k - at \in 0 .. c - 1
      <4>1. new[k] = SourceElement(p, e, d + (k - at))
        BY <1>2, <1>6, <3>4
      <4>2. d + (k - at) < S.tamBl /\ S.ini + (d + (k - at)) = T.ini + k
        BY <1>1, <1>6, <2>1, <3>1, <3>2 DEF Bigger
      <4>3. k - at \notin c .. n - 1
        BY <2>2, <2>3, <2>5, <3>2, <3>4
      <4>4. ~Cut(p, lay, k)
        BY <4>3 DEF Cut, at, c, n
      <4>5. SourceElement(p, e, d + (k - at)) = T.ini + k
        BY <4>2 DEF SourceElement, S
      <4> QED BY <4>1, <4>4, <4>5
    <3>5. CASE k - at \notin 0 .. c - 1
      <4>1. new[k] = Junk
        BY <1>2, <3>5
      <4>2. k - at \in c .. n - 1
        BY <2>2, <2>3, <2>5, <3>2, <3>3, <3>5
      <4>3. Cut(p, lay, k)
        BY <1>6, <4>2 DEF Cut, at, c, n
      <4> QED BY <4>1, <4>3
    <3> QED BY <3>4, <3>5
  <2> QED BY <2>6, <2>7 DEF lay, T, new
<1>7. LocalCopy(p, lay) =>
        \/ n = 0 /\ ~(p \in 0 .. shape.numP - 1 /\ Overlap(S, T) > 0)
        \/ /\ p \in 0 .. shape.numP - 1 /\ Overlap(S, T) > 0
           /\ n = Overlap(S, T)
           /\ d = Bigger(S.ini, T.ini) - S.ini
           /\ at = Bigger(S.ini, T.ini) - T.ini
           /\ Overlap(S, T) = Smaller(S.fin, T.fin) - Bigger(S.ini, T.ini)
  BY KeptSlice
<1> QED BY <1>4, <1>5, <1>6, <1>7

(* The layout of the next entry is the one its quantity asks for, whether   *)
(* it is computed or taken from the previous entry.                         *)
LEMMA PrepareIs ==
  ASSUME Types, Prepared, NEW p \in Procs, CanStart(p, Started(p) + 1),
         ~PrepareFaults(p, Started(p) + 1)
  PROVE  LET e == Started(p) + 1
         IN  /\ e \in 1 .. Entries
             /\ Prepare(p, e) = Lay(p, shape.qty[e]) /\ Computed(p, shape.qty[e])
             /\ Lay(p, shape.qty[e]) \in Layouts
<1> DEFINE e == Started(p) + 1
<1>1. Settled /\ Started(p) \in 0 .. Entries /\ Started(p) = Len(layout[p])
  BY DEF Types, Started
<1>2. e \in 1 .. Entries
  <2>1. e <= Entries
    BY DEF CanStart
  <2> QED BY <1>1, <2>1, ParametersOK
<1>3. Lay(p, shape.qty[e]) \in Layouts
  BY <1>1, <1>2, GroupsAre DEF Layouts
<1>4. CASE SameAsPrevious(e)
  <2>1. e > 1 /\ shape.qty[e] = shape.qty[e - 1]
    BY <1>4 DEF SameAsPrevious
  <2>2. e - 1 \in 1 .. Started(p)
    BY <1>1, <1>2, <2>1
  <2>3. layout[p][e - 1] = Lay(p, shape.qty[e - 1]) /\ Computed(p, shape.qty[e - 1])
    BY <2>2 DEF Prepared
  <2>4. Prepare(p, e) = layout[p][e - 1]
    BY <1>4 DEF Prepare
  <2> QED BY <1>2, <1>3, <2>1, <2>3, <2>4
<1>5. CASE ~SameAsPrevious(e)
  <2>1. Prepare(p, e) = Lay(p, shape.qty[e])
    BY <1>5 DEF Prepare, Lay
  <2>2. Computed(p, shape.qty[e])
    BY <1>5 DEF PrepareFaults, Computed, SourceBlock, TargetBlock
  <2> QED BY <1>2, <1>3, <2>1, <2>2
<1> QED BY <1>4, <1>5

(* Start gives one process one more entry, and leaves the others alone.     *)
LEMMA StartDoes ==
  ASSUME Types, Prepared, NEW p \in Procs, Start(p)
  PROVE  LET e == Started(p) + 1
             lay == Lay(p, shape.qty[e])
         IN  /\ e \in 1 .. Entries /\ Computed(p, shape.qty[e])
             /\ CanStart(p, e)
             /\ UNCHANGED <<conf, shape, phase>>
             /\ layout' = [layout EXCEPT ![p] = Append(layout[p], lay)]
             /\ recv' = [recv EXCEPT ![p] = Append(recv[p], FreshBuffer(p, e, lay))]
             /\ got' = [got EXCEPT ![p] = Append(got[p], {})]
             /\ lay \in Layouts /\ FreshBuffer(p, e, lay) \in Buffers
<1> DEFINE e == Started(p) + 1
           lay == Lay(p, shape.qty[e])
<1>1. CanStart(p, e) /\ ~PrepareFaults(p, e) /\ UNCHANGED <<conf, shape, phase>>
  BY DEF Start
<1>2. e \in 1 .. Entries /\ Prepare(p, e) = lay /\ Computed(p, shape.qty[e]) /\ lay \in Layouts
  BY <1>1, PrepareIs
<1>3. /\ layout' = [layout EXCEPT ![p] = Append(layout[p], lay)]
      /\ recv' = [recv EXCEPT ![p] = Append(recv[p], FreshBuffer(p, e, lay))]
      /\ got' = [got EXCEPT ![p] = Append(got[p], {})]
  BY <1>2, Zenon DEF Start
<1>4. FreshBuffer(p, e, lay) \in Buffers
  <2>1. CASE ~IsTarget(p)
    BY <2>1 DEF FreshBuffer, Buffers
  <2>2. CASE IsTarget(p)
    <3>1. Settled
      BY DEF Types
    <3>2. FreshBuffer(p, e, lay) \in [0 .. TargetBlock(p, e).tamBl - 1 -> Int]
      BY <1>2, <2>2, <3>1, FreshIs
    <3>3. TargetBlock(p, e).tamBl \in Nat
      BY <1>2, <2>2, <3>1, BlocksAre
    <3> QED BY <3>2, <3>3 DEF Buffers
  <2> QED BY <2>1, <2>2
<1> QED BY <1>1, <1>2, <1>3, <1>4

(* The elements that arrive go into the buffer of the entry they are for.   *)
LEMMA ArriveDoes ==
  ASSUME Types, Prepared, NEW p \in Procs, NEW e \in 1 .. Entries,
         NEW i \in 0 .. shape.numP - 1, Arrive(p, e, i)
  PROVE  /\ e \in 1 .. Started(p) /\ i \in RecvPeers(p, layout[p][e]) /\ CanArrive(p, e, i)
         /\ UNCHANGED <<conf, shape, layout, phase>>
         /\ recv' = [recv EXCEPT ![p] = [recv[p] EXCEPT ![e] = Filled(p, e, i)]]
         /\ got' = [got EXCEPT ![p] = [got[p] EXCEPT ![e] = got[p][e] \cup {i}]]
<1>1. CanArrive(p, e, i) /\ UNCHANGED <<conf, shape, layout, phase>>
  BY DEF Arrive
<1>2. e \in 1 .. Started(p) /\ i \in RecvPeers(p, layout[p][e])
  <2>1. e <= Started(p) /\ i \in Pending(p, e)
    BY <1>1 DEF CanArrive
  <2>2. Started(p) \in Nat
    BY DEF Types, Started
  <2> QED BY <2>1, <2>2 DEF Pending
<1>3. /\ recv' = [recv EXCEPT ![p] = [recv[p] EXCEPT ![e] = Filled(p, e, i)]]
      /\ got' = [got EXCEPT ![p] = [got[p] EXCEPT ![e] = got[p][e] \cup {i}]]
  BY DEF Arrive
<1> QED BY <1>1, <1>2, <1>3

(* Where a slice lies in the blocks of both processes.                      *)
LEMMA SliceIs ==
  ASSUME Types, Prepared, NEW p \in Procs, NEW e \in 1 .. Started(p),
         NEW i \in RecvPeers(p, layout[p][e]), Available(p, e, i)
  PROVE  LET S == SourceBlock(i, e)
             T == TargetBlock(p, e)
         IN  /\ e \in 1 .. Entries /\ i \in 0 .. shape.numP - 1 /\ IsTarget(p)
             /\ i \in Procs /\ Started(i) >= e
             /\ layout[p][e] = Lay(p, shape.qty[e]) /\ layout[i][e] = Lay(i, shape.qty[e])
             /\ S.ini < T.fin /\ T.ini < S.fin
             /\ Slice(p, e, i).from = Bigger(S.ini, T.ini) - S.ini
             /\ Slice(p, e, i).size = Smaller(S.fin, T.fin) - Bigger(S.ini, T.ini)
             /\ DisplOf(layout[p][e].r, i) = Bigger(S.ini, T.ini) - T.ini
<1> DEFINE S == SourceBlock(i, e)
           T == TargetBlock(p, e)
           q == shape.qty[e]
           r == Lay(p, q).r
           s == Lay(i, q).s
<1>1. Settled /\ Started(p) \in 0 .. Entries /\ Entries \in Nat \ {0}
  BY ParametersOK DEF Types, Started
<1>2. e \in 1 .. Entries
  BY <1>1
<1>3. layout[p][e] = Lay(p, q) /\ Computed(p, q)
  BY DEF Prepared
<1>4. i \in Range0(r)
  BY <1>3, Zenon DEF RecvPeers
<1>5. i \in 0 .. shape.numP - 1
  BY <1>1, <1>2, <1>3, <1>4, PeersAreSources, Zenon
<1>6. IsTarget(p)
  BY <1>1, <1>4, NoRole
<1>7. i \in Procs
  BY <1>1, <1>5, GroupsAre
<1>8. Started(i) >= e
  BY <1>7 DEF Available, Windows
<1>9. e \in 1 .. Started(i)
  <2>1. Started(i) \in Nat
    BY <1>7 DEF Types, Started
  <2> QED BY <1>2, <1>8, <2>1
<1>10. layout[i][e] = Lay(i, q) /\ Computed(i, q)
  BY <1>7, <1>9 DEF Prepared
<1>11. Agrees(p, e, i)
  BY <1>1, <1>2, <1>3, <1>5, <1>6, <1>10, SidesAgree
<1>12. /\ DOMAIN s.counts = s.idI .. (s.idE - 1)
       /\ DOMAIN s.displs = s.idI .. (s.idE - 1)
       /\ DOMAIN r.counts = r.idI .. (r.idE - 1)
       /\ DOMAIN r.displs = r.idI .. (r.idE - 1)
       /\ SendIndex(p) \in s.idI .. (s.idE - 1) /\ i \in r.idI .. (r.idE - 1)
       /\ S.ini < T.fin /\ T.ini < S.fin
       /\ Overlap(S, T) = Smaller(S.fin, T.fin) - Bigger(S.ini, T.ini)
       /\ s.counts[SendIndex(p)] = Overlap(S, T)
       /\ s.displs[SendIndex(p)] = Bigger(S.ini, T.ini) - S.ini
       /\ r.counts[i] = Overlap(S, T)
       /\ r.displs[i] = Bigger(S.ini, T.ini) - T.ini
       /\ (IF i = r.idI THEN r.first ELSE 0) = Bigger(S.ini, T.ini) - S.ini
  BY <1>4, <1>11, Zenon DEF Agrees, Match, Range0
<1> HIDE DEF S, T, r, s
<1>13. /\ CountOf(s, SendIndex(p)) = Overlap(S, T)
       /\ DisplOf(s, SendIndex(p)) = Bigger(S.ini, T.ini) - S.ini
       /\ CountOf(r, i) = Overlap(S, T)
       /\ DisplOf(r, i) = Bigger(S.ini, T.ini) - T.ini
  BY <1>12 DEF CountOf, DisplOf
<1>14. layout[p][e].r = r /\ layout[i][e].s = s
  BY <1>3, <1>10 DEF r, s
<1>15. /\ Slice(p, e, i).from = Bigger(S.ini, T.ini) - S.ini
       /\ Slice(p, e, i).size = Overlap(S, T)
  <2>1. CASE conf.method = "rma"
    BY <1>12, <1>13, <1>14, <2>1 DEF Slice, TargetDispl
  <2>2. CASE conf.method # "rma"
    BY <1>13, <1>14, <2>2 DEF Slice
  <2> QED BY <2>1, <2>2
<1>16. DisplOf(layout[p][e].r, i) = Bigger(S.ini, T.ini) - T.ini
  BY <1>13, <1>14
<1> QED BY <1>2, <1>3, <1>5, <1>6, <1>7, <1>8, <1>10, <1>12, <1>15, <1>16 DEF S, T

(* Receiving the elements of a peer puts each in its place, and changes no  *)
(* other element of the buffer.                                             *)
LEMMA FilledIs ==
  ASSUME Types, Prepared, NEW p \in Procs, NEW e \in 1 .. Started(p),
         NEW i \in RecvPeers(p, layout[p][e]), Available(p, e, i)
  PROVE  LET T == TargetBlock(p, e)
             new == Filled(p, e, i)
         IN  /\ new \in Buffers /\ new \in [0 .. T.tamBl - 1 -> Int]
             /\ \A k \in 0 .. T.tamBl - 1 :
                  \/ new[k] = recv[p][e][k] /\ ~Owns(i, p, e, k)
                  \/ new[k] = T.ini + k /\ Owns(i, p, e, k)
<1> DEFINE S == SourceBlock(i, e)
           T == TargetBlock(p, e)
           old == recv[p][e]
           new == Filled(p, e, i)
           at == DisplOf(layout[p][e].r, i)
           from == Slice(p, e, i).from
           size == Slice(p, e, i).size
<1>1. /\ e \in 1 .. Entries /\ i \in 0 .. shape.numP - 1 /\ IsTarget(p)
      /\ S.ini < T.fin /\ T.ini < S.fin
      /\ from = Bigger(S.ini, T.ini) - S.ini
      /\ size = Smaller(S.fin, T.fin) - Bigger(S.ini, T.ini)
      /\ at = Bigger(S.ini, T.ini) - T.ini
  BY SliceIs
<1>2. Settled
  BY DEF Types
<1>3. /\ S.ini \in Nat /\ S.fin \in Nat /\ S.tamBl \in Nat /\ S.fin = S.ini + S.tamBl
      /\ T.ini \in Nat /\ T.fin \in Nat /\ T.tamBl \in Nat /\ T.fin = T.ini + T.tamBl
  BY <1>1, <1>2, BlocksAre
<1>4. old \in [0 .. T.tamBl - 1 -> Int]
  BY <1>1 DEF Prepared
<1>6. new = [k \in DOMAIN old |-> IF k - at \in 0 .. size - 1
                                   THEN SourceElement(i, e, from + (k - at)) ELSE old[k]]
  BY DEF Filled
<1> HIDE DEF S, T, old, new, at, from, size
<1>7. \A x \in Int : SourceElement(i, e, x) \in Int
  BY <1>3 DEF SourceElement, Junk, S
<1>8. at \in Int /\ from \in Int /\ size \in Int
  BY <1>1, <1>3 DEF Bigger, Smaller
<1>9. new \in [0 .. T.tamBl - 1 -> Int]
  <2>1. \A k \in 0 .. T.tamBl - 1 : from + (k - at) \in Int
    BY <1>3, <1>8
  <2> QED BY <1>4, <1>6, <1>7, <2>1
<1>10. ASSUME NEW k \in 0 .. T.tamBl - 1
       PROVE  \/ new[k] = old[k] /\ ~Owns(i, p, e, k)
              \/ new[k] = T.ini + k /\ Owns(i, p, e, k)
  <2>0. k \in Nat /\ k < T.tamBl
    BY <1>3
  <2>1. CASE k - at \in 0 .. size - 1
    <3>1. from + (k - at) < S.tamBl /\ S.ini + (from + (k - at)) = T.ini + k
      BY <1>1, <1>3, <2>0, <2>1 DEF Bigger, Smaller
    <3>2. new[k] = SourceElement(i, e, from + (k - at))
      BY <1>4, <1>6, <2>1
    <3>3. S.ini <= T.ini + k /\ T.ini + k < S.fin
      BY <1>1, <1>3, <2>0, <2>1 DEF Bigger, Smaller
    <3>4. Owns(i, p, e, k)
      BY <3>3 DEF Owns, S, T
    <3>5. SourceElement(i, e, from + (k - at)) = T.ini + k
      BY <3>1 DEF SourceElement, S
    <3> QED BY <3>2, <3>4, <3>5
  <2>2. CASE k - at \notin 0 .. size - 1
    <3>1. new[k] = old[k]
      BY <1>4, <1>6, <2>2
    <3>2. ~Owns(i, p, e, k)
      <4>1. SUFFICES ASSUME Owns(i, p, e, k) PROVE FALSE
        OBVIOUS
      <4>2. S.ini <= T.ini + k /\ T.ini + k < S.fin
        BY <4>1 DEF Owns, S, T
      <4> QED BY <1>1, <1>3, <2>0, <2>2, <4>2 DEF Bigger, Smaller
    <3> QED BY <3>1, <3>2
  <2> QED BY <2>1, <2>2
<1>11. new \in Buffers
  BY <1>3, <1>9 DEF Buffers
<1> QED BY <1>9, <1>10, <1>11 DEF T, old, new

------------------------------------------------------------------------------
(* Types and layouts.                                                       *)

(* What the sequences of one process hold after it starts an entry.         *)
LEMMA Started1 ==
  ASSUME Types, Prepared, NEW p \in Procs, Start(p)
  PROVE  LET e == Started(p) + 1
             lay == Lay(p, shape.qty[e])
         IN  /\ Procs' = Procs
             /\ layout' \in [Procs -> Seq(Layouts)] /\ recv' \in [Procs -> Seq(Buffers)]
             /\ got' \in [Procs -> Seq(SUBSET Nat)]
             /\ \A x \in Procs : x # p =>
                  layout'[x] = layout[x] /\ recv'[x] = recv[x] /\ got'[x] = got[x]
             /\ Len(layout'[p]) = e /\ Len(recv'[p]) = e /\ Len(got'[p]) = e
             /\ \A d \in 1 .. Started(p) :
                  layout'[p][d] = layout[p][d] /\ recv'[p][d] = recv[p][d] /\ got'[p][d] = got[p][d]
             /\ layout'[p][e] = lay /\ recv'[p][e] = FreshBuffer(p, e, lay) /\ got'[p][e] = {}
<1> DEFINE e == Started(p) + 1
           lay == Lay(p, shape.qty[e])
           new == FreshBuffer(p, e, lay)
<1>1. /\ UNCHANGED <<conf, shape, phase>>
      /\ layout' = [layout EXCEPT ![p] = Append(layout[p], lay)]
      /\ recv' = [recv EXCEPT ![p] = Append(recv[p], new)]
      /\ got' = [got EXCEPT ![p] = Append(got[p], {})]
      /\ lay \in Layouts /\ new \in Buffers
  BY StartDoes
<1>2. /\ layout \in [Procs -> Seq(Layouts)] /\ recv \in [Procs -> Seq(Buffers)]
      /\ got \in [Procs -> Seq(SUBSET Nat)]
      /\ Len(layout[p]) = Started(p) /\ Len(recv[p]) = Started(p) /\ Len(got[p]) = Started(p)
  BY DEF Types, Started
<1>3. Procs' = Procs
  BY <1>1, GroupsStay
<1> HIDE DEF lay, new
<1>4. /\ Append(layout[p], lay) \in Seq(Layouts) /\ Len(Append(layout[p], lay)) = e
      /\ Append(layout[p], lay)[e] = lay
      /\ \A d \in 1 .. Started(p) : Append(layout[p], lay)[d] = layout[p][d]
  BY <1>1, <1>2, AppendProperties
<1>5. /\ Append(recv[p], new) \in Seq(Buffers) /\ Len(Append(recv[p], new)) = e
      /\ Append(recv[p], new)[e] = new
      /\ \A d \in 1 .. Started(p) : Append(recv[p], new)[d] = recv[p][d]
  BY <1>1, <1>2, AppendProperties
<1>6. /\ Append(got[p], {}) \in Seq(SUBSET Nat) /\ Len(Append(got[p], {})) = e
      /\ Append(got[p], {})[e] = {}
      /\ \A d \in 1 .. Started(p) : Append(got[p], {})[d] = got[p][d]
  <2>1. {} \in SUBSET Nat
    OBVIOUS
  <2> QED BY <1>2, <2>1, AppendProperties
<1>7. /\ layout' \in [Procs -> Seq(Layouts)] /\ recv' \in [Procs -> Seq(Buffers)]
      /\ got' \in [Procs -> Seq(SUBSET Nat)]
      /\ layout'[p] = Append(layout[p], lay) /\ recv'[p] = Append(recv[p], new)
      /\ got'[p] = Append(got[p], {})
      /\ \A x \in Procs : x # p =>
           layout'[x] = layout[x] /\ recv'[x] = recv[x] /\ got'[x] = got[x]
  BY <1>1, <1>2, <1>4, <1>5, <1>6
<1> QED BY <1>3, <1>4, <1>5, <1>6, <1>7 DEF lay, new

(* What they hold after elements arrived.                                   *)
LEMMA Arrived1 ==
  ASSUME Types, Prepared, NEW p \in Procs, NEW e \in 1 .. Entries,
         NEW i \in 0 .. shape.numP - 1, Arrive(p, e, i)
  PROVE  /\ Procs' = Procs
         /\ recv' \in [Procs -> Seq(Buffers)] /\ got' \in [Procs -> Seq(SUBSET Nat)]
         /\ \A x \in Procs : x # p => recv'[x] = recv[x] /\ got'[x] = got[x]
         /\ Len(recv'[p]) = Started(p) /\ Len(got'[p]) = Started(p)
         /\ \A d \in 1 .. Started(p) : d # e => recv'[p][d] = recv[p][d] /\ got'[p][d] = got[p][d]
         /\ recv'[p][e] = Filled(p, e, i) /\ got'[p][e] = got[p][e] \cup {i}
<1> DEFINE new == Filled(p, e, i)
<1>1. /\ e \in 1 .. Started(p) /\ i \in RecvPeers(p, layout[p][e]) /\ CanArrive(p, e, i)
      /\ UNCHANGED <<conf, shape, layout, phase>>
      /\ recv' = [recv EXCEPT ![p] = [recv[p] EXCEPT ![e] = new]]
      /\ got' = [got EXCEPT ![p] = [got[p] EXCEPT ![e] = got[p][e] \cup {i}]]
  BY ArriveDoes
<1>2. /\ recv \in [Procs -> Seq(Buffers)] /\ got \in [Procs -> Seq(SUBSET Nat)]
      /\ Len(recv[p]) = Started(p) /\ Len(got[p]) = Started(p)
  BY DEF Types, Started
<1>3. Procs' = Procs
  BY <1>1, GroupsStay
<1>4. new \in Buffers
  <2>1. Available(p, e, i)
    BY <1>1 DEF CanArrive
  <2> QED BY <1>1, <2>1, FilledIs
<1>5. got[p][e] \cup {i} \in SUBSET Nat
  <2>1. got[p] \in Seq(SUBSET Nat) /\ e \in 1 .. Len(got[p])
    BY <1>1, <1>2
  <2>2. got[p][e] \in SUBSET Nat
    BY <2>1
  <2> QED BY <2>2
<1> HIDE DEF new
<1> DEFINE a == [recv[p] EXCEPT ![e] = new]
           b == [got[p] EXCEPT ![e] = got[p][e] \cup {i}]
<1>6. /\ a \in Seq(Buffers) /\ Len(a) = Started(p) /\ a[e] = new
      /\ \A d \in 1 .. Started(p) : d # e => a[d] = recv[p][d]
  <2>1. recv[p] \in Seq(Buffers) /\ e \in 1 .. Len(recv[p])
    BY <1>1, <1>2
  <2> QED BY <1>1, <1>2, <1>4, <2>1, ExceptSeq
<1>7. /\ b \in Seq(SUBSET Nat) /\ Len(b) = Started(p) /\ b[e] = got[p][e] \cup {i}
      /\ \A d \in 1 .. Started(p) : d # e => b[d] = got[p][d]
  <2>1. got[p] \in Seq(SUBSET Nat) /\ e \in 1 .. Len(got[p])
    BY <1>1, <1>2
  <2> QED BY <1>1, <1>2, <1>5, <2>1, ExceptSeq
<1>8. recv' = [recv EXCEPT ![p] = a] /\ got' = [got EXCEPT ![p] = b]
  BY <1>1
<1> HIDE DEF a, b
<1>9. /\ recv' \in [Procs -> Seq(Buffers)] /\ got' \in [Procs -> Seq(SUBSET Nat)]
      /\ \A x \in Procs : x # p => recv'[x] = recv[x] /\ got'[x] = got[x]
      /\ recv'[p] = a /\ got'[p] = b
  BY <1>2, <1>6, <1>7, <1>8
<1> QED BY <1>3, <1>6, <1>7, <1>9 DEF new

(* Before the first entry nothing is prepared.                              *)
LEMMA TypesInit == Init => Types /\ Prepared
<1> SUFFICES ASSUME Init PROVE Types /\ Prepared
  OBVIOUS
<1>1. Settled
  BY DEF Init, Settled
<1>2. \A S : <<>> \in Seq(S) /\ Len(<<>>) = 0
  OBVIOUS
<1>3. /\ layout \in [Procs -> Seq(Layouts)] /\ recv \in [Procs -> Seq(Buffers)]
      /\ got \in [Procs -> Seq(SUBSET Nat)]
      /\ phase \in [Procs -> {"moving", "ended", "returned", "crashed"}]
      /\ \A p \in Procs : layout[p] = <<>> /\ recv[p] = <<>> /\ got[p] = <<>>
  BY <1>2 DEF Init
<1>4. \A p \in Procs : /\ Len(layout[p]) \in 0 .. Entries /\ Len(recv[p]) = Len(layout[p])
                       /\ Len(got[p]) = Len(layout[p]) /\ Len(layout[p]) = 0
  BY <1>2, <1>3, ParametersOK
<1>5. Prepared
  <2>1. \A p \in Procs : 1 .. Started(p) = {}
    BY <1>4 DEF Started
  <2> QED BY <2>1 DEF Prepared
<1> QED BY <1>1, <1>3, <1>4, <1>5, Zenon DEF Types

(* Each step keeps the layouts right and the buffers of their size.         *)
LEMMA TypesNext == Types /\ Prepared /\ [Next]_vars => (Types /\ Prepared)'
<1> SUFFICES ASSUME Types, Prepared, [Next]_vars PROVE (Types /\ Prepared)'
  OBVIOUS
<1>1. ASSUME NEW p \in Procs, Start(p) PROVE (Types /\ Prepared)'
  <2> DEFINE e == Started(p) + 1
             lay == Lay(p, shape.qty[e])
  <2>1. /\ e \in 1 .. Entries /\ Computed(p, shape.qty[e])
        /\ UNCHANGED <<conf, shape, phase>>
    BY <1>1, StartDoes
  <2>2. /\ Procs' = Procs
        /\ layout' \in [Procs -> Seq(Layouts)] /\ recv' \in [Procs -> Seq(Buffers)]
        /\ got' \in [Procs -> Seq(SUBSET Nat)]
        /\ \A x \in Procs : x # p =>
             layout'[x] = layout[x] /\ recv'[x] = recv[x] /\ got'[x] = got[x]
        /\ Len(layout'[p]) = e /\ Len(recv'[p]) = e /\ Len(got'[p]) = e
        /\ \A d \in 1 .. Started(p) :
             layout'[p][d] = layout[p][d] /\ recv'[p][d] = recv[p][d] /\ got'[p][d] = got[p][d]
        /\ layout'[p][e] = lay /\ recv'[p][e] = FreshBuffer(p, e, lay) /\ got'[p][e] = {}
    BY <1>1, Started1
  <2>3. /\ Settled /\ Settled' /\ Layouts' = Layouts
        /\ phase' \in [Procs -> {"moving", "ended", "returned", "crashed"}]
    BY <2>1, GroupsStay DEF Types
  <2>4. \A x \in Procs : /\ Len(layout'[x]) \in 0 .. Entries
                         /\ Len(recv'[x]) = Len(layout'[x])
                         /\ Len(got'[x]) = Len(layout'[x])
    <3>1. ASSUME NEW x \in Procs
          PROVE  /\ Len(layout'[x]) \in 0 .. Entries
                 /\ Len(recv'[x]) = Len(layout'[x]) /\ Len(got'[x]) = Len(layout'[x])
      <4>1. CASE x = p
        <5> HIDE DEF e
        <5>1. e \in 0 .. Entries
          BY <2>1
        <5> QED BY <2>2, <4>1, <5>1
      <4>2. CASE x # p
        BY <2>2, <4>2 DEF Types
      <4> QED BY <4>1, <4>2
    <3> QED BY <3>1
  <2>5. Types'
    BY <2>2, <2>3, <2>4 DEF Types, Buffers
  <2>6. ASSUME NEW x \in Procs, NEW d \in 1 .. Len(layout'[x])
        PROVE  /\ layout'[x][d] = Lay(x, shape.qty[d]) /\ Computed(x, shape.qty[d])
               /\ IsTarget(x) => recv'[x][d] \in [0 .. TargetBlock(x, d).tamBl - 1 -> Int]
    <3>1. CASE x # p \/ d # e
      <4>1. d \in 1 .. Started(x) /\ layout'[x][d] = layout[x][d] /\ recv'[x][d] = recv[x][d]
        <5>1. CASE x # p
          BY <2>2, <2>6, <5>1 DEF Started
        <5>2. CASE x = p /\ d # e
          <6>1. d \in 1 .. e /\ Started(p) \in Nat
            BY <2>2, <2>6, <5>2 DEF Started, Types
          <6>2. d \in 1 .. Started(p)
            BY <5>2, <6>1
          <6> QED BY <2>2, <5>2, <6>2
        <5> QED BY <3>1, <5>1, <5>2
      <4> QED BY <4>1 DEF Prepared
    <3>2. CASE x = p /\ d = e
      <4>1. IsTarget(p) => FreshBuffer(p, e, lay) \in [0 .. TargetBlock(p, e).tamBl - 1 -> Int]
        BY <2>1, <2>3, FreshIs
      <4> QED BY <2>1, <2>2, <3>2, <4>1
    <3> QED BY <3>1, <3>2
  <2>7. Prepared'
    <3>1. /\ \A x : IsTarget(x)' = IsTarget(x)
          /\ \A x, q : Lay(x, q)' = Lay(x, q) /\ Computed(x, q)' = Computed(x, q)
          /\ \A x, d : TargetBlock(x, d)' = TargetBlock(x, d)
      BY <2>1, GroupsStay
    <3> QED BY <2>1, <2>2, <2>6, <3>1 DEF Prepared, Started
  <2> QED BY <2>5, <2>7
<1>2. ASSUME NEW p \in Procs, NEW e \in 1 .. Entries, NEW i \in 0 .. shape.numP - 1, Arrive(p, e, i)
      PROVE  (Types /\ Prepared)'
  <2>1. /\ e \in 1 .. Started(p) /\ i \in RecvPeers(p, layout[p][e]) /\ CanArrive(p, e, i)
        /\ UNCHANGED <<conf, shape, layout, phase>>
    BY <1>2, ArriveDoes
  <2>2. /\ Procs' = Procs
        /\ recv' \in [Procs -> Seq(Buffers)] /\ got' \in [Procs -> Seq(SUBSET Nat)]
        /\ \A x \in Procs : x # p => recv'[x] = recv[x] /\ got'[x] = got[x]
        /\ Len(recv'[p]) = Started(p) /\ Len(got'[p]) = Started(p)
        /\ \A d \in 1 .. Started(p) : d # e => recv'[p][d] = recv[p][d] /\ got'[p][d] = got[p][d]
        /\ recv'[p][e] = Filled(p, e, i) /\ got'[p][e] = got[p][e] \cup {i}
    BY <1>2, Arrived1
  <2>3. Settled' /\ Layouts' = Layouts
    BY <2>1, GroupsStay DEF Types
  <2>4. \A x \in Procs : /\ Len(layout'[x]) \in 0 .. Entries
                         /\ Len(recv'[x]) = Len(layout'[x])
                         /\ Len(got'[x]) = Len(layout'[x])
    BY <2>1, <2>2 DEF Types, Started
  <2>5. Types'
    BY <2>1, <2>2, <2>3, <2>4 DEF Types, Buffers
  <2>6. ASSUME NEW x \in Procs, NEW d \in 1 .. Started(x), IsTarget(x)
        PROVE  recv'[x][d] \in [0 .. TargetBlock(x, d).tamBl - 1 -> Int]
    <3>1. CASE x # p \/ d # e
      <4>1. recv'[x][d] = recv[x][d]
        BY <2>2, <3>1
      <4> QED BY <2>6, <4>1 DEF Prepared
    <3>2. CASE x = p /\ d = e
      <4>1. Available(p, e, i)
        BY <2>1 DEF CanArrive
      <4>2. Filled(p, e, i) \in [0 .. TargetBlock(p, e).tamBl - 1 -> Int]
        BY <2>1, <4>1, FilledIs
      <4> QED BY <2>2, <3>2, <4>2
    <3> QED BY <3>1, <3>2
  <2>7. Prepared'
    <3>1. /\ \A x : IsTarget(x)' = IsTarget(x)
          /\ \A x, q : Lay(x, q)' = Lay(x, q) /\ Computed(x, q)' = Computed(x, q)
          /\ \A x, d : TargetBlock(x, d)' = TargetBlock(x, d)
      BY <2>1, GroupsStay
    <3> QED BY <2>1, <2>2, <2>6, <3>1 DEF Prepared, Started
  <2> QED BY <2>5, <2>7
<1>3. ASSUME NEW p \in Procs, Fault(p) \/ End(p) \/ Return(p) PROVE (Types /\ Prepared)'
  <2>1. /\ UNCHANGED <<conf, shape, layout, recv, got>>
        /\ phase' \in [Procs -> {"moving", "ended", "returned", "crashed"}]
    BY <1>3 DEF Fault, End, Return, Types
  <2>2. Settled' /\ Layouts' = Layouts /\ Procs' = Procs
    BY <2>1, GroupsStay DEF Types
  <2>3. Types'
    BY <2>1, <2>2 DEF Types, Buffers
  <2>4. Prepared'
    <3>1. /\ \A x : IsTarget(x)' = IsTarget(x)
          /\ \A x, q : Lay(x, q)' = Lay(x, q) /\ Computed(x, q)' = Computed(x, q)
          /\ \A x, d : TargetBlock(x, d)' = TargetBlock(x, d)
      BY <2>1, GroupsStay
    <3> QED BY <2>1, <2>2, <3>1 DEF Prepared, Started
  <2> QED BY <2>3, <2>4
<1>4. CASE UNCHANGED vars
  <2>1. UNCHANGED <<conf, shape, layout, recv, got, phase>>
    BY <1>4 DEF vars
  <2>2. Settled' /\ Layouts' = Layouts /\ Procs' = Procs
    BY <2>1, GroupsStay DEF Types
  <2>3. Types'
    BY <2>1, <2>2 DEF Types, Buffers
  <2>4. Prepared'
    <3>1. /\ \A x : IsTarget(x)' = IsTarget(x)
          /\ \A x, q : Lay(x, q)' = Lay(x, q) /\ Computed(x, q)' = Computed(x, q)
          /\ \A x, d : TargetBlock(x, d)' = TargetBlock(x, d)
      BY <2>1, GroupsStay
    <3> QED BY <2>1, <2>2, <3>1 DEF Prepared, Started
  <2> QED BY <2>3, <2>4
<1> QED BY <1>1, <1>2, <1>3, <1>4 DEF Next

(* Every process computes, for every entry, the layout of that entry's      *)
(* quantity (prepare_redistribution), also when it takes the one of the     *)
(* entry before.                                                            *)
THEOREM LayoutsHold == Spec => [](Types /\ Prepared)
<1>1. Init => Types /\ Prepared
  BY TypesInit
<1>2. Types /\ Prepared /\ [Next]_vars => (Types /\ Prepared)'
  BY TypesNext
<1> QED BY <1>1, <1>2, PTL DEF Spec

------------------------------------------------------------------------------
(* Both sides match, and no transfer leaves a buffer.                       *)

(* The ranks a source lists are those of targets.                           *)
LEMMA PeersAreTargets ==
  ASSUME Settled, NEW e \in 1 .. Entries, NEW i \in Procs, IsSource(i),
         Computed(i, shape.qty[e]), NEW k \in Range0(Lay(i, shape.qty[e]).s)
  PROVE  \E p \in Procs : IsTarget(p) /\ SendIndex(p) = k
<1> DEFINE q == shape.qty[e]
           n == shape.numP
           m == shape.numC
           S == Block(q, i, n)
           s == Lay(i, q).s
<1>1. /\ n \in Nat \ {0} /\ m \in Nat \ {0} /\ q \in Nat /\ i \in 0 .. n - 1 /\ Offset \in Nat
      /\ conf.spawn \in {"baseline", "merge"} /\ conf.intercomm \in BOOLEAN
      /\ conf.intercomm => conf.spawn = "baseline"
  BY GroupsAre DEF Settled, Confs
<1>2. s = Counts(q, i, n, m, Offset) /\ ~DividesByZero(q, S, m)
  BY DEF Lay, SendCounts, Computed
<1>3. s.idI = FirstPeer(q, S, m) + Offset /\ s.idE = EndPeer(q, S, m) + Offset
  <2> HIDE DEF s
  <2> QED BY <1>2 DEF Counts
<1>4. S.ini \in Nat /\ S.fin \in Nat /\ S.ini <= S.fin
  BY <1>1, Within
<1>5. CASE S.ini = S.fin
  <2>1. FirstPeer(q, S, m) = m /\ EndPeer(q, S, m) = m
    BY <1>1, <1>2, <1>5, NoPeers
  <2> HIDE DEF s
  <2>2. Range0(s) = {}
    BY <1>1, <1>3, <2>1 DEF Range0
  <2> QED BY <2>2 DEF s
<1>6. CASE S.ini < S.fin
  <2>1. FirstPeer(q, S, m) \in 0 .. m - 1 /\ EndPeer(q, S, m) \in 1 .. m
    BY <1>1, <1>6, PeersAre
  <2>2. k \in s.idI .. (s.idE - 1)
    BY DEF Range0
  <2> HIDE DEF s, S
  <2>3. PICK j \in 0 .. m - 1 : k = j + Offset
    <3>1. k - Offset \in 0 .. m - 1 /\ k = (k - Offset) + Offset
      BY <1>1, <1>3, <2>1, <2>2
    <3> QED BY <3>1
  <2>4. CASE conf.spawn = "merge"
    <3>1. j \in Procs /\ IsTarget(j) /\ SendIndex(j) = k
      BY <1>1, <2>3, <2>4 DEF Procs, Bigger, IsTarget, SendIndex, Offset
    <3> QED BY <3>1
  <2>5. CASE conf.spawn = "baseline"
    <3>1. n + j \in Procs /\ IsTarget(n + j) /\ SendIndex(n + j) = k
      BY <1>1, <2>3, <2>5 DEF Procs, IsTarget, SendIndex, Offset
    <3> QED BY <3>1
  <2> QED BY <1>1, <2>4, <2>5
<1> HIDE DEF S
<1> QED BY <1>4, <1>5, <1>6

(* Right layouts match: each side lists the other or neither does, with the *)
(* same number, also where sync_point2point leaves a process itself out.    *)
LEMMA MatchedState ==
  ASSUME Types, Prepared, NEW p \in Procs, NEW i \in Procs, NEW e \in 1 .. Entries,
         Started(p) >= e, Started(i) >= e, IsTarget(p), IsSource(i)
  PROVE  Matched(p, e, i)
<1> DEFINE q == shape.qty[e]
           S == SourceBlock(i, e)
           T == TargetBlock(p, e)
           r == Lay(p, q).r
           s == Lay(i, q).s
           k == SendIndex(p)
<1>1. Settled /\ e \in 1 .. Started(p) /\ e \in 1 .. Started(i)
  BY DEF Types, Started
<1>2. /\ layout[p][e] = Lay(p, q) /\ Computed(p, q)
      /\ layout[i][e] = Lay(i, q) /\ Computed(i, q)
  BY <1>1 DEF Prepared
<1>3. i \in 0 .. shape.numP - 1
  BY <1>1, GroupsAre
<1>4. Agrees(p, e, i)
  BY <1>1, <1>2, <1>3, SidesAgree
<1>5. /\ DOMAIN s.counts = s.idI .. (s.idE - 1) /\ DOMAIN r.counts = r.idI .. (r.idE - 1)
      /\ k \in s.idI .. (s.idE - 1) <=> Overlap(S, T) > 0
      /\ i \in r.idI .. (r.idE - 1) <=> Overlap(S, T) > 0
      /\ Overlap(S, T) > 0 => s.counts[k] = Overlap(S, T) /\ r.counts[i] = Overlap(S, T)
  BY <1>4, Zenon DEF Agrees, Match
<1>6. CountOf(s, k) = CountOf(r, i)
  <2> HIDE DEF S, T, r, s, k
  <2> QED BY <1>5 DEF CountOf
<1>7. k \in Range0(s) <=> i \in Range0(r)
  BY <1>5, Zenon DEF Range0
<1>8. ASSUME conf.method = "point", ~conf.async, conf.spawn = "merge"
      PROVE  k \in SendPeers(i, Lay(i, q)) <=> i \in RecvPeers(p, Lay(p, q))
  <2>1. k = p
    BY <1>1, <1>8 DEF SendIndex, Settled, Confs
  <2>2. CASE i # p
    BY <1>7, <2>1, <2>2 DEF SendPeers, RecvPeers
  <2>3. CASE i = p /\ Overlap(S, T) > 0
    <3>1. LocalCopy(p, Lay(p, q)) /\ SkipSelf(p, Lay(p, q))
      BY <1>1, <1>2, <1>3, <1>8, <2>3, SelfKept, Zenon
    <3> QED BY <2>1, <2>3, <3>1 DEF SendPeers, RecvPeers
  <2>4. CASE ~(Overlap(S, T) > 0)
    <3>1. k \notin Range0(s) /\ i \notin Range0(r)
      BY <1>5, <2>4, Zenon DEF Range0
    <3> QED BY <3>1 DEF SendPeers, RecvPeers
  <2> QED BY <2>2, <2>3, <2>4
<1>9. ASSUME ~(conf.method = "point" /\ ~conf.async /\ conf.spawn = "merge")
      PROVE  k \in SendPeers(i, Lay(i, q)) <=> i \in RecvPeers(p, Lay(p, q))
  <2>1. ~LocalCopy(i, Lay(i, q)) /\ ~SkipSelf(p, Lay(p, q))
    BY <1>9, Zenon DEF LocalCopy, SkipSelf
  <2> QED BY <1>7, <2>1 DEF SendPeers, RecvPeers
<1> QED BY <1>2, <1>6, <1>8, <1>9 DEF Matched

(* Right layouts keep every slice inside both buffers.                      *)
LEMMA FitsState ==
  ASSUME Types, Prepared, NEW p \in Procs, NEW e \in 1 .. Entries, Started(p) >= e,
         NEW i \in RecvPeers(p, layout[p][e]), Available(p, e, i)
  PROVE  Fits(p, e, i)
<1> DEFINE S == SourceBlock(i, e)
           T == TargetBlock(p, e)
           from == Slice(p, e, i).from
           size == Slice(p, e, i).size
           at == DisplOf(layout[p][e].r, i)
<1>1. e \in 1 .. Started(p)
  BY DEF Types, Started
<1>2. /\ i \in 0 .. shape.numP - 1 /\ IsTarget(p) /\ i \in Procs
      /\ layout[i][e] = Lay(i, shape.qty[e])
      /\ S.ini < T.fin /\ T.ini < S.fin
      /\ from = Bigger(S.ini, T.ini) - S.ini
      /\ size = Smaller(S.fin, T.fin) - Bigger(S.ini, T.ini)
      /\ at = Bigger(S.ini, T.ini) - T.ini
  BY <1>1, SliceIs
<1>3. Settled
  BY DEF Types
<1>4. /\ S.ini \in Nat /\ S.fin \in Nat /\ S.tamBl \in Nat /\ S.fin = S.ini + S.tamBl
      /\ T.ini \in Nat /\ T.fin \in Nat /\ T.tamBl \in Nat /\ T.fin = T.ini + T.tamBl
  BY <1>2, <1>3, BlocksAre
<1>5. conf.method = "rma" => layout[i][e].win = S.tamBl
  <2>1. IsSource(i)
    BY <1>2, <1>3, GroupsAre
  <2> QED BY <1>2, <2>1 DEF Lay, WinSize, SourceBlock
<1> HIDE DEF S, T, from, size, at
<1>6. from >= 0 /\ from + size <= S.tamBl /\ at + size <= T.tamBl
  BY <1>2, <1>4 DEF Bigger, Smaller
<1>7. from >= 0 /\ at + size <= T.tamBl
      /\ from + size <= (IF conf.method = "rma" THEN layout[i][e].win ELSE S.tamBl)
  BY <1>5, <1>6
<1> QED BY <1>7, Zenon DEF Fits, from, size, at, S, T

(* Right layouts match and keep every slice inside both buffers.            *)
LEMMA BoundsState == Types /\ Prepared => InBounds
<1> SUFFICES ASSUME Types, Prepared, NEW p \in Procs, NEW e \in 1 .. Entries, Started(p) >= e
             PROVE  /\ \A i \in Procs :
                         IsTarget(p) /\ IsSource(i) /\ Started(i) >= e => Matched(p, e, i)
                    /\ \A i \in RecvPeers(p, layout[p][e]) :
                         IsTarget(p) /\ i \in Procs /\ IsSource(i)
                    /\ \A k \in SendPeers(p, layout[p][e]) :
                         IsSource(p) /\ \E q \in Procs : IsTarget(q) /\ SendIndex(q) = k
                    /\ \A i \in RecvPeers(p, layout[p][e]) : Available(p, e, i) => Fits(p, e, i)
  BY DEF InBounds
<1> DEFINE n == shape.qty[e]
<1>1. Settled /\ e \in 1 .. Started(p)
  BY DEF Types, Started
<1>2. layout[p][e] = Lay(p, n) /\ Computed(p, n)
  BY <1>1 DEF Prepared
<1>3. \A i \in Procs : IsTarget(p) /\ IsSource(i) /\ Started(i) >= e => Matched(p, e, i)
  BY MatchedState
<1>4. ASSUME NEW i \in RecvPeers(p, layout[p][e])
      PROVE  IsTarget(p) /\ i \in Procs /\ IsSource(i)
  <2>1. i \in Range0(Lay(p, n).r)
    BY <1>2, <1>4, Zenon DEF RecvPeers
  <2>2. i \in 0 .. shape.numP - 1
    BY <1>1, <1>2, <2>1, PeersAreSources, Zenon
  <2>3. IsTarget(p)
    BY <1>1, <2>1, NoRole
  <2> QED BY <1>1, <2>2, <2>3, GroupsAre
<1>5. ASSUME NEW k \in SendPeers(p, layout[p][e])
      PROVE  IsSource(p) /\ \E q \in Procs : IsTarget(q) /\ SendIndex(q) = k
  <2>1. k \in Range0(Lay(p, n).s)
    BY <1>2, <1>5, Zenon DEF SendPeers
  <2>2. IsSource(p)
    BY <1>1, <2>1, NoRole
  <2> QED BY <1>1, <1>2, <2>1, <2>2, PeersAreTargets, Zenon
<1>6. \A i \in RecvPeers(p, layout[p][e]) : Available(p, e, i) => Fits(p, e, i)
  BY FitsState
<1> QED BY <1>3, <1>4, <1>5, <1>6

(* Sources and targets expect the same of each other, peer by peer and      *)
(* element by element, and no transfer leaves a buffer: the slices that     *)
(* alltoallv, the messages and the RMA reads move lie inside the source's   *)
(* block, or its window, and inside the receive buffer, for every size of   *)
(* the groups.                                                              *)
THEOREM TransfersInBounds == Spec => []InBounds
BY LayoutsHold, BoundsState, PTL

------------------------------------------------------------------------------
(* Windows.                                                                 *)

(* A process that has ended has nothing left to receive.                    *)
Emptied ==
  \A p \in Procs : phase[p] \in {"ended", "returned"} =>
    Started(p) = Entries /\ \A e \in 1 .. Entries : Pending(p, e) = {}

(* MPI_Win_free lets nobody go before everybody has ended.                  *)
FreedTogether ==
  conf.method = "rma" => \A p \in Procs : phase[p] = "returned" =>
    \A q \in Procs : phase[q] \in {"ended", "returned"}

(* Only CanEnd leaves the loop, and it finds every request complete; only   *)
(* CanReturn frees a window, and it finds every process past its reads.     *)
LEMMA EmptiedNext ==
  Types /\ Prepared /\ Emptied /\ FreedTogether /\ [Next]_vars => (Emptied /\ FreedTogether)'
<1> SUFFICES ASSUME Types, Prepared, Emptied, FreedTogether, [Next]_vars
             PROVE  (Emptied /\ FreedTogether)'
  OBVIOUS
<1>0. phase \in [Procs -> {"moving", "ended", "returned", "crashed"}]
  BY DEF Types
<1>1. ASSUME NEW p \in Procs, phase[p] = "moving", UNCHANGED <<conf, shape, phase>>,
             \A x \in Procs : x # p => layout'[x] = layout[x] /\ got'[x] = got[x]
      PROVE  (Emptied /\ FreedTogether)'
  <2>1. Procs' = Procs /\ \A x, l : RecvPeers(x, l)' = RecvPeers(x, l)
    BY <1>1, GroupsStay
  <2>2. \A x \in Procs : \A e : x # p => Pending(x, e)' = Pending(x, e) /\ Started(x)' = Started(x)
    BY <1>1, <2>1 DEF Pending, Started
  <2>3. Emptied'
    BY <1>1, <2>1, <2>2 DEF Emptied
  <2>4. FreedTogether'
    BY <1>1, <2>1 DEF FreedTogether
  <2> QED BY <2>3, <2>4
<1>2. ASSUME NEW p \in Procs, Start(p) PROVE (Emptied /\ FreedTogether)'
  <2>1. phase[p] = "moving" /\ UNCHANGED <<conf, shape, phase>>
    BY <1>2 DEF Start, CanStart
  <2>2. \A x \in Procs : x # p => layout'[x] = layout[x] /\ got'[x] = got[x]
    BY <1>2, Started1
  <2> QED BY <1>1, <2>1, <2>2
<1>3. ASSUME NEW p \in Procs, NEW e \in 1 .. Entries, NEW i \in 0 .. shape.numP - 1, Arrive(p, e, i)
      PROVE  (Emptied /\ FreedTogether)'
  <2>1. phase[p] = "moving" /\ UNCHANGED <<conf, shape, phase, layout>>
    BY <1>3 DEF Arrive, CanArrive
  <2>2. \A x \in Procs : x # p => got'[x] = got[x]
    BY <1>3, Arrived1
  <2> QED BY <1>1, <2>1, <2>2
<1>4. ASSUME UNCHANGED <<conf, shape, layout, recv, got>>
      PROVE  /\ Procs' = Procs
             /\ \A x \in Procs : \A e : Pending(x, e)' = Pending(x, e) /\ Started(x)' = Started(x)
  <2>1. Procs' = Procs /\ \A x, l : RecvPeers(x, l)' = RecvPeers(x, l)
    BY <1>4, GroupsStay
  <2> QED BY <1>4, <2>1 DEF Pending, Started
<1>5. ASSUME NEW p \in Procs, Fault(p) PROVE (Emptied /\ FreedTogether)'
  <2>1. phase[p] = "moving" /\ phase' = [phase EXCEPT ![p] = "crashed"]
        /\ UNCHANGED <<conf, shape, layout, recv, got>>
    BY <1>5 DEF Fault, CanStart
  <2>2. \A x \in Procs : phase'[x] = IF x = p THEN "crashed" ELSE phase[x]
    BY <1>0, <2>1
  <2>3. Emptied'
    BY <1>4, <2>1, <2>2 DEF Emptied
  <2>4. FreedTogether'
    BY <1>4, <2>1, <2>2 DEF FreedTogether
  <2> QED BY <2>3, <2>4
<1>6. ASSUME NEW p \in Procs, End(p) PROVE (Emptied /\ FreedTogether)'
  <2>1. /\ phase[p] = "moving" /\ phase' = [phase EXCEPT ![p] = "ended"]
        /\ UNCHANGED <<conf, shape, layout, recv, got>>
        /\ Started(p) = Entries /\ \A e \in 1 .. Entries : Pending(p, e) = {}
    BY <1>6 DEF End, CanEnd
  <2>2. \A x \in Procs : phase'[x] = IF x = p THEN "ended" ELSE phase[x]
    BY <1>0, <2>1
  <2>3. Emptied'
    BY <1>4, <2>1, <2>2 DEF Emptied
  <2>4. FreedTogether'
    BY <1>4, <2>1, <2>2 DEF FreedTogether
  <2> QED BY <2>3, <2>4
<1>7. ASSUME NEW p \in Procs, Return(p) PROVE (Emptied /\ FreedTogether)'
  <2>1. /\ phase[p] = "ended" /\ phase' = [phase EXCEPT ![p] = "returned"]
        /\ UNCHANGED <<conf, shape, layout, recv, got>>
        /\ conf.method = "rma" => \A q \in Procs : phase[q] \in {"ended", "returned"}
    BY <1>7 DEF Return, CanReturn
  <2>2. \A x \in Procs : phase'[x] = IF x = p THEN "returned" ELSE phase[x]
    BY <1>0, <2>1
  <2>3. Emptied'
    BY <1>4, <2>1, <2>2 DEF Emptied
  <2>4. FreedTogether'
    BY <1>4, <2>1, <2>2 DEF FreedTogether
  <2> QED BY <2>3, <2>4
<1>8. CASE UNCHANGED vars
  <2>1. UNCHANGED <<conf, shape, layout, recv, got, phase>>
    BY <1>8 DEF vars
  <2> QED BY <1>4, <2>1 DEF Emptied, FreedTogether
<1> QED BY <1>2, <1>3, <1>5, <1>6, <1>7, <1>8 DEF Next

(* A process leaves the redistribution with every request of every entry    *)
(* complete (MPI_Waitall, MPI_Win_unlock), and no window is freed before    *)
(* every process is that far (MPI_Win_free).                                *)
THEOREM EndsEmpty == Spec => [](Types /\ Prepared /\ Emptied /\ FreedTogether)
<1>1. Init => Emptied /\ FreedTogether
  BY DEF Init, Emptied, FreedTogether
<1>2. Types /\ Prepared /\ Emptied /\ FreedTogether /\ [Next]_vars => (Emptied /\ FreedTogether)'
  BY EmptiedNext
<1> QED BY <1>1, <1>2, LayoutsHold, PTL DEF Spec

(* A process whose window is gone has nothing left that another one still   *)
(* reads, however far the others are (sync_communication_end,               *)
(* async_communication_end).                                                *)
THEOREM WindowsHeld == Spec => []WindowHeld
<1>1. Emptied /\ FreedTogether => WindowHeld
  BY DEF Emptied, FreedTogether, WindowHeld
<1> QED BY <1>1, EndsEmpty, PTL

------------------------------------------------------------------------------
(* What a target holds.                                                     *)

(* The sources whose elements the buffer has.                               *)
ArrivedFrom(p, e) == got[p][e] \cup (IF LocalCopy(p, layout[p][e]) THEN {p} ELSE {})

(* The elements of source i are in their places, but for what memcpy cuts.  *)
InPlace(p, e, lay, i, buffer) ==
  \A k \in 0 .. TargetBlock(p, e).tamBl - 1 :
    Owns(i, p, e, k) =>
      buffer[k] = (IF Cut(p, lay, k) THEN Junk ELSE TargetBlock(p, e).ini + k)

(* The elements of every source that has been heard are in their places.    *)
Delivered ==
  \A p \in Procs : IsTarget(p) =>
    \A e \in 1 .. Started(p) : \A i \in ArrivedFrom(p, e) \cap (0 .. shape.numP - 1) :
      InPlace(p, e, layout[p][e], i, recv[p][e])

(* What has arrived stays in its place: no later slice overwrites it.       *)
LEMMA DeliveredNext == Types /\ Prepared /\ Delivered /\ [Next]_vars => Delivered'
<1> SUFFICES ASSUME Types, Prepared, Delivered, [Next]_vars PROVE Delivered'
  OBVIOUS
<1>0. Settled /\ \A x \in Procs : Started(x) \in Nat
  BY DEF Types, Started
<1>1. ASSUME UNCHANGED <<conf, shape>>
      PROVE  /\ Procs' = Procs
             /\ \A x : IsTarget(x)' = IsTarget(x)
             /\ \A x, l : LocalCopy(x, l)' = LocalCopy(x, l)
             /\ \A x, d, l, i, b : InPlace(x, d, l, i, b)' = InPlace(x, d, l, i, b)
  <2>1. /\ Procs' = Procs /\ \A x : IsTarget(x)' = IsTarget(x)
        /\ \A x, d : SourceBlock(x, d)' = SourceBlock(x, d)
        /\ \A x, d : TargetBlock(x, d)' = TargetBlock(x, d)
        /\ \A x, l : LocalCopy(x, l)' = LocalCopy(x, l)
    BY <1>1, GroupsStay
  <2>2. \A x, l, k : Cut(x, l, k)' = Cut(x, l, k)
    BY <2>1 DEF Cut, CopiedElements, CountOf, DisplOf
  <2>3. \A x, d, i, k : Owns(i, x, d, k)' = Owns(i, x, d, k)
    BY <2>1 DEF Owns
  <2>4. \A x, d, l, i, b : InPlace(x, d, l, i, b)' = InPlace(x, d, l, i, b)
    BY <2>1, <2>2, <2>3 DEF InPlace
  <2> QED BY <2>1, <2>2, <2>4
<1>2. ASSUME UNCHANGED <<conf, shape>>,
             \A x \in Procs : IsTarget(x) => \A d \in 1 .. Len(layout'[x]) :
               \A i \in (got'[x][d] \cup (IF LocalCopy(x, layout'[x][d]) THEN {x} ELSE {}))
                          \cap (0 .. shape.numP - 1) :
                 InPlace(x, d, layout'[x][d], i, recv'[x][d])
      PROVE  Delivered'
  <2>1. \A x, d : ArrivedFrom(x, d)' =
                    got'[x][d] \cup (IF LocalCopy(x, layout'[x][d]) THEN {x} ELSE {})
    BY <1>1, <1>2 DEF ArrivedFrom
  <2> QED BY <1>1, <1>2, <2>1 DEF Delivered, Started
<1>3. ASSUME NEW p \in Procs, Start(p) PROVE Delivered'
  <2> DEFINE e == Started(p) + 1
             lay == Lay(p, shape.qty[e])
  <2>1. /\ e \in 1 .. Entries /\ Computed(p, shape.qty[e])
        /\ UNCHANGED <<conf, shape, phase>>
    BY <1>3, StartDoes
  <2>2. /\ \A x \in Procs : x # p =>
             layout'[x] = layout[x] /\ recv'[x] = recv[x] /\ got'[x] = got[x]
        /\ Len(layout'[p]) = e
        /\ \A d \in 1 .. Started(p) :
             layout'[p][d] = layout[p][d] /\ recv'[p][d] = recv[p][d] /\ got'[p][d] = got[p][d]
        /\ layout'[p][e] = lay /\ recv'[p][e] = FreshBuffer(p, e, lay) /\ got'[p][e] = {}
    BY <1>3, Started1
  <2>3. ASSUME NEW x \in Procs, IsTarget(x), NEW d \in 1 .. Len(layout'[x]),
               NEW i \in (got'[x][d] \cup (IF LocalCopy(x, layout'[x][d]) THEN {x} ELSE {}))
                          \cap (0 .. shape.numP - 1)
        PROVE  InPlace(x, d, layout'[x][d], i, recv'[x][d])
    <3>1. CASE x # p \/ d # e
      <4>1. /\ d \in 1 .. Started(x) /\ layout'[x][d] = layout[x][d] /\ recv'[x][d] = recv[x][d]
            /\ got'[x][d] = got[x][d]
        <5>1. CASE x # p
          BY <2>2, <2>3, <5>1 DEF Started
        <5>2. CASE x = p /\ d # e
          <6>1. d \in 1 .. e /\ Started(p) \in Nat
            BY <1>0, <2>2, <2>3, <5>2
          <6>2. d \in 1 .. Started(p)
            BY <5>2, <6>1
          <6> QED BY <2>2, <5>2, <6>2
        <5> QED BY <3>1, <5>1, <5>2
      <4>2. i \in ArrivedFrom(x, d) \cap (0 .. shape.numP - 1)
        BY <2>3, <4>1 DEF ArrivedFrom
      <4> QED BY <1>3, <2>3, <4>1, <4>2 DEF Delivered
    <3>2. CASE x = p /\ d = e
      <4>1. LocalCopy(p, lay) /\ i = p /\ p \in 0 .. shape.numP - 1
        <5> HIDE DEF lay
        <5> QED BY <2>2, <2>3, <3>2
      <4>2. \A k \in 0 .. TargetBlock(p, e).tamBl - 1 :
              Owns(p, p, e, k) =>
                FreshBuffer(p, e, lay)[k] =
                  (IF Cut(p, lay, k) THEN Junk ELSE TargetBlock(p, e).ini + k)
        <5>1. IsTarget(p)
          BY <2>3, <3>2
        <5> QED BY <1>0, <2>1, <4>1, <5>1, FreshIs
      <4>3. InPlace(p, e, lay, p, FreshBuffer(p, e, lay))
        <5> HIDE DEF lay
        <5> QED BY <4>2 DEF InPlace
      <4> QED BY <2>2, <3>2, <4>1, <4>3
    <3> QED BY <3>1, <3>2
  <2>4. \A x \in Procs : IsTarget(x) => \A d \in 1 .. Len(layout'[x]) :
          \A i \in (got'[x][d] \cup (IF LocalCopy(x, layout'[x][d]) THEN {x} ELSE {}))
                     \cap (0 .. shape.numP - 1) :
            InPlace(x, d, layout'[x][d], i, recv'[x][d])
    BY <2>3, Zenon
  <2> QED BY <1>2, <1>3, <2>1, <2>4
<1>4. ASSUME NEW p \in Procs, NEW e \in 1 .. Entries, NEW j \in 0 .. shape.numP - 1,
             Arrive(p, e, j)
      PROVE  Delivered'
  <2>1. /\ e \in 1 .. Started(p) /\ j \in RecvPeers(p, layout[p][e]) /\ Available(p, e, j)
        /\ UNCHANGED <<conf, shape, layout, phase>>
    BY <1>4, ArriveDoes DEF CanArrive
  <2>2. /\ \A x \in Procs : x # p => recv'[x] = recv[x] /\ got'[x] = got[x]
        /\ \A d \in 1 .. Started(p) : d # e => recv'[p][d] = recv[p][d] /\ got'[p][d] = got[p][d]
        /\ recv'[p][e] = Filled(p, e, j) /\ got'[p][e] = got[p][e] \cup {j}
    BY <1>4, Arrived1
  <2>3. \A k \in 0 .. TargetBlock(p, e).tamBl - 1 :
          \/ Filled(p, e, j)[k] = recv[p][e][k] /\ ~Owns(j, p, e, k)
          \/ Filled(p, e, j)[k] = TargetBlock(p, e).ini + k /\ Owns(j, p, e, k)
    BY <2>1, FilledIs
  <2>4. ASSUME NEW x \in Procs, IsTarget(x), NEW d \in 1 .. Len(layout'[x]),
               NEW i \in (got'[x][d] \cup (IF LocalCopy(x, layout'[x][d]) THEN {x} ELSE {}))
                          \cap (0 .. shape.numP - 1)
        PROVE  InPlace(x, d, layout'[x][d], i, recv'[x][d])
    <3>0. d \in 1 .. Started(x)
      BY <2>1, <2>4 DEF Started
    <3>1. CASE x # p \/ d # e
      <4>1. recv'[x][d] = recv[x][d] /\ got'[x][d] = got[x][d]
        BY <2>2, <3>0, <3>1
      <4>2. i \in ArrivedFrom(x, d) \cap (0 .. shape.numP - 1)
        BY <2>1, <2>4, <4>1 DEF ArrivedFrom
      <4>3. InPlace(x, d, layout[x][d], i, recv[x][d])
        BY <2>4, <3>0, <4>2 DEF Delivered
      <4>4. layout'[x][d] = layout[x][d]
        BY <2>1
      <4> QED BY <4>1, <4>3, <4>4
    <3>2. ASSUME x = p, d = e
          PROVE  \A k \in 0 .. TargetBlock(p, e).tamBl - 1 :
                   Owns(j, p, e, k) => ~Cut(p, layout[p][e], k)
      <4>1. /\ e \in 1 .. Entries /\ IsTarget(p)
            /\ layout[p][e] = Lay(p, shape.qty[e]) /\ Computed(p, shape.qty[e])
        <5>1. Started(p) \in 0 .. Entries
          BY DEF Types, Started
        <5>2. e \in 1 .. Entries
          BY <1>4
        <5> QED BY <2>1, <2>4, <3>2, <5>2 DEF Prepared
      <4> QED BY <1>0, <2>1, <4>1, SentWhole
    <3>3. CASE x = p /\ d = e /\ i = j
      <4>1. InPlace(p, e, layout[p][e], j, Filled(p, e, j))
        BY <2>3, <3>2, <3>3 DEF InPlace
      <4> QED BY <2>1, <2>2, <3>3, <4>1
    <3>4. CASE x = p /\ d = e /\ i # j
      <4>1. i \in ArrivedFrom(p, e) \cap (0 .. shape.numP - 1)
        BY <2>1, <2>2, <2>4, <3>4 DEF ArrivedFrom
      <4>2. InPlace(p, e, layout[p][e], i, recv[p][e])
        BY <2>4, <3>0, <3>4, <4>1 DEF Delivered
      <4>3. InPlace(p, e, layout[p][e], i, Filled(p, e, j))
        BY <2>3, <3>2, <3>4, <4>2 DEF InPlace
      <4> QED BY <2>1, <2>2, <3>4, <4>3
    <3> QED BY <3>1, <3>3, <3>4
  <2>5. \A x \in Procs : IsTarget(x) => \A d \in 1 .. Len(layout'[x]) :
          \A i \in (got'[x][d] \cup (IF LocalCopy(x, layout'[x][d]) THEN {x} ELSE {}))
                     \cap (0 .. shape.numP - 1) :
            InPlace(x, d, layout'[x][d], i, recv'[x][d])
    BY <2>4, Zenon
  <2> QED BY <1>2, <1>4, <2>1, <2>5
<1>5. ASSUME UNCHANGED <<conf, shape, layout, recv, got>> PROVE Delivered'
  <2>1. \A x, d : ArrivedFrom(x, d)' = ArrivedFrom(x, d)
    BY <1>1, <1>5 DEF ArrivedFrom
  <2>2. \A x : Started(x)' = Started(x)
    BY <1>5 DEF Started
  <2>3. /\ Procs' = Procs
        /\ \A x : IsTarget(x)' = IsTarget(x)
        /\ \A x, d, l, i, b : InPlace(x, d, l, i, b)' = InPlace(x, d, l, i, b)
    BY <1>1, <1>5
  <2>4. \A x, d, i : InPlace(x, d, layout[x][d], i, recv[x][d])' =
                        InPlace(x, d, layout[x][d], i, recv[x][d])
    <3>1. \A x, d, i : InPlace(x, d, layout[x][d], i, recv[x][d])' =
                          InPlace(x, d, layout'[x][d], i, recv'[x][d])
      BY <2>3
    <3> QED BY <1>5, <3>1
  <2> QED BY <1>5, <2>1, <2>2, <2>3, <2>4 DEF Delivered
<1>6. ASSUME NEW p \in Procs, Fault(p) \/ End(p) \/ Return(p) PROVE Delivered'
  <2>1. UNCHANGED <<conf, shape, layout, recv, got>>
    BY <1>6 DEF Fault, End, Return
  <2> QED BY <1>5, <2>1
<1>7. CASE UNCHANGED vars
  BY <1>5, <1>7 DEF vars
<1> QED BY <1>3, <1>4, <1>6, <1>7 DEF Next

(* An entry without pending peers has heard of the owner of every element.  *)
LEMMA AllOwnersHeard ==
  ASSUME Types, Prepared, NEW p \in Procs, IsTarget(p), NEW e \in 1 .. Started(p),
         Pending(p, e) = {}, NEW k \in 0 .. TargetBlock(p, e).tamBl - 1
  PROVE  \E i \in ArrivedFrom(p, e) \cap (0 .. shape.numP - 1) : Owns(i, p, e, k)
<1> DEFINE q == shape.qty[e]
           n == shape.numP
           T == TargetBlock(p, e)
           r == Lay(p, q).r
<1>1. Settled /\ e \in 1 .. Entries /\ layout[p][e] = Lay(p, q) /\ Computed(p, q)
  <2>1. Settled /\ Started(p) \in 0 .. Entries /\ Entries \in Nat
    BY ParametersOK DEF Types, Started
  <2>2. e \in 1 .. Entries
    BY <2>1
  <2> QED BY <2>1, <2>2 DEF Prepared
<1>2. /\ T.ini \in Nat /\ T.fin \in Nat /\ T.tamBl \in Nat /\ T.fin = T.ini + T.tamBl /\ T.fin <= q
  BY <1>1, BlocksAre
<1>3. q \in Nat /\ n \in Nat \ {0}
  BY <1>1, GroupsAre
<1>4. k \in Nat /\ k < T.tamBl
  BY <1>2
<1>5. T.ini + k \in Nat /\ T.ini + k < q
  <2> HIDE DEF T, q
  <2> QED BY <1>2, <1>3, <1>4
<1>6. PICK i \in 0 .. n - 1 : Block(q, i, n).ini <= T.ini + k /\ T.ini + k < Block(q, i, n).fin
  BY <1>3, <1>5, Owner
<1>7. Owns(i, p, e, k)
  BY <1>6 DEF Owns, SourceBlock
<1>8. Overlap(SourceBlock(i, e), T) > 0
  BY <1>1, <1>7, OwnersMeet
<1>9. i \in Range0(r)
  <2>1. r = Counts(q, TargetId(p), shape.numC, n, 0)
    BY DEF Lay, RecvCounts
  <2>2. /\ shape.numC \in Nat \ {0} /\ TargetId(p) \in 0 .. shape.numC - 1
    BY <1>1, GroupsAre
  <2>3. T = Block(q, TargetId(p), shape.numC) /\ ~DividesByZero(q, T, n)
    BY <1>1 DEF TargetBlock, Computed
  <2>4. RightToward(Counts(q, TargetId(p), shape.numC, n, 0), T, Block(q, i, n), i)
    <3>1. i + 0 = i /\ 0 \in Nat
      OBVIOUS
    <3>2. RightToward(Counts(q, TargetId(p), shape.numC, n, 0), Block(q, TargetId(p), shape.numC),
                      Block(q, i, n), i + 0)
      BY <1>3, <2>2, <2>3, <3>1, CountToward
    <3> QED BY <2>3, <3>1, <3>2
  <2>5. Overlap(T, Block(q, i, n)) > 0
    <3>1. Overlap(Block(q, i, n), Block(q, TargetId(p), shape.numC))
            = Overlap(Block(q, TargetId(p), shape.numC), Block(q, i, n))
      BY <1>3, <2>2, OverlapSymmetric
    <3> QED BY <1>8, <2>3, <3>1 DEF SourceBlock
  <2> HIDE DEF r, T
  <2> QED BY <2>1, <2>4, <2>5, Zenon DEF RightToward, Range0
<1>10. i \in ArrivedFrom(p, e)
  <2>1. CASE i \in RecvPeers(p, layout[p][e])
    BY <2>1 DEF Pending, ArrivedFrom
  <2>2. CASE i \notin RecvPeers(p, layout[p][e])
    <3>1. i = p /\ SkipSelf(p, Lay(p, q))
      BY <1>1, <1>9, <2>2, Zenon DEF RecvPeers
    <3>2. conf.spawn = "merge"
      BY <3>1 DEF SkipSelf
    <3>3. LocalCopy(p, Lay(p, q))
      <4>1. p \in 0 .. shape.numP - 1 /\ Overlap(SourceBlock(p, e), TargetBlock(p, e)) > 0
        BY <1>8, <3>1
      <4> QED BY <1>1, <3>1, <3>2, <4>1, SelfKept, Zenon
    <3> QED BY <1>1, <3>1, <3>3 DEF ArrivedFrom
  <2> QED BY <2>1, <2>2
<1> QED BY <1>7, <1>10

(* A block whose owners have all been heard is whole.                       *)
LEMMA ReceivedState == Types /\ Prepared /\ Emptied /\ Delivered => BlockReceived
<1> SUFFICES ASSUME Types, Prepared, Emptied, Delivered,
                    NEW p \in Procs, IsTarget(p), phase[p] \in {"ended", "returned"},
                    NEW e \in 1 .. Entries
             PROVE  /\ DOMAIN recv[p][e] = 0 .. TargetBlock(p, e).tamBl - 1
                    /\ \A k \in 0 .. TargetBlock(p, e).tamBl - 1 :
                         recv[p][e][k] =
                           (IF Cut(p, layout[p][e], k) THEN Junk ELSE TargetBlock(p, e).ini + k)
  BY DEF BlockReceived
<1>1. e \in 1 .. Started(p) /\ Pending(p, e) = {}
  BY DEF Emptied
<1>2. recv[p][e] \in [0 .. TargetBlock(p, e).tamBl - 1 -> Int]
  BY <1>1 DEF Prepared
<1>3. ASSUME NEW k \in 0 .. TargetBlock(p, e).tamBl - 1
      PROVE  recv[p][e][k] =
               (IF Cut(p, layout[p][e], k) THEN Junk ELSE TargetBlock(p, e).ini + k)
  <2>1. PICK i \in ArrivedFrom(p, e) \cap (0 .. shape.numP - 1) : Owns(i, p, e, k)
    BY <1>1, AllOwnersHeard
  <2>2. InPlace(p, e, layout[p][e], i, recv[p][e])
    BY <1>1 DEF Delivered
  <2> QED BY <2>1, <2>2 DEF InPlace
<1> QED BY <1>2, <1>3

(* A target that leaves the redistribution holds its whole block, every     *)
(* element in its place, but for exactly what memcpy leaves out of the      *)
(* slice a process keeps when an element is more than one byte.             *)
THEOREM WholeReceived == Spec => []BlockReceived
<1>1. Init => Delivered
  <2>1. Len(<<>>) = 0
    OBVIOUS
  <2>2. Init => \A p \in Procs : 1 .. Started(p) = {}
    BY <2>1 DEF Init, Started
  <2> QED BY <2>2 DEF Delivered
<1>2. Types /\ Prepared /\ Delivered /\ [Next]_vars => Delivered'
  BY DeliveredNext
<1>3. Types /\ Prepared /\ Emptied /\ Delivered => BlockReceived
  BY ReceivedState
<1> QED BY <1>1, <1>2, <1>3, EndsEmpty, PTL DEF Spec

------------------------------------------------------------------------------
(* Nobody waits in a circle.                                                *)

(* The peer a target waits for has sent, or will without waiting for it.    *)
LEMMA SentToMe ==
  ASSUME Types, Prepared, NEW p \in Procs, NEW e \in 1 .. Entries,
         \A q \in Procs : Started(q) >= e, NEW i \in RecvPeers(p, layout[p][e])
  PROVE  Available(p, e, i) /\ i \in 0 .. shape.numP - 1
<1> DEFINE q == shape.qty[e]
<1>1. Settled /\ \A x \in Procs : Started(x) \in Nat
  BY DEF Types, Started
<1>2. \A x \in Procs : e \in 1 .. Started(x)
  BY <1>1
<1>3. \A x \in Procs : layout[x][e] = Lay(x, q) /\ Computed(x, q)
  BY <1>2 DEF Prepared
<1>4. i \in Range0(Lay(p, q).r)
  BY <1>3, Zenon DEF RecvPeers
<1>5. i \in 0 .. shape.numP - 1
  BY <1>1, <1>3, <1>4, PeersAreSources, Zenon
<1>6. i \in Procs /\ IsTarget(p)
  BY <1>1, <1>4, <1>5, GroupsAre, NoRole
<1>7. CASE conf.method = "rma"
  BY <1>5, <1>7 DEF Available, Windows
<1>8. CASE conf.method # "rma"
  <2>1. Agrees(p, e, i)
    BY <1>1, <1>3, <1>5, <1>6, SidesAgree
  <2>2. SendIndex(p) \in Range0(Lay(i, q).s) /\ Overlap(SourceBlock(i, e), TargetBlock(p, e)) > 0
    BY <1>4, <2>1, Zenon DEF Agrees, Match, Range0
  <2>3. CASE conf.method = "point"
    <3>1. LocalCopy(i, Lay(i, q)) => SendIndex(p) # i
      <4>1. SUFFICES ASSUME LocalCopy(i, Lay(i, q)), SendIndex(p) = i PROVE FALSE
        OBVIOUS
      <4>2. conf.spawn = "merge" /\ conf.method = "point" /\ ~conf.async
        BY <4>1 DEF LocalCopy
      <4>3. i = p
        BY <1>1, <4>1, <4>2 DEF SendIndex, Settled, Confs
      <4>4. SkipSelf(p, Lay(p, q))
        BY <1>1, <1>3, <1>5, <1>6, <2>2, <4>2, <4>3, SelfKept, Zenon
      <4> QED BY <1>3, <4>3, <4>4, Zenon DEF RecvPeers
    <3>2. SendIndex(p) \in SendPeers(i, layout[i][e])
      BY <1>3, <1>6, <2>2, <3>1, Zenon DEF SendPeers
    <3> QED BY <1>5, <1>6, <1>8, <3>2 DEF Available
  <2>4. CASE conf.method # "point"
    BY <1>5, <1>6, <1>8, <2>4 DEF Available
  <2> QED BY <2>3, <2>4
<1> QED BY <1>7, <1>8

(* The sends of an entry are over when nobody waits for it any more.        *)
LEMMA AllTaken ==
  ASSUME Types, Prepared, NEW p \in Procs, NEW e \in 1 .. Entries,
         \A q \in Procs : Started(q) >= e /\ Pending(q, e) = {}
  PROVE  Sent(p, e)
<1> DEFINE n == shape.qty[e]
<1>1. Settled /\ \A x \in Procs : Started(x) \in Nat
  BY DEF Types, Started
<1>2. \A x \in Procs : e \in 1 .. Started(x)
  BY <1>1
<1>3. \A x \in Procs : layout[x][e] = Lay(x, n) /\ Computed(x, n)
  BY <1>2 DEF Prepared
<1>4. ASSUME NEW q \in Procs \ {p}, IsTarget(q), SendIndex(q) \in SendPeers(p, layout[p][e])
      PROVE  p \in got[q][e]
  <2>1. SendIndex(q) \in Range0(Lay(p, n).s)
    BY <1>3, <1>4, Zenon DEF SendPeers
  <2>2. IsSource(p)
    BY <1>1, <2>1, NoRole
  <2>3. p \in 0 .. shape.numP - 1
    BY <1>1, <2>2, GroupsAre
  <2>4. Agrees(q, e, p)
    BY <1>1, <1>3, <1>4, <2>3, SidesAgree
  <2>5. p \in Range0(Lay(q, n).r)
    BY <2>1, <2>4, Zenon DEF Agrees, Match, Range0
  <2>6. p \in RecvPeers(q, layout[q][e])
    BY <1>3, <1>4, <2>5 DEF RecvPeers
  <2> QED BY <2>6 DEF Pending
<1> QED BY <1>4 DEF Sent

(* When every process has started an entry, a moving one that can receive   *)
(* nothing has nothing left to receive.                                     *)
LEMMA NothingLeft ==
  ASSUME Types, Prepared, NEW p \in Procs, phase[p] = "moving", NEW e \in 1 .. Entries,
         \A q \in Procs : Started(q) >= e,
         \A i \in 0 .. shape.numP - 1 : ~CanArrive(p, e, i)
  PROVE  Pending(p, e) = {}
<1> SUFFICES ASSUME Pending(p, e) # {} PROVE FALSE
  OBVIOUS
<1>1. \A i \in Pending(p, e) : Available(p, e, i) /\ i \in 0 .. shape.numP - 1
  BY SentToMe DEF Pending
<1>2. Pending(p, e) \in SUBSET Nat
  BY <1>1
<1>3. PICK i \in Pending(p, e) : \A j \in Pending(p, e) : i <= j
  BY <1>2, Least
<1>4. CanArrive(p, e, i)
  BY <1>1, <1>3 DEF CanArrive
<1> QED BY <1>1, <1>4

(* The moving process that has started the fewest entries can always take   *)
(* a step: all it waits for has been sent, and all it has sent was taken.   *)
LEMMA CircleState == Types /\ Prepared /\ Emptied => NoCircle
<1> SUFFICES ASSUME Types, Prepared, Emptied, PeersComputed, Stopped
             PROVE  \A p \in Procs : phase[p] = "returned"
  BY DEF NoCircle
<1>1. /\ \A p \in Procs : phase[p] \in {"moving", "ended", "returned"}
      /\ \A p \in Procs : Started(p) \in 0 .. Entries
      /\ Entries \in Nat \ {0}
  BY ParametersOK DEF Types, PeersComputed, Started
<1>2. \A p \in Procs :
        /\ ~CanEnd(p) /\ ~CanReturn(p)
        /\ \A e \in 1 .. Entries :
             ~CanStart(p, e) /\ \A i \in 0 .. shape.numP - 1 : ~CanArrive(p, e, i)
  BY DEF Stopped
<1>3. CASE \A p \in Procs : phase[p] # "moving"
  <2>1. \A p \in Procs : phase[p] \in {"ended", "returned"}
    BY <1>1, <1>3
  <2> QED BY <1>2, <2>1 DEF CanReturn
<1>4. CASE \E p \in Procs : phase[p] = "moving"
  <2> DEFINE M == {p \in Procs : phase[p] = "moving"}
             N == {Started(p) : p \in M}
  <2>1. N \in SUBSET Nat /\ N # {}
    BY <1>1, <1>4
  <2>2. PICK s \in N : \A t \in N : s <= t
    <3> HIDE DEF N
    <3> QED BY <2>1, Least
  <2>3. PICK p \in Procs : phase[p] = "moving" /\ Started(p) = s
    BY <2>2
  <2>4. \A q \in Procs : Started(q) >= s
    <3>1. ASSUME NEW q \in Procs PROVE Started(q) >= s
      <4>1. CASE phase[q] = "moving"
        <5>1. Started(q) \in N
          BY <4>1
        <5> QED BY <1>1, <2>1, <2>2, <5>1
      <4>2. CASE phase[q] # "moving"
        <5>1. Started(q) = Entries
          BY <1>1, <4>2 DEF Emptied
        <5> QED BY <1>1, <2>3, <5>1
      <4> QED BY <4>1, <4>2
    <3> QED BY <3>1
  <2>5. s \in 0 .. Entries
    BY <1>1, <2>3
  <2> HIDE DEF M, N
  <2>6. ASSUME NEW e \in 1 .. s
        PROVE  /\ e \in 1 .. Entries /\ \A q \in Procs : Started(q) >= e /\ Pending(q, e) = {}
    <3>1. e \in 1 .. Entries /\ \A q \in Procs : Started(q) >= e
      BY <1>1, <2>4, <2>5
    <3>2. ASSUME NEW q \in Procs PROVE Pending(q, e) = {}
      <4>1. CASE phase[q] = "moving"
        BY <1>2, <3>1, <4>1, NothingLeft
      <4>2. CASE phase[q] # "moving"
        BY <1>1, <3>1, <4>2 DEF Emptied
      <4> QED BY <4>1, <4>2
    <3> QED BY <3>1, <3>2
  <2>7. ASSUME NEW e \in 1 .. s PROVE Passed(p, e) /\ Pending(p, e) = {} /\ Sent(p, e)
    <3>1. Pending(p, e) = {} /\ Sent(p, e)
      BY <2>6, AllTaken
    <3>2. Windows(e)
      BY <2>6 DEF Windows
    <3> QED BY <3>1, <3>2 DEF Passed
  <2>8. CASE s = Entries
    <3>1. CanEnd(p)
      BY <2>3, <2>7, <2>8 DEF CanEnd
    <3> QED BY <1>2, <3>1
  <2>9. CASE s # Entries
    <3>1. s + 1 \in 1 .. Entries /\ (s + 1 > 1 => s \in 1 .. s) /\ (s + 1) - 1 = s
      BY <1>1, <2>5, <2>9
    <3>2. CanStart(p, s + 1)
      BY <2>3, <2>7, <3>1 DEF CanStart
    <3> QED BY <1>2, <3>1, <3>2
  <2> QED BY <2>8, <2>9
<1> QED BY <1>3, <1>4

(* The processes of a reconfiguration never wait for each other in a        *)
(* circle: blocking receives in rank order, rendezvous sends and collective *)
(* windows stop only when every process has returned, whatever the sizes of *)
(* the groups and the number of entries, unless get_util_ids died.          *)
THEOREM NoCircles == Spec => []NoCircle
BY EndsEmpty, CircleState, PTL

------------------------------------------------------------------------------
(* When get_util_ids divides by zero.                                       *)

(* No entry has fewer elements than both groups have processes.             *)
Enough == \A e \in 1 .. Entries : shape.qty[e] >= Smaller(shape.numP, shape.numC)

(* With enough elements no process dies when it prepares an entry.          *)
LEMMA EnoughNoFault ==
  ASSUME Types, Enough, NEW p \in Procs, NEW e \in 1 .. Entries
  PROVE  ~PrepareFaults(p, e)
<1> DEFINE q == shape.qty[e]
           n == shape.numP
           m == shape.numC
<1>1. /\ n \in Nat \ {0} /\ m \in Nat \ {0} /\ q \in Nat /\ q >= Smaller(n, m)
      /\ IsSource(p) => p \in 0 .. n - 1
      /\ IsTarget(p) => TargetId(p) \in 0 .. m - 1
  BY GroupsAre DEF Types, Enough
<1>2. ASSUME IsSource(p) PROVE ~DividesByZero(q, SourceBlock(p, e), m)
  <2>1. DividesByZero(q, SourceBlock(p, e), m) <=> q <= p /\ q < m
    BY <1>1, <1>2, DividesByZeroWhen DEF SourceBlock
  <2>2. ~(q <= p /\ q < m)
    BY <1>1, <1>2 DEF Smaller
  <2> QED BY <2>1, <2>2
<1>3. ASSUME IsTarget(p) PROVE ~DividesByZero(q, TargetBlock(p, e), n)
  <2>1. DividesByZero(q, TargetBlock(p, e), n) <=> q <= TargetId(p) /\ q < n
    BY <1>1, <1>3, DividesByZeroWhen DEF TargetBlock
  <2>2. ~(q <= TargetId(p) /\ q < n)
    <3> HIDE DEF q, n, m
    <3> QED BY <1>1, <1>3 DEF Smaller
  <2> QED BY <2>1, <2>2
<1> QED BY <1>2, <1>3 DEF PrepareFaults

(* The last source prepares every entry only when there are enough.         *)
LEMMA ComputedEnough ==
  ASSUME Types, Prepared, \A p \in Procs : Started(p) = Entries
  PROVE  Enough
<1> SUFFICES ASSUME NEW e \in 1 .. Entries
             PROVE  shape.qty[e] >= Smaller(shape.numP, shape.numC)
  BY DEF Enough
<1> DEFINE q == shape.qty[e]
           n == shape.numP
           m == shape.numC
           p == n - 1
<1>1. /\ n \in Nat \ {0} /\ m \in Nat \ {0} /\ q \in Nat /\ p \in 0 .. n - 1
      /\ p \in Procs /\ IsSource(p)
  BY GroupsAre DEF Types
<1>2. Computed(p, q)
  BY <1>1 DEF Prepared
<1>3. ~(q <= p /\ q < m)
  BY <1>1, <1>2, DividesByZeroWhen DEF Computed
<1> QED BY <1>1, <1>3 DEF Smaller

(* What get_util_ids asks of the entries, exactly: when none of them has    *)
(* fewer elements than both groups have processes no process divides by     *)
(* zero, and the redistribution ends in every process just in that case.    *)
THEOREM EndsWhenEnough ==
  Spec => []/\ Enough => PeersComputed
            /\ Stopped => (Enough <=> \A p \in Procs : phase[p] = "returned")
<1>1. Init => (Enough => PeersComputed)
  BY DEF Init, PeersComputed
<1>2. Types /\ (Enough => PeersComputed) /\ [Next]_vars => (Enough => PeersComputed)'
  <2> SUFFICES ASSUME Types, Enough => PeersComputed, [Next]_vars, Enough'
               PROVE  PeersComputed'
    OBVIOUS
  <2>1. CASE UNCHANGED vars
    BY <2>1 DEF vars, Enough, PeersComputed, Procs
  <2>2. ASSUME NEW p \in Procs,
               \/ Start(p)
               \/ Fault(p)
               \/ \E e \in 1 .. Entries, i \in 0 .. shape.numP - 1 : Arrive(p, e, i)
               \/ End(p)
               \/ Return(p)
        PROVE  PeersComputed'
    <3>1. UNCHANGED <<conf, shape>>
      BY <2>2 DEF Start, Fault, Arrive, End, Return
    <3>2. Enough /\ PeersComputed /\ Procs' = Procs
      BY <3>1, GroupsStay DEF Enough
    <3>3. phase \in [Procs -> {"moving", "ended", "returned", "crashed"}]
      BY DEF Types
    <3>4. CASE Fault(p)
      <4>1. Started(p) + 1 \in 1 .. Entries
        BY <3>4, ParametersOK DEF Fault, CanStart, Types, Started
      <4> QED BY <3>2, <3>4, <4>1, EnoughNoFault DEF Fault
    <3>5. CASE ~Fault(p)
      <4>1. \/ phase' = phase
            \/ phase' = [phase EXCEPT ![p] = "ended"]
            \/ phase' = [phase EXCEPT ![p] = "returned"]
        BY <2>2, <3>5 DEF Start, Arrive, End, Return
      <4> QED BY <3>2, <3>3, <4>1 DEF PeersComputed
    <3> QED BY <3>4, <3>5
  <2> QED BY <2>1, <2>2 DEF Next
<1>3. Types /\ Prepared /\ Emptied /\ NoCircle /\ (Enough => PeersComputed)
      => (Stopped => (Enough <=> \A p \in Procs : phase[p] = "returned"))
  <2> SUFFICES ASSUME Types, Prepared, Emptied, NoCircle, Enough => PeersComputed, Stopped
               PROVE  Enough <=> \A p \in Procs : phase[p] = "returned"
    OBVIOUS
  <2>1. Enough => \A p \in Procs : phase[p] = "returned"
    BY DEF NoCircle
  <2>2. ASSUME \A p \in Procs : phase[p] = "returned" PROVE Enough
    <3>1. \A p \in Procs : Started(p) = Entries
      BY <2>2 DEF Emptied
    <3> QED BY <3>1, ComputedEnough
  <2> QED BY <2>1, <2>2
<1> QED BY <1>1, <1>2, <1>3, EndsEmpty, NoCircles, PTL DEF Spec

------------------------------------------------------------------------------
(* The asynchronous redistribution around the transfer (Redistribution):    *)
(* for any sources, children and zombies, any strategy and kind of          *)
(* communicator, a source leaves with its requests complete and, under      *)
(* WAIT_TARGETS, with the data of every child arrived.                      *)

\* What every configuration has: children apart from the sources and a known strategy.
LEMMA AsyncConf ==
  ASSUME RanksOK, NEW c \in Reconfs
  PROVE  /\ c.children \cap Sources = {}
         /\ c.strategy \in {"none", "wait_targets", "pthread"}
  BY DEF RanksOK, Reconfs

\* Every step keeps the types.
LEMMA AsyncTypes ==
  ASSUME RanksOK, TypeOK, [RedistNext]_redistVars
  PROVE  TypeOK'
<1>. USE DEF RanksOK, TypeOK, Ranks, Places, Answers
<1>1. ASSUME NEW p \in Sources, StartRedistribution(p) PROVE TypeOK'
  BY <1>1 DEF StartRedistribution, Goto
<1>2. ASSUME NEW p \in Sources, TestRequests(p) PROVE TypeOK'
  BY <1>2 DEF TestRequests, Goto, Answer
<1>3. ASSUME NEW p \in Sources, TestThread(p) PROVE TypeOK'
  BY <1>3 DEF TestThread, Goto, Answer
<1>4. ASSUME NEW p \in Sources, Decide(p) PROVE TypeOK'
  BY <1>4 DEF Decide, Goto
<1>5. ASSUME NEW p \in Sources, WaitRequests(p) PROVE TypeOK'
  BY <1>5 DEF WaitRequests, Goto
<1>6. ASSUME NEW p \in Sources, WaitData(p) PROVE TypeOK'
  BY <1>6 DEF WaitData, Goto
<1>7. ASSUME NEW p \in Sources, Join(p) PROVE TypeOK'
  BY <1>7 DEF Join, Goto
<1>8. ASSUME NEW p \in Sources, ThreadSend(p) PROVE TypeOK'
  BY <1>8 DEF ThreadSend, Goto
<1>9. ASSUME NEW p \in Sources, ThreadDone(p) PROVE TypeOK'
  BY <1>9 DEF ThreadDone, Goto
<1>10. ASSUME NEW c \in reconf.children, ChildStart(c) PROVE TypeOK'
  BY <1>10 DEF ChildStart, Goto
<1>11. ASSUME NEW c \in reconf.children, ChildReceived(c) PROVE TypeOK'
  BY <1>11 DEF ChildReceived, Goto
<1>12. ASSUME NEW r \in Ranks, WaitBarrier(r) PROVE TypeOK'
  BY <1>12 DEF WaitBarrier, Goto
<1>13. ASSUME NEW r \in Ranks, EndAsync(r) PROVE TypeOK'
  BY <1>13 DEF EndAsync, Goto
<1>14. ASSUME NEW r \in Ranks, WinFree(r) PROVE TypeOK'
  BY <1>14 DEF WinFree, Goto
<1>15. ASSUME NEW r \in Ranks, UserStart(r) PROVE TypeOK'
  BY <1>15 DEF UserStart, Goto
<1>16. ASSUME NEW r \in Ranks, Complete(r) PROVE TypeOK'
  BY <1>16 DEF Complete, Goto
<1>17. CASE Allreduce
  BY <1>17 DEF Allreduce, Reduced, Answer
<1>18. CASE UNCHANGED redistVars
  BY <1>18 DEF redistVars
<1>. QED
  BY <1>1, <1>2, <1>3, <1>4, <1>5, <1>6, <1>7, <1>8, <1>9, <1>10, <1>11, <1>12, <1>13, <1>14, <1>15, <1>16, <1>17, <1>18
  DEF RedistNext, SourceStep, ThreadStep, ChildStep, CommonStep

\* The barrier is only waited for under WAIT_TARGETS.
LEMMA AsyncPlaces ==
  ASSUME RanksOK, TypeOK, PlaceOK, [RedistNext]_redistVars
  PROVE  PlaceOK'
<1>. USE DEF RanksOK, TypeOK, PlaceOK, Ranks
<1>1. ASSUME NEW p \in Sources, StartRedistribution(p) PROVE PlaceOK'
  BY <1>1 DEF StartRedistribution, Goto
<1>2. ASSUME NEW p \in Sources, TestRequests(p) PROVE PlaceOK'
  BY <1>2 DEF TestRequests, Goto, Answer
<1>3. ASSUME NEW p \in Sources, TestThread(p) PROVE PlaceOK'
  BY <1>3 DEF TestThread, Goto, Answer
<1>4. ASSUME NEW p \in Sources, Decide(p) PROVE PlaceOK'
  BY <1>4 DEF Decide, Goto
<1>5. ASSUME NEW p \in Sources, WaitRequests(p) PROVE PlaceOK'
  BY <1>5 DEF WaitRequests, Goto
<1>6. ASSUME NEW p \in Sources, WaitData(p) PROVE PlaceOK'
  BY <1>6 DEF WaitData, Goto
<1>7. ASSUME NEW p \in Sources, Join(p) PROVE PlaceOK'
  BY <1>7 DEF Join, Goto
<1>8. ASSUME NEW p \in Sources, ThreadSend(p) PROVE PlaceOK'
  BY <1>8 DEF ThreadSend, Goto
<1>9. ASSUME NEW p \in Sources, ThreadDone(p) PROVE PlaceOK'
  BY <1>9 DEF ThreadDone, Goto
<1>10. ASSUME NEW c \in reconf.children, ChildStart(c) PROVE PlaceOK'
  BY <1>10 DEF ChildStart, Goto
<1>11. ASSUME NEW c \in reconf.children, ChildReceived(c) PROVE PlaceOK'
  BY <1>11 DEF ChildReceived, Goto
<1>12. ASSUME NEW r \in Ranks, WaitBarrier(r) PROVE PlaceOK'
  BY <1>12 DEF WaitBarrier, Goto
<1>13. ASSUME NEW r \in Ranks, EndAsync(r) PROVE PlaceOK'
  BY <1>13 DEF EndAsync, Goto
<1>14. ASSUME NEW r \in Ranks, WinFree(r) PROVE PlaceOK'
  BY <1>14 DEF WinFree, Goto
<1>15. ASSUME NEW r \in Ranks, UserStart(r) PROVE PlaceOK'
  BY <1>15 DEF UserStart, Goto
<1>16. ASSUME NEW r \in Ranks, Complete(r) PROVE PlaceOK'
  BY <1>16 DEF Complete, Goto
<1>17. CASE Allreduce
  BY <1>17 DEF Allreduce, Reduced, Answer
<1>18. CASE UNCHANGED redistVars
  BY <1>18 DEF redistVars
<1>. QED
  BY <1>1, <1>2, <1>3, <1>4, <1>5, <1>6, <1>7, <1>8, <1>9, <1>10, <1>11, <1>12, <1>13, <1>14, <1>15, <1>16, <1>17, <1>18
  DEF RedistNext, SourceStep, ThreadStep, ChildStep, CommonStep

\* A source leaves only through a complete barrier.
LEMMA AsyncBarrier ==
  ASSUME RanksOK, TypeOK, PlaceOK, BarrierOK, [RedistNext]_redistVars
  PROVE  BarrierOK'
<1>. USE DEF RanksOK, TypeOK, PlaceOK, BarrierOK, Ranks, Answers, BarrierDone, BarrierPeers
<1>1. ASSUME NEW p \in Sources, StartRedistribution(p) PROVE BarrierOK'
  BY <1>1, AsyncConf DEF StartRedistribution, Goto
<1>2. ASSUME NEW p \in Sources, TestRequests(p) PROVE BarrierOK'
  BY <1>2 DEF TestRequests, Goto, Answer
<1>3. ASSUME NEW p \in Sources, TestThread(p) PROVE BarrierOK'
  BY <1>3 DEF TestThread, Goto, Answer
<1>4. ASSUME NEW p \in Sources, Decide(p) PROVE BarrierOK'
  BY <1>4 DEF Decide, Goto
<1>5. ASSUME NEW p \in Sources, WaitRequests(p) PROVE BarrierOK'
  BY <1>5, AsyncConf DEF WaitRequests, Goto
<1>6. ASSUME NEW p \in Sources, WaitData(p) PROVE BarrierOK'
  BY <1>6 DEF WaitData, Goto
<1>7. ASSUME NEW p \in Sources, Join(p) PROVE BarrierOK'
  BY <1>7 DEF Join, Goto
<1>8. ASSUME NEW p \in Sources, ThreadSend(p) PROVE BarrierOK'
  BY <1>8 DEF ThreadSend, Goto
<1>9. ASSUME NEW p \in Sources, ThreadDone(p) PROVE BarrierOK'
  BY <1>9 DEF ThreadDone, Goto
<1>10. ASSUME NEW c \in reconf.children, ChildStart(c) PROVE BarrierOK'
  BY <1>10 DEF ChildStart, Goto
<1>11. ASSUME NEW c \in reconf.children, ChildReceived(c) PROVE BarrierOK'
  BY <1>11 DEF ChildReceived, Goto
<1>12. ASSUME NEW r \in Ranks, WaitBarrier(r) PROVE BarrierOK'
  BY <1>12 DEF WaitBarrier, Goto
<1>13. ASSUME NEW r \in Ranks, EndAsync(r) PROVE BarrierOK'
  BY <1>13 DEF EndAsync, Goto
<1>14. ASSUME NEW r \in Ranks, WinFree(r) PROVE BarrierOK'
  BY <1>14 DEF WinFree, Goto
<1>15. ASSUME NEW r \in Ranks, UserStart(r) PROVE BarrierOK'
  BY <1>15 DEF UserStart, Goto
<1>16. ASSUME NEW r \in Ranks, Complete(r) PROVE BarrierOK'
  BY <1>16 DEF Complete, Goto
<1>17. CASE Allreduce
  BY <1>17 DEF Allreduce, Reduced, Answer
<1>18. CASE UNCHANGED redistVars
  BY <1>18 DEF redistVars
<1>. QED
  BY <1>1, <1>2, <1>3, <1>4, <1>5, <1>6, <1>7, <1>8, <1>9, <1>10, <1>11, <1>12, <1>13, <1>14, <1>15, <1>16, <1>17, <1>18
  DEF RedistNext, SourceStep, ThreadStep, ChildStep, CommonStep

\* A rank leaves only with its own requests complete.
LEMMA AsyncLeave ==
  ASSUME RanksOK, TypeOK, PlaceOK, LeaveOK, [RedistNext]_redistVars
  PROVE  LeaveOK'
<1>. USE DEF RanksOK, TypeOK, PlaceOK, LeaveOK, Left, Ranks, Answers
<1>1. ASSUME NEW p \in Sources, StartRedistribution(p) PROVE LeaveOK'
  BY <1>1 DEF StartRedistribution, Goto
<1>2. ASSUME NEW p \in Sources, TestRequests(p) PROVE LeaveOK'
  BY <1>2 DEF TestRequests, Goto, Answer
<1>3. ASSUME NEW p \in Sources, TestThread(p) PROVE LeaveOK'
  BY <1>3 DEF TestThread, Goto, Answer
<1>4. ASSUME NEW p \in Sources, Decide(p) PROVE LeaveOK'
  BY <1>4, AsyncConf DEF Decide, Goto
<1>5. ASSUME NEW p \in Sources, WaitRequests(p) PROVE LeaveOK'
  BY <1>5 DEF WaitRequests, Goto
<1>6. ASSUME NEW p \in Sources, WaitData(p) PROVE LeaveOK'
  BY <1>6 DEF WaitData, Goto
<1>7. ASSUME NEW p \in Sources, Join(p) PROVE LeaveOK'
  BY <1>7 DEF Join, Goto
<1>8. ASSUME NEW p \in Sources, ThreadSend(p) PROVE LeaveOK'
  BY <1>8 DEF ThreadSend, Goto
<1>9. ASSUME NEW p \in Sources, ThreadDone(p) PROVE LeaveOK'
  BY <1>9 DEF ThreadDone, Goto
<1>10. ASSUME NEW c \in reconf.children, ChildStart(c) PROVE LeaveOK'
  BY <1>10 DEF ChildStart, Goto
<1>11. ASSUME NEW c \in reconf.children, ChildReceived(c) PROVE LeaveOK'
  BY <1>11 DEF ChildReceived, Goto
<1>12. ASSUME NEW r \in Ranks, WaitBarrier(r) PROVE LeaveOK'
  BY <1>12 DEF WaitBarrier, Goto
<1>13. ASSUME NEW r \in Ranks, EndAsync(r) PROVE LeaveOK'
  BY <1>13 DEF EndAsync, Goto
<1>14. ASSUME NEW r \in Ranks, WinFree(r) PROVE LeaveOK'
  BY <1>14 DEF WinFree, Goto
<1>15. ASSUME NEW r \in Ranks, UserStart(r) PROVE LeaveOK'
  BY <1>15 DEF UserStart, Goto
<1>16. ASSUME NEW r \in Ranks, Complete(r) PROVE LeaveOK'
  BY <1>16 DEF Complete, Goto
<1>17. CASE Allreduce
  BY <1>17 DEF Allreduce, Reduced, Answer
<1>18. CASE UNCHANGED redistVars
  BY <1>18 DEF redistVars
<1>. QED
  BY <1>1, <1>2, <1>3, <1>4, <1>5, <1>6, <1>7, <1>8, <1>9, <1>10, <1>11, <1>12, <1>13, <1>14, <1>15, <1>16, <1>17, <1>18
  DEF RedistNext, SourceStep, ThreadStep, ChildStep, CommonStep

\* IInv holds of the initial states.
THEOREM AsyncInit ==
  ASSUME RanksOK
  PROVE  RedistInit => IInv
<1>. SUFFICES ASSUME RedistInit PROVE IInv
  OBVIOUS
<1>. USE DEF RanksOK, RedistInit, Ranks
<1>1. TypeOK
  BY DEF TypeOK, Places, Answers
<1>2. PlaceOK /\ BarrierOK
  BY DEF PlaceOK, BarrierOK
<1>3. LeaveOK
  BY DEF LeaveOK, Left
<1>. QED  BY <1>1, <1>2, <1>3 DEF IInv

\* IInv is an invariant of the redistribution.
THEOREM AsyncInvariance ==
  ASSUME RanksOK
  PROVE  RedistSpec => []IInv
<1>1. RedistInit => IInv
  BY AsyncInit
<1>2. IInv /\ [RedistNext]_redistVars => IInv'
  BY AsyncTypes, AsyncPlaces, AsyncBarrier, AsyncLeave DEF IInv
<1>. QED  BY <1>1, <1>2, PTL DEF RedistSpec

\* Every variable keeps its type.
THEOREM AsyncTypeCorrect == RedistSpec => []TypeOK
<1>1. IInv => TypeOK
  BY DEF IInv
<1>. QED  BY <1>1, AsyncInvariance, RedistributionAssumption, PTL

\* WAIT_TARGETS does what its name says: no source leaves before every child has its data.
THEOREM TargetsAwaited == RedistSpec => []WaitTargets
<1>1. IInv => WaitTargets
  <2>1. SUFFICES ASSUME IInv, entries, reconf.strategy = "wait_targets",
                        NEW p \in Left \cap Sources
                 PROVE  reconf.children \subseteq complete
    BY DEF WaitTargets
  <2>2. BarrierDone(p, arrived)
    BY <2>1 DEF IInv, BarrierOK, Left
  <2>3. reconf.children \subseteq arrived
    BY <2>2 DEF BarrierDone, BarrierPeers, Ranks
  <2>. QED  BY <2>1, <2>3 DEF IInv, BarrierOK
<1>. QED  BY <1>1, AsyncInvariance, RedistributionAssumption, PTL

\* No rank leaves check_redistribution, thread_check or Children_init with a pending request.
THEOREM RequestsComplete == RedistSpec => []OwnRequestsComplete
<1>1. IInv => OwnRequestsComplete
  BY DEF IInv, LeaveOK, OwnRequestsComplete
<1>. QED  BY <1>1, AsyncInvariance, RedistributionAssumption, PTL

\* The sources go from one reduction to the next together.
LEMMA AsyncRounds ==
  ASSUME RanksOK, TypeOK, PlaceOK, RoundOK, [RedistNext]_redistVars
  PROVE  RoundOK'
<1>. USE DEF RanksOK, TypeOK, RoundOK, Ranks, Answers, Out, Rounds, Agreed
<1>1. ASSUME NEW p \in Sources, StartRedistribution(p) PROVE RoundOK'
  <2>. USE <1>1 DEF StartRedistribution, Goto
  <2>1. ASSUME NEW q \in Sources PROVE Rounds(q)' = Rounds(q)
    OBVIOUS
  <2>2. ASSUME NEW q \in Sources
        PROVE  /\ (pc[q] = "reducing")' <=> contrib[q]' # "none" \/ decision[q]' # "none"
               /\ contrib[q]' = "none" \/ decision[q]' = "none"
               /\ contrib[q]' # "none" /\ reconf'.waits => polls[q]' < MaxPolls
               /\ entries' \/ pc[q]' \in {"start", "user_start", "user"}
    OBVIOUS
  <2>3. ASSUME NEW q \in Sources
        PROVE  /\ decision[q]' = "yes" => Agreed'
               /\ entries' /\ Out(q)' => Agreed' \/ (reconf'.waits /\ polls[q]' = MaxPolls)
    OBVIOUS
  <2>. QED  BY <2>1, <2>2, <2>3
<1>2. ASSUME NEW p \in Sources, TestRequests(p) PROVE RoundOK'
  <2>. USE <1>2 DEF TestRequests, Goto, Answer, Waits
  <2>1. ASSUME NEW q \in Sources PROVE Rounds(q)' = Rounds(q)
    OBVIOUS
  <2>2. ASSUME NEW q \in Sources
        PROVE  /\ (pc[q] = "reducing")' <=> contrib[q]' # "none" \/ decision[q]' # "none"
               /\ contrib[q]' = "none" \/ decision[q]' = "none"
               /\ contrib[q]' # "none" /\ reconf'.waits => polls[q]' < MaxPolls
               /\ entries' \/ pc[q]' \in {"start", "user_start", "user"}
    OBVIOUS
  <2>3. ASSUME NEW q \in Sources
        PROVE  /\ decision[q]' = "yes" => Agreed'
               /\ entries' /\ Out(q)' => Agreed' \/ (reconf'.waits /\ polls[q]' = MaxPolls)
    OBVIOUS
  <2>. QED  BY <2>1, <2>2, <2>3
<1>3. ASSUME NEW p \in Sources, TestThread(p) PROVE RoundOK'
  <2>. USE <1>3 DEF TestThread, Goto, Answer, Waits
  <2>1. ASSUME NEW q \in Sources PROVE Rounds(q)' = Rounds(q)
    OBVIOUS
  <2>2. ASSUME NEW q \in Sources
        PROVE  /\ (pc[q] = "reducing")' <=> contrib[q]' # "none" \/ decision[q]' # "none"
               /\ contrib[q]' = "none" \/ decision[q]' = "none"
               /\ contrib[q]' # "none" /\ reconf'.waits => polls[q]' < MaxPolls
               /\ entries' \/ pc[q]' \in {"start", "user_start", "user"}
    OBVIOUS
  <2>3. ASSUME NEW q \in Sources
        PROVE  /\ decision[q]' = "yes" => Agreed'
               /\ entries' /\ Out(q)' => Agreed' \/ (reconf'.waits /\ polls[q]' = MaxPolls)
    OBVIOUS
  <2>. QED  BY <2>1, <2>2, <2>3
<1>4. ASSUME NEW p \in Sources, Decide(p) PROVE RoundOK'
  <2>. USE <1>4 DEF Decide, Goto
  <2>1. ASSUME NEW q \in Sources PROVE Rounds(q)' = Rounds(q)
    OBVIOUS
  <2>2. ASSUME NEW q \in Sources
        PROVE  /\ (pc[q] = "reducing")' <=> contrib[q]' # "none" \/ decision[q]' # "none"
               /\ contrib[q]' = "none" \/ decision[q]' = "none"
               /\ contrib[q]' # "none" /\ reconf'.waits => polls[q]' < MaxPolls
               /\ entries' \/ pc[q]' \in {"start", "user_start", "user"}
    OBVIOUS
  <2>3. ASSUME NEW q \in Sources
        PROVE  /\ decision[q]' = "yes" => Agreed'
               /\ entries' /\ Out(q)' => Agreed' \/ (reconf'.waits /\ polls[q]' = MaxPolls)
    OBVIOUS
  <2>. QED  BY <2>1, <2>2, <2>3
<1>5. ASSUME NEW p \in Sources, WaitRequests(p) PROVE RoundOK'
  <2>. USE <1>5 DEF WaitRequests, Goto, Waits
  <2>1. ASSUME NEW q \in Sources PROVE Rounds(q)' = Rounds(q)
    OBVIOUS
  <2>2. ASSUME NEW q \in Sources
        PROVE  /\ (pc[q] = "reducing")' <=> contrib[q]' # "none" \/ decision[q]' # "none"
               /\ contrib[q]' = "none" \/ decision[q]' = "none"
               /\ contrib[q]' # "none" /\ reconf'.waits => polls[q]' < MaxPolls
               /\ entries' \/ pc[q]' \in {"start", "user_start", "user"}
    OBVIOUS
  <2>3. ASSUME NEW q \in Sources
        PROVE  /\ decision[q]' = "yes" => Agreed'
               /\ entries' /\ Out(q)' => Agreed' \/ (reconf'.waits /\ polls[q]' = MaxPolls)
    OBVIOUS
  <2>. QED  BY <2>1, <2>2, <2>3
<1>6. ASSUME NEW p \in Sources, WaitData(p) PROVE RoundOK'
  BY <1>6 DEF WaitData, Goto
<1>7. ASSUME NEW p \in Sources, Join(p) PROVE RoundOK'
  BY <1>7 DEF Join, Goto
<1>8. ASSUME NEW p \in Sources, ThreadSend(p) PROVE RoundOK'
  BY <1>8 DEF ThreadSend, Goto
<1>9. ASSUME NEW p \in Sources, ThreadDone(p) PROVE RoundOK'
  BY <1>9 DEF ThreadDone, Goto
<1>10. ASSUME NEW c \in reconf.children, ChildStart(c) PROVE RoundOK'
  BY <1>10, AsyncConf DEF ChildStart, Goto
<1>11. ASSUME NEW c \in reconf.children, ChildReceived(c) PROVE RoundOK'
  BY <1>11, AsyncConf DEF ChildReceived, Goto
<1>12. ASSUME NEW r \in Ranks, WaitBarrier(r) PROVE RoundOK'
  BY <1>12, AsyncConf DEF WaitBarrier, Goto
<1>13. ASSUME NEW r \in Ranks, EndAsync(r) PROVE RoundOK'
  BY <1>13, AsyncConf DEF EndAsync, Goto
<1>14. ASSUME NEW r \in Ranks, WinFree(r) PROVE RoundOK'
  BY <1>14, AsyncConf DEF WinFree, Goto
<1>15. ASSUME NEW r \in Ranks, UserStart(r) PROVE RoundOK'
  BY <1>15, AsyncConf DEF UserStart, Goto
<1>16. ASSUME NEW r \in Ranks, Complete(r) PROVE RoundOK'
  BY <1>16, AsyncConf DEF Complete, Goto
<1>17. CASE Allreduce
  BY <1>17 DEF Allreduce, Reduced, Answer
<1>18. CASE UNCHANGED redistVars
  BY <1>18 DEF redistVars
<1>. QED
  BY <1>1, <1>2, <1>3, <1>4, <1>5, <1>6, <1>7, <1>8, <1>9, <1>10, <1>11, <1>12, <1>13, <1>14, <1>15, <1>16, <1>17, <1>18
  DEF RedistNext, SourceStep, ThreadStep, ChildStep, CommonStep

\* A polling source never finds itself in a reduction that another has left for good.
THEOREM TogetherCorrect == RedistSpec => []LeaveTogether
<1>1. RedistInit => RoundOK
  BY RedistributionAssumption DEF RanksOK, RedistInit, RoundOK, Ranks, Out, Rounds, Agreed
<1>2. IInv /\ RoundOK /\ [RedistNext]_redistVars => RoundOK'
  BY AsyncRounds, RedistributionAssumption DEF IInv
<1>3. IInv /\ RoundOK => LeaveTogether
  <2>1. SUFFICES ASSUME IInv, RoundOK, NEW p \in Sources, NEW q \in Sources,
                        contrib[p] # "none", Out(q)
                 PROVE  FALSE
    BY DEF LeaveTogether, Out
  <2>2. pc[p] = "reducing" /\ decision[p] = "none" /\ entries
    BY <2>1 DEF RoundOK
  <2>3. ~Agreed
    BY <2>2 DEF Agreed, Out
  <2>4. reconf.waits /\ polls[q] = MaxPolls
    BY <2>1, <2>2, <2>3 DEF RoundOK
  <2>5. Rounds(q) = MaxPolls /\ Rounds(p) = polls[p]
    BY RedistributionAssumption, <2>2, <2>4 DEF RanksOK, Rounds
  <2>6. polls[p] < MaxPolls /\ polls[p] \in Nat
    BY RedistributionAssumption, <2>1, <2>4 DEF RanksOK, RoundOK, IInv, TypeOK
  <2>. QED  BY RedistributionAssumption, <2>1, <2>5, <2>6 DEF RanksOK, RoundOK
<1>. QED  BY <1>1, <1>2, <1>3, AsyncInvariance, RedistributionAssumption, PTL DEF RedistSpec
=============================================================================
