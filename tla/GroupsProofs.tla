---------------------------- MODULE GroupsProofs ----------------------------
(* The Multiple and Parallel strategies: no group is spawned twice, none    *)
(* connects before all exist, and the connected children hold all groups,   *)
(* in the order of their ranks.  The theorems are about the launches that   *)
(* fit, those in which each group of a hypercube has one spawner: in some   *)
(* of the others the code spawns a group twice.                             *)
EXTENDS Groups, FiniteSetTheorems, SequenceTheorems, WellFoundedInduction, TLAPS

(* What a launch is: the strategy, the sources and the sizes of the groups. *)
Launch ==
  /\ shape \in Shapes
  /\ Fitting(shape)
  /\ mine = DiffusiveGroups

-----------------------------------------------------------------------------
(* Induction, and functions defined by recursion, over the naturals.        *)

(* A nonempty set of naturals has a least element.                          *)
LEMMA Least ==
  ASSUME NEW T \in SUBSET Nat, T # {}
  PROVE  \E x \in T : \A y \in T : x <= y
<1> DEFINE R == {ss \in Nat \X Nat : ss[1] < ss[2]}
<1>1. IsWellFoundedOn(R, Nat)
  BY NatLessThanWellFounded DEF OpToRel
<1>2. PICK x \in T : \A y \in T : ~ (<<y, x>> \in R)
  BY <1>1, WFMin
<1>3. \A y \in T : ~ (y < x)
  BY <1>2
<1> QED BY <1>3

(* Induction over the naturals.                                             *)
LEMMA Induct ==
  ASSUME NEW T \in SUBSET Nat, 0 \in T, \A n \in T : n + 1 \in T
  PROVE  T = Nat
<1> SUFFICES ASSUME T # Nat PROVE FALSE
  OBVIOUS
<1>1. PICK x \in Nat \ T : \A y \in Nat \ T : x <= y
  BY Least
<1>2. x - 1 \in Nat /\ x - 1 \in T
  BY <1>1
<1>3. (x - 1) + 1 \in T
  BY <1>2
<1> QED BY <1>1, <1>3

(* h starts from a and goes on by step, up to n.                            *)
Follows(h, a, step, n) ==
  h[0] = a /\ \A i \in 0 .. n - 1 : h[i + 1] = step[<<i, h[i]>>]

(* Two functions that follow the same steps agree.                          *)
LEMMA Agree ==
  ASSUME NEW a, NEW step, NEW n \in Nat, NEW m \in Nat, n <= m,
         NEW f, NEW h, Follows(f, a, step, n), Follows(h, a, step, m)
  PROVE  f[n] = h[n]
<1> DEFINE T == {i \in Nat : i <= n => f[i] = h[i]}
<1>1. 0 \in T
  BY DEF Follows
<1>2. ASSUME NEW i \in T PROVE i + 1 \in T
  <2>1. SUFFICES ASSUME i + 1 <= n PROVE f[i + 1] = h[i + 1]
    OBVIOUS
  <2>2. f[i] = h[i] /\ i \in 0 .. n - 1 /\ i \in 0 .. m - 1
    BY <2>1
  <2> QED BY <2>2 DEF Follows
<1>3. T = Nat
  <2>1. T \in SUBSET Nat
    OBVIOUS
  <2> HIDE DEF T
  <2> QED BY <1>1, <1>2, <2>1, Induct
<1> QED BY <1>3

(* It does so for ever.                                                     *)
Recurs(f, a, step) ==
  f[0] = a /\ \A n \in Nat : f[n + 1] = step[<<n, f[n]>>]

(* There is a function that starts from a and goes on by step.              *)
LEMMA Recursive ==
  ASSUME NEW S, NEW a \in S, NEW step \in [Nat \X S -> S]
  PROVE  \E f \in [Nat -> S] : Recurs(f, a, step)
<1> DEFINE T == {n \in Nat : \E h \in [0 .. n -> S] : Follows(h, a, step, n)}
<1>1. 0 \in T
  <2> DEFINE h == [i \in 0 .. 0 |-> a]
  <2>1. h \in [0 .. 0 -> S] /\ h[0] = a
    OBVIOUS
  <2>2. Follows(h, a, step, 0)
    BY <2>1 DEF Follows
  <2> QED BY <2>1, <2>2
<1>2. ASSUME NEW n \in T PROVE n + 1 \in T
  <2>1. PICK h \in [0 .. n -> S] : Follows(h, a, step, n)
    OBVIOUS
  <2> DEFINE w == step[<<n, h[n]>>]
             g == [i \in 0 .. n + 1 |-> IF i = n + 1 THEN w ELSE h[i]]
  <2>2. n \in Nat /\ w \in S
    BY <2>1
  <2>3. g \in [0 .. n + 1 -> S] /\ g[0] = a
    BY <2>1, <2>2 DEF Follows
  <2>4. ASSUME NEW i \in 0 .. (n + 1) - 1 PROVE g[i + 1] = step[<<i, g[i]>>]
    <3>1. i \in 0 .. n /\ g[i] = h[i] /\ g[n + 1] = w
      BY <2>2
    <3>2. CASE i = n
      <4> HIDE DEF g
      <4> QED BY <3>1, <3>2
    <3>3. CASE i # n
      <4>1. i \in 0 .. n - 1 /\ g[i + 1] = h[i + 1]
        BY <2>2, <3>1, <3>3
      <4>2. h[i + 1] = step[<<i, h[i]>>]
        BY <2>1, <4>1 DEF Follows
      <4> HIDE DEF g
      <4> QED BY <3>1, <4>1, <4>2
    <3> QED BY <3>2, <3>3
  <2>5. Follows(g, a, step, n + 1)
    BY <2>3, <2>4 DEF Follows
  <2> QED BY <2>2, <2>3, <2>5
<1>3. T = Nat
  <2>1. T \in SUBSET Nat
    OBVIOUS
  <2> HIDE DEF T
  <2> QED BY <1>1, <1>2, <2>1, Induct
<1> DEFINE H(n) == CHOOSE h \in [0 .. n -> S] : Follows(h, a, step, n)
           f == [n \in Nat |-> H(n)[n]]
<1>4. \A n \in Nat : H(n) \in [0 .. n -> S] /\ Follows(H(n), a, step, n)
  BY <1>3
<1> HIDE DEF H
<1>5. f \in [Nat -> S]
  BY <1>4
<1>6. f[0] = a
  BY <1>4 DEF Follows
<1>7. ASSUME NEW n \in Nat PROVE f[n + 1] = step[<<n, f[n]>>]
  <2>1. n \in 0 .. (n + 1) - 1 /\ n + 1 \in Nat /\ n <= n + 1
    OBVIOUS
  <2>2. H(n + 1)[n + 1] = step[<<n, H(n + 1)[n]>>]
    BY <1>4, <2>1 DEF Follows
  <2>3. H(n)[n] = H(n + 1)[n]
    <3>1. Follows(H(n), a, step, n) /\ Follows(H(n + 1), a, step, n + 1)
      BY <1>4, <2>1
    <3> QED BY <2>1, <3>1, Agree
  <2> QED BY <2>1, <2>2, <2>3
<1> QED BY <1>5, <1>6, <1>7 DEF Recurs

-----------------------------------------------------------------------------
(* Arithmetic.                                                              *)

(* A product grows with its factor.                                         *)
LEMMA Times ==
  ASSUME NEW t \in Nat, NEW i \in Nat, NEW j \in Nat, i <= j
  PROVE  i * t <= j * t /\ i * t \in Nat /\ j * t \in Nat
<1>1. j * t = i * t + (j - i) * t
  OBVIOUS
<1>2. (j - i) * t >= 0
  OBVIOUS
<1> QED BY <1>1, <1>2

(* pow with natural arguments.                                              *)
LEMMA PowerIs ==
  ASSUME NEW b \in Nat
  PROVE  /\ \A e \in Nat : Power(b, e) \in Nat /\ Power(b, e + 1) = b * Power(b, e)
         /\ Power(b, 0) = 1
<1> DEFINE Eq(g) == g = [i \in Nat |-> IF i = 0 THEN 1 ELSE b * g[i - 1]]
           D == CHOOSE g : Eq(g)
<1>1. \A e : Power(b, e) = D[e]
  BY DEF Power
<1>2. \E g : Eq(g)
  <2> DEFINE step == [ni \in Nat \X Nat |-> b * ni[2]]
  <2>1. step \in [Nat \X Nat -> Nat]
    OBVIOUS
  <2>2. PICK f \in [Nat -> Nat] : Recurs(f, 1, step)
    <3> HIDE DEF step
    <3>1. 1 \in Nat
      OBVIOUS
    <3> QED BY <2>1, <3>1, Recursive
  <2>3. ASSUME NEW i \in Nat, i # 0 PROVE f[i] = b * f[i - 1]
    <3>1. i - 1 \in Nat /\ (i - 1) + 1 = i
      BY <2>3
    <3>2. f[i] = step[<<i - 1, f[i - 1]>>]
      <4> HIDE DEF step
      <4> QED BY <2>2, <3>1 DEF Recurs
    <3> QED BY <3>1, <3>2
  <2>4. f = [i \in Nat |-> IF i = 0 THEN 1 ELSE b * f[i - 1]]
    BY <2>2, <2>3 DEF Recurs
  <2> QED BY <2>4
<1>3. Eq(D)
  BY <1>2, Zenon
<1> HIDE DEF D
<1>4. D[0] = 1 /\ \A e \in Nat : D[e + 1] = b * D[e]
  <2>1. D[0] = 1
    BY <1>3
  <2>2. ASSUME NEW e \in Nat PROVE D[e + 1] = b * D[e]
    <3>1. e + 1 \in Nat /\ e + 1 # 0 /\ (e + 1) - 1 = e
      OBVIOUS
    <3>2. D[e + 1] = b * D[(e + 1) - 1]
      BY <1>3, <3>1
    <3> QED BY <3>1, <3>2
  <2> QED BY <2>1, <2>2
<1> DEFINE T == {e \in Nat : D[e] \in Nat}
<1>5. T = Nat
  <2>1. T \in SUBSET Nat /\ 0 \in T /\ \A n \in T : n + 1 \in T
    BY <1>4
  <2> HIDE DEF T
  <2> QED BY <2>1, Induct
<1>6. \A e \in Nat : D[e] \in Nat
  BY <1>5
<1> HIDE DEF T
<1> QED BY <1>1, <1>4, <1>6

(* It is positive, exceeds its exponent, and grows by its base at least.    *)
LEMMA PowerGrows ==
  ASSUME NEW b \in Nat, b >= 2
  PROVE  /\ \A e \in Nat : Power(b, e) > e /\ b * Power(b, e) >= 2 * Power(b, e)
         /\ \A d, e \in Nat : d <= e => Power(b, d) <= Power(b, e)
<1> DEFINE T == {e \in Nat : Power(b, e) > e}
<1>1. \A e \in Nat : /\ Power(b, e) \in Nat /\ Power(b, e + 1) = b * Power(b, e)
                     /\ b * Power(b, e) >= 2 * Power(b, e) /\ Power(b, 0) = 1
  <2>1. ASSUME NEW x \in Nat PROVE b * x >= 2 * x
    BY Times
  <2> QED BY <2>1, PowerIs
<1>2. T = Nat
  <2>1. 0 \in T
    BY <1>1
  <2>2. ASSUME NEW e \in T PROVE e + 1 \in T
    <3>1. /\ e \in Nat /\ e + 1 \in Nat /\ Power(b, e) > e /\ Power(b, e) \in Nat
          /\ Power(b, e + 1) \in Nat /\ Power(b, e + 1) >= 2 * Power(b, e)
      BY <1>1
    <3>2. Power(b, e + 1) > e + 1
      BY <3>1
    <3> QED BY <3>1, <3>2
  <2>3. T \in SUBSET Nat
    OBVIOUS
  <2> HIDE DEF T
  <2> QED BY <2>1, <2>2, <2>3, Induct
<1>3. \A e \in Nat : Power(b, e) > e
  BY <1>2
<1>4. ASSUME NEW d \in Nat PROVE \A e \in Nat : d <= e => Power(b, d) <= Power(b, e)
  <2> DEFINE U == {x \in Nat : Power(b, d) <= Power(b, d + x)}
  <2>1. 0 \in U
    BY <1>1
  <2>2. ASSUME NEW x \in U PROVE x + 1 \in U
    <3>1. d + x \in Nat /\ (d + x) + 1 = d + (x + 1)
      OBVIOUS
    <3>2. Power(b, d + (x + 1)) >= 2 * Power(b, d + x) /\ Power(b, d + x) \in Nat
      BY <1>1, <3>1
    <3> QED BY SMTT(30), <1>1, <3>2
  <2>3. U \in SUBSET Nat
    OBVIOUS
  <2>4. U = Nat
    <3> HIDE DEF U
    <3> QED BY <2>1, <2>2, <2>3, Induct
  <2>5. ASSUME NEW e \in Nat, d <= e PROVE Power(b, d) <= Power(b, e)
    <3>1. e - d \in Nat /\ d + (e - d) = e
      BY <2>5
    <3>2. e - d \in U
      <4> HIDE DEF U
      <4> QED BY <2>4, <3>1
    <3> QED BY <3>1, <3>2
  <2> QED BY <2>5
<1> QED BY <1>1, <1>3, <1>4

(* floor(log(x)/log(b)).                                                    *)
LEMMA FloorLogIs ==
  ASSUME NEW b \in Nat, b >= 2, NEW x \in Nat, x >= 1
  PROVE  /\ FloorLog(x, b) \in Nat
         /\ Power(b, FloorLog(x, b)) <= x /\ x < Power(b, FloorLog(x, b) + 1)
<1> DEFINE T == {e \in Nat : x < Power(b, e + 1)}
<1>1. x \in T
  <2>1. Power(b, x + 1) > x + 1 /\ Power(b, x + 1) \in Nat
    BY PowerGrows, PowerIs
  <2> QED BY <2>1
<1>2. PICK e \in T : \A y \in T : e <= y
  BY <1>1, Least
<1>3. e \in 0 .. x /\ x < Power(b, e + 1)
  BY <1>1, <1>2
<1>4. Power(b, e) <= x
  <2>1. CASE e = 0
    BY <2>1, PowerIs
  <2>2. CASE e # 0
    <3>1. e - 1 \in Nat /\ (e - 1) + 1 = e /\ ~ e <= e - 1
      BY <2>2
    <3>2. ~ x < Power(b, e)
      BY <1>2, <3>1
    <3> QED BY <3>2, PowerIs
  <2> QED BY <2>1, <2>2
<1>5. FloorLog(x, b) = CHOOSE f \in 0 .. x : Power(b, f) <= x /\ x < Power(b, f + 1)
  BY DEF FloorLog
<1> QED BY <1>3, <1>4, <1>5

-----------------------------------------------------------------------------
(* The groups and their processes.                                          *)

(* What a launch says of the number of groups and of their sizes.           *)
LEMMA LaunchIs ==
  ASSUME Launch
  PROVE  /\ G \in Nat \ {0} /\ DOMAIN shape.size = Gids /\ Gids = 0 .. G - 1
         /\ \A g \in Gids : shape.size[g] \in Nat \ {0} /\ Size(g) = shape.size[g]
         /\ shape.numP \in Nat \ {0} /\ shape.init_nodes \in Nat \ {0}
         /\ Size(Sources) = shape.numP /\ Sources \notin Gids /\ Sources = -1
<1>1. PICK n \in 1 .. MaxGroups : shape.size \in [0 .. n - 1 -> 1 .. MaxSize]
  BY DEF Launch, Shapes
<1>2. n \in Nat \ {0} /\ DOMAIN shape.size = 0 .. n - 1
  BY <1>1, GroupsAssumption
<1>3. Cardinality(0 .. n - 1) = n
  <2>1. Cardinality(0 .. n - 1) = IF 0 > n - 1 THEN 0 ELSE (n - 1) - 0 + 1
    BY <1>2, FS_Interval
  <2> QED BY <1>2, <2>1
<1>4. G = n
  BY <1>2, <1>3 DEF G
<1>5. \A g \in 0 .. n - 1 : shape.size[g] \in Nat \ {0}
  BY <1>1, GroupsAssumption
<1>6. shape.numP \in Nat \ {0} /\ shape.init_nodes \in Nat \ {0}
  BY GroupsAssumption DEF Launch, Shapes
<1> QED BY <1>2, <1>4, <1>5, <1>6 DEF Gids, Size, Sources

(* A process is a rank of the sources or of a group.                        *)
LEMMA ProcsAre ==
  ASSUME Launch
  PROVE  /\ \A p \in Procs : /\ p = <<p[1], p[2]>> /\ p[1] \in Gids \cup {Sources}
                             /\ p[2] \in 0 .. Size(p[1]) - 1 /\ p[2] \in Nat
                             /\ p \in Ranks(p[1])
         /\ \A g \in Gids \cup {Sources} : \A r \in 0 .. Size(g) - 1 :
              <<g, r>> \in Procs /\ <<g, r>> \in Ranks(g)
         /\ \A g \in Gids \cup {Sources} : Root(g) \in Procs /\ Root(g) \in Ranks(g)
         /\ \A g \in Gids \cup {Sources} : \A p \in Ranks(g) : p \in Procs /\ p[1] = g
         /\ \A g \in Gids \cup {Sources} : Size(g) \in Nat \ {0}
<1>1. \A g \in Gids \cup {Sources} : Size(g) \in Nat \ {0}
  BY LaunchIs
<1>2. \A g \in Gids \cup {Sources} : \A r \in 0 .. Size(g) - 1 :
        <<g, r>> \in Procs /\ <<g, r>> \in Ranks(g)
  BY DEF Procs, Ranks
<1>3. ASSUME NEW p \in Procs
      PROVE  /\ p = <<p[1], p[2]>> /\ p[1] \in Gids \cup {Sources}
             /\ p[2] \in 0 .. Size(p[1]) - 1 /\ p[2] \in Nat
             /\ p \in Ranks(p[1])
  <2>1. PICK g \in Gids \cup {Sources} : p \in Ranks(g)
    BY DEF Procs
  <2>2. PICK r \in 0 .. Size(g) - 1 : p = <<g, r>>
    BY <2>1 DEF Ranks
  <2> QED BY <1>1, <2>1, <2>2
<1>4. \A g \in Gids \cup {Sources} : \A p \in Ranks(g) : p \in Procs /\ p[1] = g
  BY DEF Procs, Ranks
<1>5. \A g \in Gids \cup {Sources} : Root(g) \in Procs /\ Root(g) \in Ranks(g)
  BY <1>1, <1>2 DEF Root
<1> QED BY <1>1, <1>2, <1>3, <1>4, <1>5

(* How many processes the groups before g have.                             *)
LEMMA SizeBeforeIs ==
  ASSUME Launch
  PROVE  /\ SizeBefore(0) = 0
         /\ \A g \in 0 .. G : SizeBefore(g) \in Nat
         /\ \A g \in Gids : SizeBefore(g + 1) = SizeBefore(g) + shape.size[g]
<1> DEFINE Eq(w) == w = [i \in 0 .. G |-> IF i = 0 THEN 0 ELSE w[i - 1] + shape.size[i - 1]]
           D == CHOOSE w : Eq(w)
<1>1. \A g : SizeBefore(g) = D[g]
  BY DEF SizeBefore
<1>2. G \in Nat /\ \A g \in 0 .. G - 1 : shape.size[g] \in Nat
  BY LaunchIs
<1>3. \E w : Eq(w)
  <2> DEFINE step == [nx \in Nat \X Nat |-> nx[2] + (IF nx[1] < G THEN shape.size[nx[1]] ELSE 0)]
  <2>1. step \in [Nat \X Nat -> Nat]
    BY <1>2
  <2>2. PICK f \in [Nat -> Nat] : Recurs(f, 0, step)
    <3> HIDE DEF step
    <3>1. 0 \in Nat
      OBVIOUS
    <3> QED BY <2>1, <3>1, Recursive
  <2>3. ASSUME NEW i \in 0 .. G, i # 0 PROVE f[i] = f[i - 1] + shape.size[i - 1]
    <3>1. i - 1 \in Nat /\ (i - 1) + 1 = i /\ i - 1 < G
      BY <1>2, <2>3
    <3>2. f[i] = step[<<i - 1, f[i - 1]>>]
      <4> HIDE DEF step
      <4> QED BY <2>2, <3>1 DEF Recurs
    <3>3. <<i - 1, f[i - 1]>> \in Nat \X Nat
      BY <3>1
    <3> QED BY <3>1, <3>2, <3>3
  <2> DEFINE w == [i \in 0 .. G |-> f[i]]
  <2>4. f[0] = 0
    BY <2>2 DEF Recurs
  <2>5. ASSUME NEW i \in 0 .. G
        PROVE  w[i] = IF i = 0 THEN 0 ELSE w[i - 1] + shape.size[i - 1]
    <3>1. CASE i = 0
      BY <2>4, <3>1
    <3>2. CASE i # 0
      <4>1. i - 1 \in 0 .. G /\ w[i - 1] = f[i - 1] /\ w[i] = f[i]
        BY <1>2, <3>2
      <4> HIDE DEF w
      <4> QED BY <2>3, <3>2, <4>1
    <3> QED BY <3>1, <3>2
  <2>6. w = [i \in 0 .. G |-> IF i = 0 THEN 0 ELSE w[i - 1] + shape.size[i - 1]]
    <3>1. w = [i \in 0 .. G |-> w[i]]
      OBVIOUS
    <3> HIDE DEF w
    <3> QED BY <2>5, <3>1
  <2> QED BY <2>6
<1>4. Eq(D)
  BY <1>3, Zenon
<1> HIDE DEF D
<1>5. D[0] = 0
  BY <1>2, <1>4
<1>6. ASSUME NEW g \in Gids PROVE D[g + 1] = D[g] + shape.size[g]
  <2>1. g + 1 \in 0 .. G /\ g + 1 # 0 /\ (g + 1) - 1 = g
    BY LaunchIs
  <2>2. D[g + 1] = D[(g + 1) - 1] + shape.size[(g + 1) - 1]
    BY <1>4, <2>1
  <2> QED BY <2>1, <2>2
<1> DEFINE T == {i \in Nat : i <= G => D[i] \in Nat}
<1>7. T = Nat
  <2>1. 0 \in T
    BY <1>5
  <2>2. ASSUME NEW i \in T PROVE i + 1 \in T
    <3>1. SUFFICES ASSUME i + 1 <= G PROVE D[i + 1] \in Nat
      OBVIOUS
    <3>2. i \in Gids /\ i \in 0 .. G - 1 /\ i <= G
      BY <1>2, <3>1, LaunchIs
    <3> QED BY <1>2, <1>6, <3>2
  <2>3. T \in SUBSET Nat
    OBVIOUS
  <2> HIDE DEF T
  <2> QED BY <2>1, <2>2, <2>3, Induct
<1>8. \A g \in 0 .. G : D[g] \in Nat
  BY <1>2, <1>7
<1> HIDE DEF T
<1> QED BY <1>1, <1>5, <1>6, <1>8

(* It grows with each group.                                                *)
LEMMA SizeBeforeGrows ==
  ASSUME Launch, NEW h \in Gids, NEW g \in 0 .. G, h < g
  PROVE  SizeBefore(h) + shape.size[h] <= SizeBefore(g)
<1> DEFINE T == {i \in Nat : h + 1 + i <= G => SizeBefore(h + 1) <= SizeBefore(h + 1 + i)}
<1>1. G \in Nat /\ h \in Nat /\ h < G
  BY LaunchIs
<1>2. /\ \A x \in 0 .. G : SizeBefore(x) \in Nat
      /\ \A x \in Gids : SizeBefore(x + 1) = SizeBefore(x) + shape.size[x]
  BY SizeBeforeIs
<1>3. 0 \in T
  BY <1>1, <1>2
<1>4. ASSUME NEW i \in T PROVE i + 1 \in T
  <2>1. SUFFICES ASSUME h + 1 + (i + 1) <= G
                 PROVE  SizeBefore(h + 1) <= SizeBefore(h + 1 + (i + 1))
    OBVIOUS
  <2> DEFINE x == h + 1 + i
  <2>2. x \in Gids /\ x \in 0 .. G /\ x + 1 \in 0 .. G /\ h + 1 + (i + 1) = x + 1 /\ h + 1 \in 0 .. G
    BY <1>1, <2>1, LaunchIs
  <2>3. SizeBefore(h + 1) <= SizeBefore(x)
    BY <1>1, <2>1
  <2>4. SizeBefore(x + 1) = SizeBefore(x) + shape.size[x] /\ shape.size[x] \in Nat
    BY <1>2, <2>2, LaunchIs
  <2> HIDE DEF x
  <2> QED BY <1>2, <2>2, <2>3, <2>4
<1>5. T = Nat
  <2>1. T \in SUBSET Nat
    OBVIOUS
  <2> HIDE DEF T
  <2> QED BY <1>3, <1>4, <2>1, Induct
<1>6. g - (h + 1) \in Nat /\ h + 1 + (g - (h + 1)) = g /\ g <= G
  BY <1>1
<1>7. SizeBefore(h + 1) <= SizeBefore(g)
  BY <1>5, <1>6
<1> QED BY <1>2, <1>7

(* Each position before group n is that of one rank of one of the groups    *)
(* before n.                                                                *)
LEMMA Holder ==
  ASSUME Launch, NEW n \in 0 .. G, NEW x \in 0 .. SizeBefore(n) - 1
  PROVE  \E g \in 0 .. n - 1 : \E r \in 0 .. shape.size[g] - 1 : x = SizeBefore(g) + r
<1>1. /\ G \in Nat /\ Gids = 0 .. G - 1 /\ SizeBefore(0) = 0
      /\ \A i \in 0 .. G : SizeBefore(i) \in Nat
      /\ \A g \in Gids : SizeBefore(g + 1) = SizeBefore(g) + shape.size[g]
  BY LaunchIs, SizeBeforeIs
<1> DEFINE T == {i \in Nat : i <= n /\ x < SizeBefore(i)}
<1>2. x \in Nat /\ x < SizeBefore(n) /\ n \in T
  BY <1>1
<1>3. PICK i \in T : \A y \in T : i <= y
  BY <1>2, Least
<1>4. i # 0 /\ i \in Nat /\ i <= n /\ x < SizeBefore(i)
  BY <1>1, <1>2, <1>3
<1>5. i - 1 \in Gids /\ i - 1 \in 0 .. n - 1 /\ (i - 1) + 1 = i /\ i - 1 \in Nat /\ i - 1 \in 0 .. G
  BY <1>1, <1>4
<1>6. ~ x < SizeBefore(i - 1)
  <2>1. i - 1 \notin T
    BY <1>3, <1>4
  <2> QED BY <1>4, <1>5, <2>1
<1>7. SizeBefore(i) = SizeBefore(i - 1) + shape.size[i - 1]
  BY <1>1, <1>5
<1>8. SizeBefore(i - 1) \in Nat /\ shape.size[i - 1] \in Nat
  BY <1>1, <1>5, LaunchIs
<1> DEFINE r == x - SizeBefore(i - 1)
<1>9. r \in 0 .. shape.size[i - 1] - 1 /\ x = SizeBefore(i - 1) + r
  BY <1>2, <1>4, <1>6, <1>7, <1>8
<1> QED BY <1>5, <1>9

(* No two processes expect the same rank.                                   *)
LEMMA ExpIdOnce ==
  ASSUME Launch, NEW p \in Procs, NEW q \in Procs, ExpId(p) = ExpId(q)
  PROVE  p = q
<1>1. /\ p = <<p[1], p[2]>> /\ p[1] \in Gids \cup {Sources} /\ p[2] \in 0 .. Size(p[1]) - 1
      /\ q = <<q[1], q[2]>> /\ q[1] \in Gids \cup {Sources} /\ q[2] \in 0 .. Size(q[1]) - 1
  BY ProcsAre
<1>2. /\ G \in Nat /\ Gids = 0 .. G - 1 /\ shape.numP \in Nat /\ Size(Sources) = shape.numP
      /\ \A g \in Gids : shape.size[g] \in Nat /\ Size(g) = shape.size[g]
      /\ \A i \in 0 .. G : SizeBefore(i) \in Nat
      /\ \A g, h \in Gids : h < g => SizeBefore(h) + shape.size[h] <= SizeBefore(g)
  BY LaunchIs, SizeBeforeIs, SizeBeforeGrows
<1>3. CASE p[1] = Sources /\ q[1] = Sources
  BY <1>1, <1>3 DEF ExpId
<1>4. CASE p[1] = Sources /\ q[1] # Sources
  <2>1. p[2] < shape.numP /\ p[2] \in Nat /\ q[2] \in Nat /\ SizeBefore(q[1]) \in Nat
    BY <1>1, <1>2, <1>4
  <2> QED BY <1>2, <1>4, <2>1 DEF ExpId
<1>5. CASE p[1] # Sources /\ q[1] = Sources
  <2>1. q[2] < shape.numP /\ q[2] \in Nat /\ p[2] \in Nat /\ SizeBefore(p[1]) \in Nat
    BY <1>1, <1>2, <1>5
  <2> QED BY <1>2, <1>5, <2>1 DEF ExpId
<1>6. CASE p[1] # Sources /\ q[1] # Sources
  <2>1. /\ p[1] \in Gids /\ q[1] \in Gids /\ p[1] \in Int /\ q[1] \in Int
        /\ p[2] \in 0 .. shape.size[p[1]] - 1 /\ q[2] \in 0 .. shape.size[q[1]] - 1
        /\ shape.size[p[1]] \in Nat /\ shape.size[q[1]] \in Nat
        /\ SizeBefore(p[1]) \in Nat /\ SizeBefore(q[1]) \in Nat
    BY SMTT(30), <1>1, <1>2, <1>6
  <2> DEFINE g == p[1]
             h == q[1]
             r == p[2]
             t == q[2]
  <2>a. /\ ExpId(p) = shape.numP + SizeBefore(g) + r
        /\ ExpId(q) = shape.numP + SizeBefore(h) + t
    BY <1>6 DEF ExpId
  <2>b. /\ g < h => SizeBefore(g) + shape.size[g] <= SizeBefore(h)
        /\ h < g => SizeBefore(h) + shape.size[h] <= SizeBefore(g)
    BY <1>2, <2>1
  <2> HIDE DEF g, h, r, t
  <2>2. SizeBefore(g) + r = SizeBefore(h) + t
    <3>1. SizeBefore(g) \in Nat /\ SizeBefore(h) \in Nat /\ r \in Int /\ t \in Int
      BY <2>1 DEF g, h, r, t
    <3> DEFINE x == shape.numP
               u == SizeBefore(g)
               v == SizeBefore(h)
    <3>2. x \in Int /\ u \in Int /\ v \in Int
      BY <1>2, <3>1
    <3>3. (x + u) + r = (x + v) + t
      BY <2>a
    <3> HIDE DEF x, u, v
    <3>4. u + r = v + t
      BY <3>1, <3>2, <3>3
    <3> QED BY <3>4 DEF u, v
  <2>c. /\ SizeBefore(g) \in Nat /\ SizeBefore(h) \in Nat
        /\ shape.size[g] \in Nat /\ shape.size[h] \in Nat
        /\ r \in 0 .. shape.size[g] - 1 /\ t \in 0 .. shape.size[h] - 1
    BY <2>1 DEF g, h, r, t
  <2>3. ~ p[1] < q[1]
    BY <2>2, <2>b, <2>c DEF g, h
  <2>4. ~ q[1] < p[1]
    BY <2>2, <2>b, <2>c DEF g, h
  <2>5. p[1] = q[1]
    BY <2>1, <2>3, <2>4
  <2>6. p[2] = q[2]
    BY <2>2, <2>5, <2>c DEF g, h, r, t
  <2> QED BY <1>1, <2>5, <2>6
<1> QED BY <1>3, <1>4, <1>5, <1>6

(* Every rank up to those of group n is expected by a process that exists   *)
(* before n.                                                                *)
LEMMA ExpIdOf ==
  ASSUME Launch, NEW n \in 0 .. G, NEW e \in 0 .. shape.numP + SizeBefore(n) - 1
  PROVE  \E p \in Procs : p[1] < n /\ ExpId(p) = e
<1>1. /\ G \in Nat /\ Gids = 0 .. G - 1 /\ shape.numP \in Nat /\ Size(Sources) = shape.numP
      /\ \A g \in Gids : Size(g) = shape.size[g]
      /\ Sources = -1 /\ SizeBefore(n) \in Nat
  BY LaunchIs, SizeBeforeIs
<1>2. CASE e < shape.numP
  <2>1. <<Sources, e>> \in Procs
    BY <1>1, <1>2, ProcsAre
  <2> QED BY <1>1, <2>1 DEF ExpId
<1>3. CASE e >= shape.numP
  <2>1. e - shape.numP \in 0 .. SizeBefore(n) - 1
    BY <1>1, <1>3
  <2>2. PICK g \in 0 .. n - 1 :
          \E r \in 0 .. shape.size[g] - 1 : e - shape.numP = SizeBefore(g) + r
    BY <2>1, Holder
  <2>r. PICK r \in 0 .. shape.size[g] - 1 : e - shape.numP = SizeBefore(g) + r
    BY <2>2
  <2>3. g \in Gids /\ g # Sources /\ SizeBefore(g) \in Nat /\ shape.size[g] \in Nat
    <3>1. G \in Nat /\ Gids = 0 .. G - 1 /\ Sources = -1
      BY LaunchIs
    <3>2. g \in Gids /\ g \in 0 .. G /\ g # Sources
      BY <1>1, <2>2, <3>1
    <3>3. SizeBefore(g) \in Nat
      BY <3>2, SizeBeforeIs
    <3>4. shape.size[g] \in Nat
      BY <3>2, LaunchIs
    <3> QED BY <3>2, <3>3, <3>4
  <2>4. <<g, r>> \in Procs
    BY <1>1, <2>3, ProcsAre
  <2>5. ExpId(<<g, r>>) = e
    <3>1. ExpId(<<g, r>>) = shape.numP + SizeBefore(g) + r
      BY <2>3 DEF ExpId
    <3>2. r \in Int /\ e \in Int /\ shape.numP \in Int /\ SizeBefore(g) \in Int
      BY <1>1, <2>3
    <3> QED BY <2>r, <3>1, <3>2
  <2>6. g < n
    BY <2>2
  <2> QED BY <2>4, <2>5, <2>6
<1> QED BY <1>1, <1>2, <1>3

-----------------------------------------------------------------------------
(* The waves of diffusive_iterative_spawn.                                  *)

(* The slot after slot s, whose turn is at group i.                         *)
NextSlot(s, i) ==
  IF s.j + 1 < s.actual THEN [s EXCEPT !.j = @ + 1]
                        ELSE [j |-> 0, actual |-> shape.numP + SizeBefore(i)]

(* The slot of the next group follows from that of the last one.            *)
LEMMA SlotIs ==
  ASSUME Launch
  PROVE  /\ Slot(0) = [j |-> 0, actual |-> shape.numP]
         /\ \A g \in Gids : Slot(g + 1) = NextSlot(Slot(g), g + 1)
<1> DEFINE Eq(w) == w = [i \in 0 .. G |->
                           IF i = 0 THEN [j |-> 0, actual |-> shape.numP]
                           ELSE IF w[i - 1].j + 1 < w[i - 1].actual
                                  THEN [w[i - 1] EXCEPT !.j = @ + 1]
                                  ELSE [j |-> 0, actual |-> shape.numP + SizeBefore(i)]]
           D == CHOOSE w : Eq(w)
           S == [j : Nat, actual : Nat]
           a == [j |-> 0, actual |-> shape.numP]
<1>1. \A g : Slot(g) = D[g]
  BY DEF Slot
<1>2. /\ G \in Nat /\ Gids = 0 .. G - 1 /\ shape.numP \in Nat
      /\ \A i \in 0 .. G : SizeBefore(i) \in Nat
  BY LaunchIs, SizeBeforeIs
<1>3. \E w : Eq(w)
  <2> DEFINE step == [nx \in Nat \X S |-> IF nx[1] < G THEN NextSlot(nx[2], nx[1] + 1) ELSE a]
  <2>1. a \in S
    BY <1>2
  <2>2. step \in [Nat \X S -> S]
    <3>1. ASSUME NEW n \in Nat, NEW s \in S, n < G PROVE NextSlot(s, n + 1) \in S
      <4>1. SizeBefore(n + 1) \in Nat
        BY <1>2, <3>1
      <4> QED BY <1>2, <4>1 DEF NextSlot
    <3> HIDE DEF S, a
    <3> QED BY <2>1, <3>1
  <2>3. PICK f \in [Nat -> S] : Recurs(f, a, step)
    <3> HIDE DEF step, S, a
    <3> QED BY <2>1, <2>2, Recursive
  <2>4. ASSUME NEW i \in 0 .. G, i # 0 PROVE f[i] = NextSlot(f[i - 1], i)
    <3>1. i - 1 \in Nat /\ (i - 1) + 1 = i /\ i - 1 < G
      BY <1>2, <2>4
    <3>2. f[i] = step[<<i - 1, f[i - 1]>>]
      <4> HIDE DEF step, S, a
      <4> QED BY <2>3, <3>1 DEF Recurs
    <3>3. <<i - 1, f[i - 1]>> \in Nat \X S
      <4> HIDE DEF S
      <4> QED BY <3>1
    <3> HIDE DEF S, a
    <3> QED BY <3>1, <3>2, <3>3
  <2> DEFINE w == [i \in 0 .. G |-> f[i]]
  <2>5. f[0] = a
    BY <2>3 DEF Recurs
  <2>6. ASSUME NEW i \in 0 .. G
        PROVE  w[i] = IF i = 0 THEN a ELSE NextSlot(w[i - 1], i)
    <3> HIDE DEF a, S
    <3>1. CASE i = 0
      BY <2>5, <3>1
    <3>2. CASE i # 0
      <4>1. i - 1 \in 0 .. G /\ w[i - 1] = f[i - 1] /\ w[i] = f[i]
        BY <1>2, <3>2
      <4> HIDE DEF w
      <4> QED BY <2>4, <3>2, <4>1
    <3> QED BY <3>1, <3>2
  <2>7. w = [i \in 0 .. G |-> w[i]]
    OBVIOUS
  <2> HIDE DEF w
  <2>8. w = [i \in 0 .. G |-> IF i = 0 THEN a ELSE NextSlot(w[i - 1], i)]
    <3> HIDE DEF a
    <3> QED BY <2>6, <2>7
  <2>9. Eq(w)
    BY <2>8, Zenon DEF NextSlot
  <2> QED BY <2>9
<1>4. Eq(D)
  BY <1>3, Zenon
<1>5. D = [i \in 0 .. G |-> IF i = 0 THEN a ELSE NextSlot(D[i - 1], i)]
  BY <1>4, Zenon DEF NextSlot
<1> HIDE DEF D, Eq
<1>6. D[0] = a
  BY <1>2, <1>5
<1>7. ASSUME NEW g \in Gids PROVE D[g + 1] = NextSlot(D[g], g + 1)
  <2>1. g + 1 \in 0 .. G /\ g + 1 # 0 /\ (g + 1) - 1 = g
    BY <1>2
  <2>2. D[g + 1] = NextSlot(D[(g + 1) - 1], g + 1)
    <3> HIDE DEF a
    <3> QED BY <1>5, <2>1
  <2> QED BY <2>1, <2>2
<1> QED BY <1>1, <1>6, <1>7

(* A slot is one of its wave, and so of the processes there are.            *)
LEMMA SlotBounds ==
  ASSUME Launch, NEW g \in 0 .. G
  PROVE  /\ Slot(g) \in [j : Nat, actual : Nat]
         /\ Slot(g).j < Slot(g).actual /\ Slot(g).actual <= shape.numP + SizeBefore(g)
<1> DEFINE Bound(i) == /\ Slot(i) \in [j : Nat, actual : Nat]
                       /\ Slot(i).j < Slot(i).actual
                       /\ Slot(i).actual <= shape.numP + SizeBefore(i)
           T == {i \in Nat : i <= G => Bound(i)}
<1>1. /\ G \in Nat /\ Gids = 0 .. G - 1 /\ shape.numP \in Nat \ {0} /\ SizeBefore(0) = 0
      /\ \A i \in 0 .. G : SizeBefore(i) \in Nat
      /\ \A i \in Gids : /\ SizeBefore(i + 1) = SizeBefore(i) + shape.size[i]
                         /\ shape.size[i] \in Nat
  BY LaunchIs, SizeBeforeIs
<1>2. 0 \in T
  BY <1>1, SlotIs
<1>3. ASSUME NEW i \in T PROVE i + 1 \in T
  <2>1. SUFFICES ASSUME i + 1 <= G PROVE Bound(i + 1)
    OBVIOUS
  <2>2. i \in Gids /\ i \in 0 .. G /\ i + 1 \in 0 .. G
    BY <1>1, <2>1
  <2>3. Bound(i)
    BY <1>1, <2>1
  <2>4. Slot(i + 1) = NextSlot(Slot(i), i + 1)
    BY <2>2, SlotIs
  <2>5. /\ SizeBefore(i + 1) = SizeBefore(i) + shape.size[i] /\ SizeBefore(i) \in Nat
        /\ shape.size[i] \in Nat
    BY <1>1, <2>2
  <2> DEFINE s == Slot(i)
             t == Slot(i + 1)
  <2>6. /\ s \in [j : Nat, actual : Nat] /\ s.j < s.actual
        /\ s.actual <= shape.numP + SizeBefore(i)
    BY <2>3
  <2>7. t = IF s.j + 1 < s.actual THEN [s EXCEPT !.j = @ + 1]
            ELSE [j |-> 0, actual |-> shape.numP + SizeBefore(i + 1)]
    BY <2>4 DEF NextSlot
  <2> HIDE DEF s, t
  <2>8. /\ t \in [j : Nat, actual : Nat] /\ t.j < t.actual
        /\ t.actual <= shape.numP + SizeBefore(i + 1)
    <3>1. CASE s.j + 1 < s.actual
      <4>1. t = [s EXCEPT !.j = s.j + 1]
        BY <2>7, <3>1
      <4>2. t.j = s.j + 1 /\ t.actual = s.actual /\ t \in [j : Nat, actual : Nat]
        BY <2>6, <4>1
      <4> QED BY SMTT(30), <1>1, <2>5, <2>6, <3>1, <4>2
    <3>2. CASE ~ s.j + 1 < s.actual
      <4>1. t = [j |-> 0, actual |-> shape.numP + SizeBefore(i + 1)]
        BY <2>7, <3>2
      <4> QED BY <1>1, <2>5, <4>1
    <3> QED BY <3>1, <3>2
  <2> QED BY <2>8 DEF t
<1>4. T = Nat
  <2>1. T \in SUBSET Nat
    OBVIOUS
  <2> HIDE DEF T
  <2> QED BY <1>2, <1>3, <2>1, Induct
<1>5. g \in T /\ g <= G
  <2> HIDE DEF T
  <2> QED BY <1>1, <1>4
<1> QED BY <1>5

(* A slot has its turn only after all lower ones of its wave.               *)
LEMMA SlotBack ==
  ASSUME Launch, NEW g \in 0 .. G, NEW b \in Nat, b <= Slot(g).j
  PROVE  \E h \in 0 .. g : Slot(h).j = b
<1> DEFINE e == Slot(g).j
           T == {d \in Nat : d <= e => d <= g /\ Slot(g - d).j = e - d}
<1>1. /\ G \in Nat /\ Gids = 0 .. G - 1 /\ g \in Nat /\ g <= G
      /\ \A i \in 0 .. G : Slot(i) \in [j : Nat, actual : Nat]
      /\ Slot(0) = [j |-> 0, actual |-> shape.numP]
  BY LaunchIs, SlotIs, SlotBounds
<1>2. e \in Nat
  BY <1>1
<1>3. 0 \in T
  BY <1>1, <1>2
<1>4. ASSUME NEW d \in T PROVE d + 1 \in T
  <2>1. SUFFICES ASSUME d + 1 <= e PROVE d + 1 <= g /\ Slot(g - (d + 1)).j = e - (d + 1)
    OBVIOUS
  <2>2. d <= g /\ Slot(g - d).j = e - d /\ d \in Nat
    BY <1>2, <2>1
  <2>3. e - d # 0 /\ g - d \in 0 .. G
    BY <1>1, <1>2, <2>1, <2>2
  <2>4. g - d # 0
    BY <1>1, <2>2, <2>3
  <2> DEFINE x == g - (d + 1)
  <2>5. x \in Gids /\ x + 1 = g - d /\ x \in 0 .. G
    BY <1>1, <2>2, <2>3, <2>4
  <2>6. Slot(g - d) = NextSlot(Slot(x), x + 1)
    <3> HIDE DEF x
    <3> QED BY <2>5, SlotIs
  <2>7. Slot(x) \in [j : Nat, actual : Nat]
    BY <1>1, <2>5
  <2> DEFINE s == Slot(x)
             t == Slot(g - d)
  <2>8. t = IF s.j + 1 < s.actual THEN [s EXCEPT !.j = @ + 1]
            ELSE [j |-> 0, actual |-> shape.numP + SizeBefore(x + 1)]
    BY <2>6 DEF NextSlot
  <2>9. t.j = e - d /\ s \in [j : Nat, actual : Nat]
    BY <2>2, <2>7
  <2> HIDE DEF s, t, x
  <2>10. t.j # 0
    BY <2>3, <2>9
  <2>11. t = [s EXCEPT !.j = s.j + 1]
    BY <2>8, <2>10
  <2>12. s.j + 1 = e - d
    BY <2>9, <2>11
  <2>13. s.j = e - (d + 1)
    BY <1>2, <2>2, <2>9, <2>12
  <2> QED BY <1>1, <2>2, <2>3, <2>4, <2>13 DEF s, x
<1>5. T = Nat
  <2>1. T \in SUBSET Nat
    OBVIOUS
  <2> HIDE DEF T
  <2> QED BY <1>3, <1>4, <2>1, Induct
<1>6. e - b \in Nat /\ e - b <= e /\ e - (e - b) = b
  BY <1>2
<1>7. e - b <= g /\ Slot(g - (e - b)).j = b
  BY <1>5, <1>6
<1>8. g - (e - b) \in 0 .. g
  BY <1>1, <1>6, <1>7
<1> QED BY <1>7, <1>8

-----------------------------------------------------------------------------
(* Who spawns what.                                                         *)

(* Each process works out its own spawns, and together these are a plan:    *)
(* every group is spawned once, by a process of an earlier group; a process *)
(* has one group at a time, and no more after it had none; and if a rank of *)
(* a group spawns at all then so does its root.                             *)
Plan ==
  /\ \A p \in Procs, c \in Nat : \A g \in GroupAfter(p, c) : g \in Gids /\ p[1] < g
  /\ \A p, q \in Procs, i, j \in Nat : \A g \in GroupAfter(p, i) :
       g \in GroupAfter(q, j) => p = q /\ i = j
  /\ \A g \in Gids : \E p \in Procs, c \in Nat : g \in GroupAfter(p, c)
  /\ \A p \in Procs, i, j \in Nat : GroupAfter(p, i) = {} /\ i <= j => GroupAfter(p, j) = {}
  /\ \A p \in Procs, c \in Nat : \A g, h \in GroupAfter(p, c) : g = h
  /\ \A p \in Procs, c \in Nat : GroupAfter(p, c) # {} => GroupAfter(Root(p[1]), 0) # {}

(* How many elements of M come before g.                                    *)
TurnOf(M, g) == Cardinality({h \in M : h < g})

(* The elements of a finite set of naturals have each a turn of their own,  *)
(* without gaps.                                                            *)
LEMMA TurnIs ==
  ASSUME NEW M \in SUBSET Nat, IsFiniteSet(M)
  PROVE  /\ \A g \in M : TurnOf(M, g) \in Nat
         /\ \A g, h \in M : TurnOf(M, g) = TurnOf(M, h) => g = h
         /\ \A g \in M : \A i \in 0 .. TurnOf(M, g) : \E h \in M : TurnOf(M, h) = i
<1> DEFINE Before(g) == {h \in M : h < g}
<1>1. \A g \in M : IsFiniteSet(Before(g)) /\ Cardinality(Before(g)) \in Nat
  <2>1. ASSUME NEW g \in M PROVE IsFiniteSet(Before(g)) /\ Cardinality(Before(g)) \in Nat
    <3>1. Before(g) \in SUBSET M
      OBVIOUS
    <3> HIDE DEF Before
    <3>2. IsFiniteSet(Before(g))
      BY <3>1, FS_Subset
    <3> QED BY <3>2, FS_CardinalityType
  <2> QED BY <2>1
<1>2. ASSUME NEW g \in M, NEW h \in M, h < g PROVE TurnOf(M, h) < TurnOf(M, g)
  <2>1. Before(h) \in SUBSET Before(g) /\ h \in Before(g) /\ h \notin Before(h)
    <3>1. g \in Nat /\ h \in Nat /\ ~ h < h
      OBVIOUS
    <3>2. ASSUME NEW x \in Before(h) PROVE x \in Before(g)
      <4>1. x \in M /\ x \in Nat /\ x < h
        OBVIOUS
      <4>2. x < g
        BY <1>2, <3>1, <4>1
      <4> QED BY <4>1, <4>2
    <3> QED BY <1>2, <3>1, <3>2
  <2>2. IsFiniteSet(Before(g)) /\ Cardinality(Before(g)) \in Nat /\ Cardinality(Before(h)) \in Nat
    BY <1>1
  <2> HIDE DEF Before
  <2>3. Cardinality(Before(h)) <= Cardinality(Before(g))
    BY <2>1, <2>2, FS_Subset
  <2>4. Cardinality(Before(h)) # Cardinality(Before(g))
    BY <2>1, <2>2, FS_Subset
  <2>5. Cardinality(Before(h)) < Cardinality(Before(g))
    BY <2>2, <2>3, <2>4
  <2> QED BY <2>5 DEF TurnOf, Before
<1>3. \A g \in M : TurnOf(M, g) \in Nat
  BY <1>1 DEF TurnOf
<1>4. \A g, h \in M : TurnOf(M, g) = TurnOf(M, h) => g = h
  <2>1. ASSUME NEW g \in M, NEW h \in M, TurnOf(M, g) = TurnOf(M, h), g # h PROVE FALSE
    <3>1. g \in Nat /\ h \in Nat
      OBVIOUS
    <3>2. g < h \/ h < g
      BY <2>1, <3>1
    <3> QED BY <1>2, <1>3, <2>1, <3>2
  <2> QED BY <2>1
<1>5. ASSUME NEW g \in M, NEW i \in 0 .. TurnOf(M, g) PROVE \E h \in M : TurnOf(M, h) = i
  <2> DEFINE T == {h \in M : i <= TurnOf(M, h)}
  <2>1. T \in SUBSET Nat /\ g \in T /\ i \in Nat
    <3>1. TurnOf(M, g) \in Nat
      BY <1>3
    <3>2. i \in Nat /\ i <= TurnOf(M, g)
      BY <3>1
    <3> QED BY <3>2
  <2>2. PICK h \in T : \A y \in T : h <= y
    <3> HIDE DEF T
    <3> QED BY <2>1, Least
  <2>3. SUFFICES ASSUME i < TurnOf(M, h) PROVE FALSE
    BY <1>3, <2>1, <2>2
  <2> DEFINE U == {x \in Nat : \E y \in Before(h) : x = h - y}
  <2>4. h \in Nat /\ h \in M /\ IsFiniteSet(Before(h)) /\ Cardinality(Before(h)) > 0
        /\ Cardinality(Before(h)) \in Nat /\ Cardinality(Before(h)) = TurnOf(M, h)
    <3>1. h \in M
      BY <2>2
    <3>2. IsFiniteSet(Before(h)) /\ Cardinality(Before(h)) \in Nat
      BY <1>1, <3>1
    <3> QED BY <2>1, <2>3, <3>1, <3>2 DEF TurnOf
  <2>5. Before(h) # {}
    <3> HIDE DEF Before
    <3> QED BY <2>4, FS_EmptySet
  <2>6. U \in SUBSET Nat /\ U # {}
    <3>1. PICK y \in Before(h) : TRUE
      BY <2>5
    <3>2. h - y \in U
      BY <2>4, <3>1
    <3> QED BY <3>2
  <2>7. PICK x \in U : \A z \in U : x <= z
    <3> HIDE DEF U
    <3> QED BY <2>6, Least
  <2>8. PICK y \in Before(h) : x = h - y
    BY <2>7
  <2>9. \A z \in Before(h) : z <= y
    <3>1. ASSUME NEW z \in Before(h) PROVE z <= y
      <4>1. z \in Nat /\ y \in Nat /\ z < h
        BY <2>4, <2>8
      <4>2. h - z \in Nat
        BY <2>4, <4>1
      <4>3. x <= h - z
        BY <2>7, <4>2
      <4>4. x = h - y
        BY <2>8
      <4> QED BY <2>4, <4>1, <4>3, <4>4
    <3> QED BY <3>1
  <2>10. Before(y) = Before(h) \ {y} /\ y \in M /\ y < h
    <3>1. y \in M /\ y \in Nat /\ y < h
      BY <2>4, <2>8
    <3>2. ASSUME NEW z \in M PROVE z < y <=> z < h /\ z # y
      <4>1. z \in Nat
        OBVIOUS
      <4>2. z < h => z <= y
        BY <2>9
      <4> QED BY <2>4, <3>1, <4>1, <4>2
    <3>3. Before(y) = Before(h) \ {y}
      BY <3>2
    <3> QED BY <3>1, <3>3
  <2>11. Cardinality(Before(y)) = Cardinality(Before(h)) - 1
    <3> HIDE DEF Before
    <3>1. IsFiniteSet(Before(h)) /\ y \in Before(h)
      BY <2>4, <2>8
    <3>2. Cardinality(Before(h) \ {y}) = Cardinality(Before(h)) - 1
      BY <3>1, FS_RemoveElement
    <3> QED BY <2>10, <3>2
  <2>12. TurnOf(M, y) = TurnOf(M, h) - 1
    BY <2>4, <2>11 DEF TurnOf
  <2>13. y \in T
    BY <1>3, <2>1, <2>3, <2>4, <2>10, <2>12
  <2> QED BY <2>2, <2>4, <2>10, <2>13
<1> QED BY <1>3, <1>4, <1>5

(* The waves of diffusive_iterative_spawn are a plan.                       *)
LEMMA DiffusivePlan ==
  ASSUME Launch, ~Homogeneous(shape.size)
  PROVE  Plan
<1>1. /\ G \in Nat \ {0} /\ Gids = 0 .. G - 1
      /\ \A g \in 0 .. G : Slot(g) \in [j : Nat, actual : Nat]
      /\ \A g \in 0 .. G : Slot(g).j < Slot(g).actual
                           /\ Slot(g).actual <= shape.numP + SizeBefore(g)
  BY LaunchIs, SlotBounds
<1>2. \A p \in Procs : mine[p] = {g \in Gids : Slot(g).j = ExpId(p)}
  BY DEF Launch, DiffusiveGroups
<1>3. \A p \in Procs : mine[p] \in SUBSET Nat /\ IsFiniteSet(mine[p])
  <2>1. IsFiniteSet(Gids)
    BY <1>1, FS_Interval
  <2>2. ASSUME NEW p \in Procs PROVE mine[p] \in SUBSET Nat /\ IsFiniteSet(mine[p])
    <3>1. mine[p] \in SUBSET Gids
      BY <1>2
    <3>2. IsFiniteSet(mine[p])
      BY <2>1, <3>1, FS_Subset
    <3> QED BY <1>1, <3>1, <3>2
  <2> QED BY <2>2
<1>4. \A p, c : GroupAfter(p, c) = {g \in mine[p] : TurnOf(mine[p], g) = c}
  BY DEF GroupAfter, TurnOf
<1>5. \A p \in Procs, c \in Nat : \A g \in GroupAfter(p, c) : g \in Gids /\ Slot(g).j = ExpId(p)
  BY <1>2, <1>4
<1>6. ASSUME NEW g \in Gids
      PROVE  \E p \in Procs : p[1] < g /\ ExpId(p) = Slot(g).j
  <2>1. g \in 0 .. G /\ SizeBefore(g) \in Nat /\ shape.numP \in Nat
    <3>1. g \in 0 .. G /\ shape.numP \in Nat
      <4>1. G \in Nat /\ shape.numP \in Nat /\ Gids = 0 .. G - 1
        BY LaunchIs
      <4> QED BY <4>1
    <3>2. SizeBefore(g) \in Nat
      BY <3>1, SizeBeforeIs
    <3> QED BY <3>1, <3>2
  <2>2. Slot(g).j \in 0 .. shape.numP + SizeBefore(g) - 1
    BY SMTT(30), <1>1, <2>1
  <2> QED BY <2>1, <2>2, ExpIdOf
<1>7. \A p \in Procs, c \in Nat : \A g \in GroupAfter(p, c) : g \in Gids /\ p[1] < g
  <2>1. ASSUME NEW p \in Procs, NEW c \in Nat, NEW g \in GroupAfter(p, c)
        PROVE  g \in Gids /\ p[1] < g
    <3>1. g \in Gids /\ Slot(g).j = ExpId(p)
      BY <1>5
    <3>2. PICK q \in Procs : q[1] < g /\ ExpId(q) = Slot(g).j
      BY <1>6, <3>1
    <3>3. p = q
      BY <3>1, <3>2, ExpIdOnce
    <3> QED BY <3>1, <3>2, <3>3
  <2> QED BY <2>1
<1>8. \A p, q \in Procs, i, j \in Nat : \A g \in GroupAfter(p, i) :
        g \in GroupAfter(q, j) => p = q /\ i = j
  <2>1. ASSUME NEW p \in Procs, NEW q \in Procs, NEW i \in Nat, NEW j \in Nat,
               NEW g \in GroupAfter(p, i), g \in GroupAfter(q, j)
        PROVE  p = q /\ i = j
    <3>1. ExpId(p) = ExpId(q)
      BY <1>5, <2>1
    <3>2. p = q
      BY <3>1, ExpIdOnce
    <3> QED BY <1>4, <2>1, <3>2
  <2> QED BY <2>1
<1>9. \A g \in Gids : \E p \in Procs, c \in Nat : g \in GroupAfter(p, c)
  <2>1. ASSUME NEW g \in Gids PROVE \E p \in Procs, c \in Nat : g \in GroupAfter(p, c)
    <3>1. PICK p \in Procs : ExpId(p) = Slot(g).j
      BY <1>6
    <3>2. g \in mine[p]
      BY <1>2, <3>1
    <3>3. TurnOf(mine[p], g) \in Nat
      BY <1>3, <3>2, TurnIs
    <3> QED BY <1>4, <3>2, <3>3
  <2> QED BY <2>1
<1>10. \A p \in Procs, i, j \in Nat : GroupAfter(p, i) = {} /\ i <= j => GroupAfter(p, j) = {}
  <2>1. ASSUME NEW p \in Procs, NEW i \in Nat, NEW j \in Nat, i <= j, GroupAfter(p, j) # {}
        PROVE  GroupAfter(p, i) # {}
    <3>1. PICK g \in mine[p] : TurnOf(mine[p], g) = j
      BY <1>4, <2>1
    <3>2. i \in 0 .. TurnOf(mine[p], g)
      BY <2>1, <3>1
    <3>3. \E h \in mine[p] : TurnOf(mine[p], h) = i
      BY <1>3, <3>2, TurnIs
    <3> QED BY <1>4, <3>3
  <2> QED BY <2>1
<1>11. \A p \in Procs, c \in Nat : \A g, h \in GroupAfter(p, c) : g = h
  <2>1. ASSUME NEW p \in Procs, NEW c \in Nat, NEW g \in GroupAfter(p, c), NEW h \in GroupAfter(p, c)
        PROVE  g = h
    BY <1>3, <1>4, TurnIs
  <2> QED BY <2>1
<1>12. \A p \in Procs, c \in Nat : GroupAfter(p, c) # {} => GroupAfter(Root(p[1]), 0) # {}
  <2>1. ASSUME NEW p \in Procs, NEW c \in Nat, GroupAfter(p, c) # {}
        PROVE  GroupAfter(Root(p[1]), 0) # {}
    <3> DEFINE q == Root(p[1])
    <3>1. q \in Procs /\ q[1] = p[1] /\ q[2] = 0 /\ p[2] \in Nat /\ p[1] \in Gids \cup {Sources}
      BY ProcsAre DEF Root
    <3>2. PICK g \in GroupAfter(p, c) : g \in Gids /\ Slot(g).j = ExpId(p)
      BY <1>5, <2>1
    <3>3. ExpId(q) \in Nat /\ ExpId(q) <= ExpId(p)
      <4>1. CASE p[1] = Sources
        <5>1. ExpId(q) = q[2] /\ ExpId(p) = p[2]
          BY <3>1, <4>1 DEF ExpId
        <5> QED BY <3>1, <5>1
      <4>2. CASE p[1] # Sources
        <5> DEFINE x == shape.numP + SizeBefore(p[1])
        <5>1. ExpId(q) = x + q[2] /\ ExpId(p) = x + p[2]
          BY <3>1, <4>2 DEF ExpId
        <5>2. x \in Nat
          <6>1. p[1] \in 0 .. G /\ shape.numP \in Nat
            <7>1. G \in Nat \ {0} /\ Gids = 0 .. G - 1 /\ shape.numP \in Nat
              BY LaunchIs
            <7>2. p[1] \in Gids
              BY <3>1, <4>2
            <7> HIDE DEF x
            <7> QED BY <7>1, <7>2
          <6>2. SizeBefore(p[1]) \in Nat
            BY <6>1, SizeBeforeIs
          <6> QED BY <6>1, <6>2
        <5> HIDE DEF x, q
        <5> QED BY <3>1, <5>1, <5>2
      <4> QED BY <4>1, <4>2
    <3>4. g \in 0 .. G
      BY <1>1, <3>2
    <3> HIDE DEF q
    <3>5. PICK h \in 0 .. g : Slot(h).j = ExpId(q)
      BY <3>2, <3>3, <3>4, SlotBack
    <3>6. h \in mine[q]
      <4>1. h \in Gids
        BY <1>1, <3>2
      <4> QED BY <1>2, <3>1, <3>5, <4>1
    <3>7. \E y \in mine[q] : TurnOf(mine[q], y) = 0
      <4>1. TurnOf(mine[q], h) \in Nat
        BY <1>3, <3>1, <3>6, TurnIs
      <4>2. 0 \in 0 .. TurnOf(mine[q], h)
        BY <4>1
      <4> QED BY <1>3, <3>1, <3>6, <4>2, TurnIs
    <3> QED BY <1>4, <3>7 DEF q
  <2> QED BY <2>1
<1> QED BY <1>7, <1>8, <1>9, <1>10, <1>11, <1>12 DEF Plan

(* The nodes in use after s steps of the hypercube.                         *)
Nodes(s) == Power(1 + shape.size[0], s) * shape.init_nodes

(* The place of a process among those that spawn in the same step.          *)
Seat(p) ==
  IF p[1] = Sources THEN p[2] ELSE shape.size[0] * (shape.init_nodes + p[1]) + p[2]

(* The nodes grow in each step by the children that the nodes in use spawn. *)
LEMMA NodesIs ==
  ASSUME Launch
  PROVE  /\ \A s \in Nat : /\ Nodes(s) \in Nat /\ shape.init_nodes <= Nodes(s)
                           /\ Nodes(s + 1) = Nodes(s) + shape.size[0] * Nodes(s)
         /\ \A s, t \in Nat : s <= t => Nodes(s) <= Nodes(t)
<1> DEFINE n == shape.size[0]
           I == shape.init_nodes
           P(s) == Power(1 + n, s)
<1>1. n \in Nat /\ n >= 1 /\ 1 + n \in Nat /\ 1 + n >= 2 /\ I \in Nat
  BY LaunchIs
<1>2. \A s \in Nat : P(s) \in Nat /\ P(s) >= 1 /\ P(s + 1) = (1 + n) * P(s)
  <2> HIDE DEF n
  <2>1. ASSUME NEW s \in Nat PROVE P(s) \in Nat /\ P(s) > s /\ P(s + 1) = (1 + n) * P(s)
    BY <1>1, PowerIs, PowerGrows
  <2> HIDE DEF P
  <2> QED BY <2>1
<1>3. \A s, t \in Nat : s <= t => P(s) <= P(t)
  <2> HIDE DEF n
  <2> QED BY <1>1, PowerGrows
<1>4. \A s : Nodes(s) = P(s) * I
  BY DEF Nodes
<1> HIDE DEF n, I, P
<1>5. ASSUME NEW s \in Nat
      PROVE  Nodes(s) \in Nat /\ I <= Nodes(s) /\ Nodes(s + 1) = Nodes(s) + n * Nodes(s)
  <2> DEFINE x == P(s)
  <2>1. x \in Nat /\ x >= 1 /\ P(s + 1) = (1 + n) * x
    BY <1>2
  <2>2. Nodes(s) = x * I /\ Nodes(s + 1) = ((1 + n) * x) * I
    BY <1>4, <2>1
  <2> HIDE DEF x
  <2>3. 1 * I <= x * I /\ x * I \in Nat
    BY <1>1, <2>1, Times
  <2>4. ((1 + n) * x) * I = x * I + n * (x * I)
    BY <1>1, <2>1
  <2> QED BY <1>1, <2>2, <2>3, <2>4
<1>6. ASSUME NEW s \in Nat, NEW t \in Nat, s <= t PROVE Nodes(s) <= Nodes(t)
  BY <1>1, <1>2, <1>3, <1>4, <1>6, Times
<1> QED BY <1>5, <1>6 DEF n, I

(* The step at which the ranks of group g join follows the one that fills   *)
(* the nodes up to its own.                                                 *)
LEMMA FirstStepIs ==
  ASSUME Launch, Homogeneous(shape.size), NEW g \in Gids
  PROVE  /\ FirstStep(g) \in Nat /\ FirstStep(g) >= 1
         /\ Nodes(FirstStep(g) - 1) <= g + shape.init_nodes
         /\ g + shape.init_nodes < Nodes(FirstStep(g))
<1> DEFINE n == shape.size[0]
           b == 1 + n
           I == shape.init_nodes
           y == g + I
           x == y \div I
           F == FloorLog(x, b)
<1>1. n \in Nat /\ n >= 1 /\ b \in Nat /\ b >= 2 /\ I \in Nat \ {0} /\ g \in Nat /\ y \in Nat
  BY SMTT(30), LaunchIs
<1>2. FirstStep(g) = F + 1
  <2>1. g # Sources /\ Size(g) = shape.size[g] /\ 0 \in Gids /\ DOMAIN shape.size = Gids
    BY LaunchIs
  <2>2. Size(g) = n
    BY <2>1 DEF Homogeneous
  <2> QED BY <2>1, <2>2 DEF FirstStep
<1> HIDE DEF n, I, F, b
<1>3. x \in Nat /\ x >= 1 /\ I * x <= y /\ y < I * (x + 1)
  <2>1. /\ (y \div I) \in Nat /\ y % I \in 0 .. I - 1 /\ y = I * (y \div I) + (y % I)
    BY <1>1
  <2> DEFINE z == I * x
             u == y % I
  <2>2. x \in Nat /\ z \in Int /\ u \in 0 .. I - 1 /\ y = z + u
    BY <1>1, <2>1
  <2>3. I * (x + 1) = z + I
    <3> HIDE DEF x, y
    <3> QED BY <1>1, <2>2
  <2>4. x # 0
    <3>1. SUFFICES ASSUME x = 0 PROVE FALSE
      OBVIOUS
    <3>2. z = 0
      BY <1>1, <3>1
    <3> QED BY <1>1, <2>2, <3>2
  <2> HIDE DEF z, u, x
  <2> QED BY <1>1, <2>2, <2>3, <2>4 DEF z
<1> HIDE DEF x, y
<1>4. F \in Nat /\ Power(b, F) <= x /\ x < Power(b, F + 1)
  BY <1>1, <1>3, FloorLogIs DEF F
<1>5. Power(b, F) \in Nat /\ Power(b, F + 1) \in Nat /\ F + 1 \in Nat
  BY <1>1, <1>4, PowerIs
<1>6. Nodes(F) = Power(b, F) * I /\ Nodes(F + 1) = Power(b, F + 1) * I
  BY DEF Nodes, b, n, I
<1>7. Power(b, F) * I <= x * I /\ x * I = I * x /\ Power(b, F) * I \in Nat
  BY <1>1, <1>3, <1>4, <1>5, Times
<1>8. (x + 1) * I <= Power(b, F + 1) * I /\ (x + 1) * I = I * (x + 1)
  <2>1. x + 1 \in Nat /\ x + 1 <= Power(b, F + 1)
    BY <1>3, <1>4, <1>5
  <2> QED BY <1>1, <1>5, <2>1, Times
<1>9. Nodes(F) <= y /\ y < Nodes(F + 1)
  <2> DEFINE u == Power(b, F) * I
             v == Power(b, F + 1) * I
             w == I * x
             z == I * (x + 1)
  <2>1. u <= w /\ w <= y /\ y < z /\ z <= v
    BY <1>3, <1>7, <1>8
  <2>2. u \in Int /\ v \in Int /\ w \in Int /\ z \in Int
    BY <1>1, <1>3, <1>5
  <2> HIDE DEF u, v, w, z
  <2>3. u <= y /\ y < v
    BY <1>1, <2>1, <2>2
  <2> QED BY <1>6, <2>3 DEF u, v
<1>10. F + 1 >= 1 /\ (F + 1) - 1 = F
  BY <1>4
<1> QED BY <1>2, <1>5, <1>9, <1>10 DEF y, I

(* The first group of a process comes at this step.                         *)
LEMMA FirstStepNat ==
  ASSUME Launch, Homogeneous(shape.size), NEW g \in Gids \cup {Sources}
  PROVE  FirstStep(g) \in Nat
<1>1. CASE g = Sources
  BY <1>1 DEF FirstStep
<1>2. CASE g # Sources
  BY <1>2, FirstStepIs
<1> QED BY <1>1, <1>2

(* next_group_id, counted in nodes.                                         *)
LEMMA NextIs ==
  ASSUME Launch, Homogeneous(shape.size), NEW p \in Procs, NEW c \in Nat
  PROVE  HypercubeNext(p, c) = Nodes(FirstStep(p[1]) + c) - shape.init_nodes + Seat(p)
<1> DEFINE n == shape.size[0]
           I == shape.init_nodes
           N == Nodes(FirstStep(p[1]) + c)
           gid == IF p[1] = Sources THEN -I ELSE p[1]
<1>1. n \in Nat /\ I \in Nat /\ p[1] \in Int /\ p[2] \in Nat /\ N \in Nat
  <2>1. 0 \in Gids /\ I \in Nat /\ p[2] \in Nat /\ p[1] \in Gids \cup {Sources}
    BY ProcsAre, LaunchIs
  <2>2. n \in Nat /\ p[1] \in Int
    BY <2>1, LaunchIs
  <2>3. FirstStep(p[1]) + c \in Nat
    BY <2>1, FirstStepNat
  <2> QED BY <2>1, <2>2, <2>3, NodesIs
<1>2. HypercubeNext(p, c) = N - I + n * (I + gid) + p[2]
  BY DEF HypercubeNext, Nodes
<1>3. n * (I + gid) + p[2] = Seat(p) /\ n * (I + gid) \in Int
  <2>1. CASE p[1] = Sources
    <3>1. gid = -I /\ I + gid = 0 /\ Seat(p) = p[2]
      BY <1>1, <2>1 DEF Seat
    <3> HIDE DEF gid, N, I, n
    <3>2. n * (I + gid) = 0
      BY <1>1, <3>1
    <3> QED BY <1>1, <3>1, <3>2
  <2>2. CASE p[1] # Sources
    <3>1. gid = p[1] /\ Seat(p) = n * (I + p[1]) + p[2]
      BY <2>2 DEF Seat
    <3> HIDE DEF gid, N, I, n
    <3>2. n * (I + gid) \in Int
      BY <1>1, <3>1
    <3> QED BY <3>1, <3>2
  <2> QED BY <2>1, <2>2
<1> DEFINE X == n * (I + gid)
<1>4. HypercubeNext(p, c) = (N - I + X) + p[2] /\ X + p[2] = Seat(p) /\ X \in Int
  BY <1>2, <1>3
<1> HIDE DEF X, N, I
<1>5. HypercubeNext(p, c) = N - I + (X + p[2])
  BY <1>1, <1>4
<1> QED BY <1>4, <1>5 DEF N, I

(* The sources are as many per node as their children, and not enough.      *)
Full ==
  /\ Launch /\ Homogeneous(shape.size)
  /\ shape.numP = shape.size[0] * shape.init_nodes /\ G > shape.numP

(* The seats of the ranks of a group follow each other.                     *)
LEMMA SeatIs ==
  ASSUME Full
  PROVE  /\ shape.size[0] \in Nat \ {0} /\ shape.init_nodes \in Nat \ {0}
         /\ \A p \in Procs : p[1] = Sources =>
              Seat(p) = p[2] /\ p[2] \in 0 .. shape.size[0] * shape.init_nodes - 1
         /\ \A p \in Procs : p[1] # Sources =>
              /\ p[1] \in Gids /\ p[1] \in Nat /\ p[2] \in 0 .. shape.size[0] - 1
              /\ Seat(p) = shape.size[0] * (shape.init_nodes + p[1]) + p[2]
         /\ \A p \in Procs : Seat(p) \in Nat
         /\ \A g \in Gids : \A r \in 0 .. shape.size[0] - 1 : <<g, r>> \in Procs
         /\ \A r \in 0 .. shape.size[0] * shape.init_nodes - 1 : <<Sources, r>> \in Procs
<1> DEFINE n == shape.size[0]
           I == shape.init_nodes
<1>1. /\ Gids = 0 .. G - 1 /\ G \in Nat \ {0} /\ n \in Nat \ {0} /\ I \in Nat \ {0}
      /\ Sources = -1 /\ Size(Sources) = n * I /\ n * I \in Nat
      /\ \A g \in Gids : Size(g) = n
  <2>1. /\ Gids = 0 .. G - 1 /\ G \in Nat \ {0} /\ I \in Nat \ {0} /\ Sources = -1
        /\ Size(Sources) = shape.numP /\ shape.numP \in Nat /\ DOMAIN shape.size = Gids
        /\ \A g \in Gids : Size(g) = shape.size[g] /\ shape.size[g] \in Nat \ {0}
    BY LaunchIs DEF Full
  <2>2. 0 \in Gids
    BY <2>1
  <2>3. \A g \in Gids : shape.size[g] = n
    BY <2>1, <2>2 DEF Full, Homogeneous
  <2>4. shape.numP = n * I
    BY DEF Full
  <2> QED BY <2>1, <2>2, <2>3, <2>4
<1>2. \A p \in Procs : p[1] = Sources => Seat(p) = p[2] /\ p[2] \in 0 .. n * I - 1
  <2>1. \A p \in Procs : p[2] \in 0 .. Size(p[1]) - 1
    BY ProcsAre DEF Full
  <2> QED BY <1>1, <2>1 DEF Seat
<1>3. \A p \in Procs : p[1] # Sources =>
              /\ p[1] \in Gids /\ p[1] \in Nat /\ p[2] \in 0 .. n - 1
              /\ Seat(p) = n * (I + p[1]) + p[2]
  <2>1. \A p \in Procs : p[2] \in 0 .. Size(p[1]) - 1 /\ p[1] \in Gids \cup {Sources}
    BY ProcsAre DEF Full
  <2> QED BY <1>1, <2>1 DEF Seat
<1>4. \A p \in Procs : Seat(p) \in Nat
  <2>1. ASSUME NEW p \in Procs PROVE Seat(p) \in Nat
    <3>1. CASE p[1] = Sources
      BY <1>1, <1>2, <3>1
    <3>2. CASE p[1] # Sources
      <4> DEFINE x == I + p[1]
      <4>1. x \in Nat /\ p[2] \in Nat /\ Seat(p) = n * x + p[2]
        BY <1>1, <1>3, <3>2
      <4> HIDE DEF x, n
      <4>2. n * x \in Nat
        BY <1>1, <4>1
      <4> QED BY <4>1, <4>2
    <3> QED BY <3>1, <3>2
  <2> QED BY <2>1
<1>5. \A g \in Gids : \A r \in 0 .. n - 1 : <<g, r>> \in Procs
  BY <1>1, ProcsAre DEF Full
<1>6. \A r \in 0 .. n * I - 1 : <<Sources, r>> \in Procs
  BY <1>1, ProcsAre DEF Full
<1> QED BY <1>1, <1>2, <1>3, <1>4, <1>5, <1>6

(* Those that spawn in a step fit in the nodes in use.                      *)
LEMMA Wave ==
  ASSUME Full, NEW p \in Procs, NEW c \in Nat
  PROVE  /\ FirstStep(p[1]) + c \in Nat
         /\ Seat(p) < shape.size[0] * Nodes(FirstStep(p[1]) + c)
         /\ p[1] # Sources => p[1] + shape.init_nodes < Nodes(FirstStep(p[1]) + c)
<1> DEFINE n == shape.size[0]
           I == shape.init_nodes
           f == FirstStep(p[1])
           s == f + c
           N == Nodes(s)
<1>1. n \in Nat \ {0} /\ I \in Nat \ {0} /\ Seat(p) \in Nat /\ Launch /\ Homogeneous(shape.size)
  BY SeatIs DEF Full
<1>2. f \in Nat /\ s \in Nat
  <2>1. p[1] \in Gids \cup {Sources}
    BY <1>1, ProcsAre
  <2>2. f \in Nat
    BY <1>1, <2>1, FirstStepNat
  <2> HIDE DEF f
  <2> QED BY <2>2
<1>3. N \in Nat /\ I <= N /\ Nodes(f) \in Nat /\ Nodes(f) <= N
  <2>1. f <= s
    BY <1>2
  <2> HIDE DEF f, s
  <2> QED BY <1>1, <1>2, <2>1, NodesIs
<1>4. CASE p[1] = Sources
  <2>1. Seat(p) < n * I
    <3>1. n * I \in Nat /\ Seat(p) \in 0 .. n * I - 1
      BY <1>1, <1>4, SeatIs
    <3> QED BY <1>1, <3>1
  <2>2. I * n <= N * n /\ I * n \in Nat /\ N * n \in Nat
    <3> HIDE DEF n, I, N
    <3> QED BY <1>1, <1>3, Times
  <2>3. n * I = I * n /\ n * N = N * n
    <3> HIDE DEF n, I, N
    <3> QED BY <1>1, <1>3
  <2>4. Seat(p) < n * N
    <3> DEFINE a == I * n
               z == N * n
    <3> HIDE DEF a, z
    <3>1. Seat(p) < a /\ a <= z /\ a \in Nat /\ z \in Nat
      BY <2>1, <2>2, <2>3 DEF a, z
    <3>2. Seat(p) < z
      BY <1>1, <3>1
    <3> QED BY <2>3, <3>2 DEF z
  <2> QED BY <1>2, <1>4, <2>4
<1>5. CASE p[1] # Sources
  <2> DEFINE g == p[1]
             y == I + g
  <2>1. g \in Gids /\ g \in Nat /\ p[2] \in 0 .. n - 1 /\ Seat(p) = n * y + p[2]
    BY <1>5, SeatIs
  <2>2. g + I < Nodes(f)
    BY <1>1, <2>1, FirstStepIs
  <2>3. y \in Nat /\ y + 1 \in Nat /\ y + 1 <= N /\ g + I < N
    <3> HIDE DEF g, I, N, f
    <3> QED BY <1>1, <1>3, <2>1, <2>2
  <2>4. (y + 1) * n <= N * n /\ N * n \in Nat
    <3> HIDE DEF y, n, N
    <3> QED BY <1>1, <1>3, <2>3, Times
  <2>5. (y + 1) * n = n * y + n /\ n * N = N * n /\ n * y \in Nat
    <3> HIDE DEF y, n, N
    <3> QED BY <1>1, <1>3, <2>3
  <2>6. Seat(p) < n * N
    <3> DEFINE a == n * y
               z == n * N
               r == p[2]
               m == n
    <3> HIDE DEF a, z, r, m
    <3>1. Seat(p) = a + r /\ r \in 0 .. m - 1 /\ a + m <= z /\ a \in Nat /\ m \in Nat /\ z \in Nat
      BY <1>1, <2>1, <2>4, <2>5 DEF a, z, r, m
    <3>2. Seat(p) < z
      BY <3>1
    <3> QED BY <3>2 DEF z
  <2> QED BY <1>2, <2>3, <2>6
<1> QED BY <1>4, <1>5

(* No two processes have the same seat.                                     *)
LEMMA SeatOnce ==
  ASSUME Full, NEW p \in Procs, NEW q \in Procs, Seat(p) = Seat(q)
  PROVE  p = q
<1> DEFINE n == shape.size[0]
           I == shape.init_nodes
<1>1. n \in Nat \ {0} /\ I \in Nat \ {0} /\ p = <<p[1], p[2]>> /\ q = <<q[1], q[2]>>
  BY SeatIs, ProcsAre DEF Full
<1>2. ASSUME NEW u \in Procs, NEW v \in Procs, u[1] = Sources, v[1] # Sources
      PROVE  Seat(u) # Seat(v)
  <2>1. Seat(u) \in 0 .. n * I - 1 /\ v[1] \in Nat /\ v[2] \in 0 .. n - 1
        /\ Seat(v) = n * (I + v[1]) + v[2]
    BY <1>2, SeatIs
  <2> DEFINE x == v[1]
             r == v[2]
  <2>2. n * (I + x) = n * I + n * x /\ n * I \in Nat /\ n * x \in Nat
    <3> HIDE DEF n, I, x
    <3> QED BY <1>1, <2>1 DEF x
  <2> DEFINE a == n * I
             z == n * x
  <2>3. Seat(v) = a + z + r /\ a \in Nat /\ z \in Nat /\ r \in Nat /\ Seat(u) \in 0 .. a - 1
    BY <1>1, <2>1, <2>2
  <2> HIDE DEF a, z, r
  <2> QED BY <2>3
<1>3. CASE p[1] = Sources /\ q[1] = Sources
  BY <1>1, <1>3, SeatIs
<1>4. CASE p[1] # Sources /\ q[1] # Sources
  <2> DEFINE x == I + p[1]
             y == I + q[1]
             r == p[2]
             t == q[2]
  <2>1. /\ x \in Nat /\ y \in Nat /\ r \in 0 .. n - 1 /\ t \in 0 .. n - 1 /\ p[1] \in Nat /\ q[1] \in Nat
        /\ n * x + r = n * y + t
    BY <1>1, <1>4, SeatIs
  <2>2. ASSUME NEW i \in Nat, NEW j \in Nat, i < j PROVE n * i + n <= n * j /\ n * i \in Nat /\ n * j \in Nat
    <3>1. (i + 1) * n <= j * n /\ i + 1 \in Nat
      BY <1>1, <2>2, Times
    <3>2. (i + 1) * n = n * i + n /\ j * n = n * j
      BY <1>1
    <3>3. n * i \in Nat /\ n * j \in Nat
      BY <1>1
    <3> QED BY <3>1, <3>2, <3>3
  <2> HIDE DEF n, x, y, r, t
  <2>3. ~ x < y
    <3>1. SUFFICES ASSUME x < y PROVE FALSE
      OBVIOUS
    <3> DEFINE a == n * x
               z == n * y
    <3>2. a + n <= z /\ a \in Nat /\ z \in Nat /\ a + r = z + t
      BY <2>1, <2>2, <3>1
    <3> HIDE DEF a, z
    <3> QED BY <1>1, <2>1, <3>2
  <2>4. ~ y < x
    <3>1. SUFFICES ASSUME y < x PROVE FALSE
      OBVIOUS
    <3> DEFINE a == n * x
               z == n * y
    <3>2. z + n <= a /\ a \in Nat /\ z \in Nat /\ a + r = z + t
      BY <2>1, <2>2, <3>1
    <3> HIDE DEF a, z
    <3> QED BY <1>1, <2>1, <3>2
  <2>5. x = y
    BY <2>1, <2>3, <2>4
  <2>6. r = t
    <3> DEFINE a == n * x
    <3>1. a \in Int /\ a + r = a + t
      BY <1>1, <2>1, <2>5
    <3> HIDE DEF a
    <3> QED BY <1>1, <2>1, <3>1
  <2> QED BY <1>1, <2>1, <2>5, <2>6 DEF x, y, r, t
<1>5. CASE p[1] = Sources /\ q[1] # Sources
  BY <1>2, <1>5
<1>6. CASE p[1] # Sources /\ q[1] = Sources
  BY <1>2, <1>6
<1> QED BY <1>3, <1>4, <1>5, <1>6

(* The groups spawned in a step.                                            *)
LEMMA NextBounds ==
  ASSUME Full, NEW p \in Procs, NEW c \in Nat
  PROVE  /\ HypercubeNext(p, c) \in Nat /\ p[1] < HypercubeNext(p, c)
         /\ Nodes(FirstStep(p[1]) + c) <= HypercubeNext(p, c) + shape.init_nodes
         /\ HypercubeNext(p, c) + shape.init_nodes < Nodes(FirstStep(p[1]) + c + 1)
         /\ HypercubeNext(p, c) = Nodes(FirstStep(p[1]) + c) - shape.init_nodes + Seat(p)
<1> DEFINE n == shape.size[0]
           I == shape.init_nodes
           s == FirstStep(p[1]) + c
           N == Nodes(s)
           M == Nodes(s + 1)
           z == n * N
           X == HypercubeNext(p, c)
           S == Seat(p)
<1>1. s \in Nat /\ S < z /\ S \in Nat /\ I \in Nat /\ Launch /\ Homogeneous(shape.size) /\ n \in Nat
  BY Wave, SeatIs DEF Full
<1>2. X = N - I + S
  BY <1>1, NextIs
<1>3. N \in Nat /\ I <= N /\ M = N + z
  <2> HIDE DEF s
  <2> QED BY <1>1, NodesIs
<1>4. z \in Nat
  <2> HIDE DEF n, N
  <2> QED BY <1>1, <1>3
<1>5. p[1] # Sources => p[1] + I < N /\ p[1] \in Nat
  BY Wave, SeatIs
<1>6. p[1] < X
  <2>1. CASE p[1] = Sources
    <3>1. p[1] = -1
      BY <2>1 DEF Sources
    <3> HIDE DEF N, I, S, X
    <3> QED BY <1>1, <1>2, <1>3, <3>1
  <2>2. CASE p[1] # Sources
    <3> HIDE DEF N, I, S, X
    <3> QED BY <1>1, <1>2, <1>3, <1>5, <2>2
  <2> QED BY <2>1, <2>2
<1> HIDE DEF N, I, S, X, M, z
<1>7. X \in Nat /\ N <= X + I /\ X + I < M
  BY <1>1, <1>2, <1>3, <1>4
<1> QED BY <1>2, <1>6, <1>7 DEF X, N, I, S, M

(* A group is spawned in one step of the hypercube only, from one seat.     *)
LEMMA NextOnce ==
  ASSUME Full, NEW p \in Procs, NEW q \in Procs, NEW i \in Nat, NEW j \in Nat,
         HypercubeNext(p, i) = HypercubeNext(q, j)
  PROVE  p = q /\ i = j
<1> DEFINE s == FirstStep(p[1]) + i
           t == FirstStep(q[1]) + j
           I == shape.init_nodes
           X == HypercubeNext(p, i)
<1>1. Launch /\ I \in Nat /\ s \in Nat /\ t \in Nat /\ X \in Nat /\ Seat(p) \in Nat /\ Seat(q) \in Nat
  BY SeatIs, Wave, NextBounds DEF Full
<1>2. /\ Nodes(s) <= X + I /\ X + I < Nodes(s + 1) /\ X = Nodes(s) - I + Seat(p)
      /\ Nodes(t) <= X + I /\ X + I < Nodes(t + 1) /\ X = Nodes(t) - I + Seat(q)
  BY NextBounds
<1>3. /\ Nodes(s) \in Nat /\ Nodes(t) \in Nat /\ Nodes(s + 1) \in Nat /\ Nodes(t + 1) \in Nat
      /\ s + 1 <= t => Nodes(s + 1) <= Nodes(t)
      /\ t + 1 <= s => Nodes(t + 1) <= Nodes(s)
  <2> HIDE DEF s, t
  <2>1. s + 1 \in Nat /\ t + 1 \in Nat
    BY <1>1
  <2> QED BY <1>1, <2>1, NodesIs
<1> HIDE DEF s, t, I, X
<1>4. ~ s + 1 <= t
  BY <1>1, <1>2, <1>3
<1>5. ~ t + 1 <= s
  BY <1>1, <1>2, <1>3
<1>6. s = t
  BY <1>1, <1>4, <1>5
<1>7. Seat(p) = Seat(q)
  <2> DEFINE N == Nodes(s)
             a == Seat(p)
             b == Seat(q)
  <2>1. X = N - I + a /\ X = N - I + b /\ N \in Nat /\ a \in Nat /\ b \in Nat
    BY <1>1, <1>2, <1>3, <1>6
  <2> HIDE DEF N, a, b
  <2>2. a = b
    BY <1>1, <2>1
  <2> QED BY <2>2 DEF a, b
<1>8. p = q
  BY <1>7, SeatOnce
<1>9. FirstStep(p[1]) + i = FirstStep(p[1]) + j
  BY <1>6, <1>8 DEF s, t
<1>10. FirstStep(p[1]) \in Nat
  <2>1. p[1] \in Gids \cup {Sources} /\ Homogeneous(shape.size)
    BY <1>1, ProcsAre DEF Full
  <2> QED BY <1>1, <2>1, FirstStepNat
<1>11. i = j
  <2> DEFINE f == FirstStep(p[1])
  <2> HIDE DEF f
  <2>1. f + i = f + j /\ f \in Nat
    BY <1>9, <1>10 DEF f
  <2> QED BY <2>1
<1> QED BY <1>8, <1>11

(* Every group is spawned in some step.                                     *)
LEMMA NextSome ==
  ASSUME Full, NEW g \in Gids
  PROVE  \E p \in Procs : \E c \in Nat : HypercubeNext(p, c) = g
<1> DEFINE n == shape.size[0]
           I == shape.init_nodes
           s == FirstStep(g) - 1
           N == Nodes(s)
           z == g + I - N
<1>1. /\ n \in Nat \ {0} /\ I \in Nat \ {0} /\ g \in Nat /\ Gids = 0 .. G - 1 /\ G \in Nat
      /\ Launch /\ Homogeneous(shape.size)
  BY SeatIs, LaunchIs DEF Full
<1>2. s \in Nat /\ Nodes(s) <= g + I /\ g + I < Nodes(s + 1)
  <2>1. /\ FirstStep(g) \in Nat /\ FirstStep(g) >= 1
        /\ Nodes(FirstStep(g) - 1) <= g + I /\ g + I < Nodes(FirstStep(g))
    BY <1>1, FirstStepIs
  <2>2. s + 1 = FirstStep(g)
    BY <2>1
  <2> QED BY <2>1, <2>2
<1>3. N \in Nat /\ Nodes(s + 1) = N + n * N
  <2> HIDE DEF s
  <2> QED BY <1>1, <1>2, NodesIs
<1>4. n * N \in Nat
  <2> HIDE DEF n, N
  <2> QED BY <1>1, <1>3
<1>5. z \in 0 .. n * N - 1
  <2> DEFINE w == n * N
  <2>1. N <= g + I /\ g + I < N + w /\ w \in Nat
    BY <1>2, <1>3, <1>4
  <2> HIDE DEF w, N, I
  <2>2. z \in 0 .. w - 1
    BY <1>1, <1>3, <2>1
  <2> QED BY <2>2 DEF w, N, I
<1>6. g = N - I + z
  <2> HIDE DEF N, I
  <2> QED BY <1>1, <1>3
<1>7. SUFFICES \E p \in Procs : Seat(p) = z /\ FirstStep(p[1]) <= s /\ FirstStep(p[1]) \in Nat
  <2>1. PICK p \in Procs : Seat(p) = z /\ FirstStep(p[1]) <= s /\ FirstStep(p[1]) \in Nat
    BY <1>7
  <2> DEFINE c == s - FirstStep(p[1])
  <2>2. c \in Nat /\ FirstStep(p[1]) + c = s
    <3> DEFINE f == FirstStep(p[1])
    <3>1. f \in Nat /\ f <= s
      BY <2>1
    <3> HIDE DEF f, s
    <3>2. s - f \in Nat /\ f + (s - f) = s
      BY <1>2, <3>1
    <3> QED BY <3>2 DEF f
  <2>3. HypercubeNext(p, c) = N - I + z
    <3>1. HypercubeNext(p, c) = Nodes(FirstStep(p[1]) + c) - I + Seat(p)
      BY <1>1, <2>2, NextIs
    <3> HIDE DEF c, s, z
    <3> QED BY <2>1, <2>2, <3>1
  <2> HIDE DEF c, z, N
  <2> QED BY <1>6, <2>2, <2>3
<1>8. CASE z < n * I
  <2>1. z \in 0 .. n * I - 1
    <3>1. n * I \in Nat
      BY <1>1
    <3> DEFINE w == n * I
    <3> HIDE DEF w, z
    <3>2. w \in Nat /\ z < w /\ z \in Nat
      BY <1>5, <1>8, <3>1 DEF w
    <3>3. z \in 0 .. w - 1
      BY <3>2
    <3> QED BY <3>3 DEF w
  <2> DEFINE p == <<Sources, z>>
  <2>2. p \in Procs /\ p[1] = Sources /\ p[2] = z
    <3> HIDE DEF z
    <3> QED BY <2>1, SeatIs
  <2>3. Seat(p) = z
    BY <2>2 DEF Seat
  <2>4. FirstStep(p[1]) = 0
    BY <2>2 DEF FirstStep
  <2> HIDE DEF p, z, s
  <2>5. 0 <= s /\ 0 \in Nat
    BY <1>2
  <2> QED BY <2>2, <2>3, <2>4, <2>5
<1>9. CASE ~ z < n * I
  <2> DEFINE x == z \div n
             r == z % n
             h == x - I
  <2>1. z \in Nat /\ x \in Nat /\ r \in 0 .. n - 1 /\ z = n * x + r /\ n * x \in Nat
    <3>1. z \in Nat
      BY <1>5
    <3> HIDE DEF z, n
    <3>2. x \in Int /\ r \in 0 .. n - 1 /\ z = n * x + r
      BY <1>1, <3>1
    <3>3. x \in Nat
      BY <1>1, <3>1
    <3>4. n * x \in Nat
      <4> HIDE DEF x, r
      <4> QED BY <1>1, <3>3
    <3> QED BY <3>1, <3>2, <3>3, <3>4
  <2>2. \A i, j \in Nat : i < j => n * i + n <= n * j /\ n * i \in Nat /\ n * j \in Nat
    <3>1. ASSUME NEW i \in Nat, NEW j \in Nat, i < j
          PROVE n * i + n <= n * j /\ n * i \in Nat /\ n * j \in Nat
      <4>1. (i + 1) * n <= j * n /\ i + 1 \in Nat
        BY <1>1, <3>1, Times
      <4>2. (i + 1) * n = n * i + n /\ j * n = n * j
        BY <1>1
      <4>3. n * i \in Nat /\ n * j \in Nat
        BY <1>1
      <4> QED BY <4>1, <4>2, <4>3
    <3> QED BY <3>1
  <2>a. z < n * N
    <3> DEFINE w == n * N
    <3> HIDE DEF w
    <3>1. w \in Nat /\ z \in 0 .. w - 1
      BY <1>4, <1>5 DEF w
    <3>2. z < w
      BY <3>1
    <3> QED BY <3>2 DEF w
  <2> HIDE DEF x, r, z, n, N, I
  <2>3. x < N
    <3>1. SUFFICES ASSUME N <= x PROVE FALSE
      BY <1>3, <2>1
    <3>2. n * N <= n * x
      <4>1. CASE N = x
        BY <4>1, <1>4
      <4>2. CASE N # x
        <5>1. N < x
          BY <1>3, <2>1, <3>1, <4>2
        <5>2. n * N + n <= n * x /\ n * N \in Nat /\ n * x \in Nat
          BY <1>3, <2>1, <2>2, <5>1
        <5> DEFINE a == n * N
                   b == n * x
        <5> HIDE DEF a, b
        <5>3. a + n <= b /\ a \in Nat /\ b \in Nat
          BY <5>2 DEF a, b
        <5>4. a <= b
          BY <1>1, <5>3
        <5> QED BY <5>4 DEF a, b
      <4> QED BY <4>1, <4>2
    <3> DEFINE a == n * N
               b == n * x
    <3>3. a <= b /\ z < a /\ z = b + r /\ a \in Nat /\ b \in Nat
      BY <1>4, <2>1, <2>a, <3>2
    <3> HIDE DEF a, b
    <3> QED BY <1>1, <2>1, <3>3
  <2>4. I <= x
    <3>1. SUFFICES ASSUME x < I PROVE FALSE
      BY <1>1, <2>1
    <3>2. n * x + n <= n * I /\ n * x \in Nat /\ n * I \in Nat
      BY <1>1, <2>1, <2>2, <3>1
    <3> DEFINE a == n * I
               b == n * x
    <3>3. b + n <= a /\ z = b + r /\ a \in Nat /\ b \in Nat /\ ~ z < a
      BY <1>9, <2>1, <3>2
    <3> HIDE DEF a, b
    <3> QED BY <1>1, <2>1, <3>3
  <2>5. h \in Gids /\ h + I = x /\ h \in Nat
    <3>1. N <= g + I /\ g < G
      BY <1>1, <1>2 DEF N, I
    <3> QED BY <1>1, <1>3, <2>1, <2>3, <2>4, <3>1
  <2> DEFINE p == <<h, r>>
  <2>6. p \in Procs /\ p[1] = h /\ p[2] = r /\ h # Sources
    <3>1. p \in Procs
      <4>1. \A i \in Gids : \A j \in 0 .. shape.size[0] - 1 : <<i, j>> \in Procs
        BY SeatIs
      <4> QED BY <2>1, <2>5, <4>1 DEF n
    <3>2. h # Sources
      BY <1>1, <2>5, LaunchIs
    <3> QED BY <3>1, <3>2
  <2>7. Seat(p) = z
    <3>1. Seat(p) = n * (I + h) + r
      BY <2>6 DEF Seat, n, I
    <3>2. I + h = x
      BY <1>1, <2>5
    <3> QED BY <2>1, <3>1, <3>2
  <2>8. FirstStep(h) \in Nat /\ FirstStep(h) <= s
    <3> DEFINE f == FirstStep(h)
    <3>1. f \in Nat /\ f >= 1 /\ Nodes(f - 1) <= h + I
      BY <1>1, <2>5, FirstStepIs DEF I
    <3>2. Nodes(f - 1) \in Nat /\ (s <= f - 1 => N <= Nodes(f - 1))
      <4> HIDE DEF f, s
      <4>1. f - 1 \in Nat
        BY <3>1
      <4> QED BY <1>1, <1>2, <4>1, NodesIs DEF N
    <3> HIDE DEF f, s
    <3>3. Nodes(f - 1) < N
      BY <1>3, <2>1, <2>3, <2>5, <3>1, <3>2
    <3>4. ~ s <= f - 1
      BY <1>3, <3>2, <3>3
    <3>5. f <= s
      BY <1>2, <3>1, <3>4
    <3> QED BY <3>1, <3>5 DEF f
  <2> HIDE DEF p, h, s
  <2> QED BY <2>6, <2>7, <2>8
<1> QED BY <1>8, <1>9

(* The steps of the hypercube are a plan.                                   *)
LEMMA CubePlan ==
  ASSUME Full
  PROVE  Plan
<1>1. /\ Launch /\ G > shape.numP /\ Homogeneous(shape.size)
      /\ Gids = 0 .. G - 1 /\ G \in Nat /\ shape.init_nodes \in Nat
  BY LaunchIs DEF Full
<1>2. \A p, c : GroupAfter(p, c) = IF HypercubeNext(p, c) < G THEN {HypercubeNext(p, c)} ELSE {}
  BY <1>1 DEF GroupAfter
<1>3. \A p \in Procs, c \in Nat : \A g \in GroupAfter(p, c) : g = HypercubeNext(p, c) /\ g < G
  BY <1>2
<1>4. \A p \in Procs, c \in Nat : \A g \in GroupAfter(p, c) : g \in Gids /\ p[1] < g
  <2>1. \A p \in Procs, c \in Nat : HypercubeNext(p, c) \in Nat /\ p[1] < HypercubeNext(p, c)
    BY NextBounds
  <2>2. ASSUME NEW p \in Procs, NEW c \in Nat, NEW g \in GroupAfter(p, c)
        PROVE  g \in Gids /\ p[1] < g
    <3>1. g \in Nat /\ g < G /\ p[1] < g
      BY <1>3, <2>1
    <3> QED BY <1>1, <3>1
  <2> QED BY <2>2
<1>5. \A p, q \in Procs, i, j \in Nat : \A g \in GroupAfter(p, i) :
        g \in GroupAfter(q, j) => p = q /\ i = j
  <2>1. ASSUME NEW p \in Procs, NEW q \in Procs, NEW i \in Nat, NEW j \in Nat,
               NEW g \in GroupAfter(p, i), g \in GroupAfter(q, j)
        PROVE  p = q /\ i = j
    <3>1. HypercubeNext(p, i) = HypercubeNext(q, j)
      BY <1>3, <2>1
    <3> QED BY <3>1, NextOnce
  <2> QED BY <2>1
<1>6. \A g \in Gids : \E p \in Procs, c \in Nat : g \in GroupAfter(p, c)
  <2>1. ASSUME NEW g \in Gids PROVE \E p \in Procs, c \in Nat : g \in GroupAfter(p, c)
    <3>1. PICK p \in Procs : \E c \in Nat : HypercubeNext(p, c) = g
      BY NextSome
    <3>2. PICK c \in Nat : HypercubeNext(p, c) = g
      BY <3>1
    <3>3. g < G
      BY <1>1
    <3> QED BY <1>2, <3>2, <3>3
  <2> QED BY <2>1
<1>7. ASSUME NEW p \in Procs, NEW i \in Nat, NEW j \in Nat, i <= j
      PROVE  HypercubeNext(p, i) <= HypercubeNext(p, j)
  <2> DEFINE s == FirstStep(p[1]) + i
             t == FirstStep(p[1]) + j
             I == shape.init_nodes
  <2>1. /\ HypercubeNext(p, i) = Nodes(s) - I + Seat(p) /\ s \in Nat
        /\ HypercubeNext(p, j) = Nodes(t) - I + Seat(p) /\ t \in Nat /\ Seat(p) \in Nat
    BY NextBounds, Wave, SeatIs
  <2>2. s <= t
    <3>1. FirstStep(p[1]) \in Nat
      <4>1. p[1] \in Gids \cup {Sources}
        BY <1>1, ProcsAre
      <4> QED BY <1>1, <4>1, FirstStepNat
    <3> DEFINE f == FirstStep(p[1])
    <3> HIDE DEF f
    <3>2. f \in Nat
      BY <3>1 DEF f
    <3>3. f + i <= f + j
      BY <1>7, <3>2
    <3> QED BY <3>3 DEF f
  <2>3. Nodes(s) <= Nodes(t) /\ Nodes(s) \in Nat /\ Nodes(t) \in Nat
    <3> HIDE DEF s, t
    <3> QED BY <1>1, <2>1, <2>2, NodesIs
  <2> DEFINE N == Nodes(s)
             M == Nodes(t)
             S == Seat(p)
  <2> HIDE DEF N, M, S, I
  <2>4. N - I + S <= M - I + S
    BY <1>1, <2>1, <2>3 DEF N, M, S, I
  <2> QED BY <2>1, <2>4 DEF N, M, S
<1>8. \A p \in Procs, i, j \in Nat : GroupAfter(p, i) = {} /\ i <= j => GroupAfter(p, j) = {}
  <2>1. ASSUME NEW p \in Procs, NEW i \in Nat, NEW j \in Nat, i <= j, GroupAfter(p, i) = {},
               GroupAfter(p, j) # {}
        PROVE  FALSE
    <3>1. ~ HypercubeNext(p, i) < G /\ HypercubeNext(p, j) < G
      BY <1>2, <2>1
    <3>2. HypercubeNext(p, i) \in Nat /\ HypercubeNext(p, j) \in Nat
      BY NextBounds
    <3> QED BY <1>1, <1>7, <2>1, <3>1, <3>2
  <2> QED BY <2>1
<1>9. \A p \in Procs, c \in Nat : \A g, h \in GroupAfter(p, c) : g = h
  BY <1>3
<1>10. \A p \in Procs, c \in Nat : GroupAfter(p, c) # {} => GroupAfter(Root(p[1]), 0) # {}
  <2>1. ASSUME NEW p \in Procs, NEW c \in Nat, GroupAfter(p, c) # {}
        PROVE  GroupAfter(Root(p[1]), 0) # {}
    <3> DEFINE q == Root(p[1])
    <3>1. q \in Procs /\ q[1] = p[1] /\ q[2] = 0 /\ p[2] \in Nat /\ p[1] \in Gids \cup {Sources}
      BY <1>1, ProcsAre DEF Root
    <3>2. Seat(q) <= Seat(p) /\ Seat(p) \in Nat /\ Seat(q) \in Nat
      <4>1. Seat(p) \in Nat /\ Seat(q) \in Nat
        BY <3>1, SeatIs
      <4>2. CASE p[1] = Sources
        <5>1. Seat(p) = p[2] /\ Seat(q) = 0
          BY <3>1, <4>2 DEF Seat
        <5> QED BY <4>1, <5>1
      <4>3. CASE p[1] # Sources
        <5> DEFINE x == shape.size[0] * (shape.init_nodes + p[1])
        <5>1. Seat(p) = x + p[2] /\ Seat(q) = x + q[2]
          BY <3>1, <4>3 DEF Seat
        <5>2. x \in Int
          <6>1. p[1] \in Int /\ shape.init_nodes \in Int /\ shape.size[0] \in Int
            BY <4>3, SeatIs
          <6> QED BY <6>1
        <5> HIDE DEF x, q
        <5> QED BY <3>1, <4>1, <5>1, <5>2
      <4> QED BY <4>2, <4>3
    <3> HIDE DEF q
    <3>3. HypercubeNext(q, 0) <= HypercubeNext(p, 0)
      <4> DEFINE N == Nodes(FirstStep(p[1]) + 0)
                 I == shape.init_nodes
      <4>1. /\ HypercubeNext(p, 0) = N - I + Seat(p) /\ HypercubeNext(q, 0) = N - I + Seat(q)
            /\ FirstStep(p[1]) + 0 \in Nat
        BY <3>1, NextBounds, Wave
      <4>2. N \in Nat
        <5> DEFINE s == FirstStep(p[1]) + 0
        <5>1. s \in Nat
          BY <4>1
        <5> HIDE DEF s
        <5>2. Nodes(s) \in Nat
          BY <1>1, <5>1, NodesIs
        <5> QED BY <5>2 DEF s
      <4> HIDE DEF N, I
      <4>3. N - I + Seat(q) <= N - I + Seat(p)
        BY <1>1, <3>2, <4>2 DEF I
      <4> QED BY <4>1, <4>3
    <3>4. HypercubeNext(p, 0) <= HypercubeNext(p, c)
      BY <1>7
    <3>5. HypercubeNext(p, c) < G
      BY <1>2, <2>1
    <3>6. HypercubeNext(q, 0) < G
      <4>1. /\ HypercubeNext(q, 0) \in Nat /\ HypercubeNext(p, 0) \in Nat
            /\ HypercubeNext(p, c) \in Nat
        BY <3>1, NextBounds
      <4> QED BY <1>1, <3>3, <3>4, <3>5, <4>1
    <3>7. GroupAfter(q, 0) # {}
      BY <1>2, <3>6
    <3> QED BY <3>7 DEF q
  <2> QED BY <2>1
<1> QED BY <1>4, <1>5, <1>6, <1>8, <1>9, <1>10 DEF Plan

(* So is a launch in which the sources spawn all groups in one step.        *)
LEMMA SourcesPlan ==
  ASSUME Launch, Homogeneous(shape.size), G <= shape.numP, G <= shape.size[0] * shape.init_nodes
  PROVE  Plan
<1> DEFINE n == shape.size[0]
           I == shape.init_nodes
<1>1. /\ Gids = 0 .. G - 1 /\ G \in Nat \ {0} /\ I \in Nat \ {0} /\ n \in Nat \ {0}
      /\ Sources = -1 /\ shape.numP \in Nat /\ Size(Sources) = shape.numP
  <2>1. 0 \in Gids
    BY LaunchIs
  <2> QED BY <2>1, LaunchIs
<1>2. ASSUME NEW p \in Procs, NEW c \in Nat, p[1] = Sources
      PROVE  /\ HypercubeNext(p, c) \in Nat
             /\ HypercubeNext(p, c) < G <=> c = 0 /\ p[2] < G
             /\ c = 0 => HypercubeNext(p, c) = p[2]
  <2>1. HypercubeNext(p, c) = Nodes(0 + c) - I + p[2] /\ p[2] \in Nat
    BY <1>2, NextIs, ProcsAre DEF FirstStep, Seat
  <2>2. Nodes(0) = I
    <3>1. 1 + n \in Nat
      BY <1>1
    <3>2. Power(1 + n, 0) = 1
      <4> HIDE DEF n
      <4> QED BY <3>1, PowerIs
    <3>3. Nodes(0) = 1 * I
      BY <3>2 DEF Nodes
    <3> QED BY <1>1, <3>3
  <2>3. Nodes(1) = I + n * I
    <3>1. Nodes(0 + 1) = Nodes(0) + n * Nodes(0)
      BY NodesIs
    <3> QED BY <2>2, <3>1
  <2>4. Nodes(c) \in Nat /\ I <= Nodes(c) /\ (c >= 1 => Nodes(1) <= Nodes(c)) /\ 0 + c = c
    BY NodesIs
  <2> DEFINE z == n * I
             N == Nodes(c)
             X == HypercubeNext(p, c)
  <2>5. z \in Nat /\ G <= z
    BY <1>1
  <2>6. X = N - I + p[2] /\ N \in Nat /\ I <= N /\ (c >= 1 => I + z <= N) /\ (c = 0 => N = I)
    BY <2>1, <2>2, <2>3, <2>4
  <2> HIDE DEF z, N, I, X
  <2>7. X \in Nat /\ (c >= 1 => X >= G) /\ (c = 0 => X = p[2])
    BY SMTT(30), <1>1, <2>1, <2>5, <2>6
  <2>8. X < G <=> c = 0 /\ p[2] < G
    BY <1>1, <2>7
  <2> QED BY <2>7, <2>8 DEF X
<1>3. ASSUME NEW p \in Procs, NEW c \in Nat
      PROVE  GroupAfter(p, c) = IF p[1] = Sources /\ c = 0 /\ p[2] < G THEN {p[2]} ELSE {}
  <2>1. ~ G > shape.numP
    BY <1>1
  <2>2. GroupAfter(p, c) = IF p[1] = Sources /\ HypercubeNext(p, c) < G
                             THEN {HypercubeNext(p, c)} ELSE {}
    BY <2>1 DEF GroupAfter
  <2>3. CASE p[1] # Sources
    BY <2>2, <2>3
  <2>4. CASE p[1] = Sources
    BY <1>2, <2>2, <2>4
  <2> QED BY <2>3, <2>4
<1>4. \A p \in Procs : p = <<p[1], p[2]>> /\ p[2] \in Nat
  BY ProcsAre
<1>5. \A p \in Procs, c \in Nat : \A g \in GroupAfter(p, c) : g \in Gids /\ p[1] < g
  <2>1. ASSUME NEW p \in Procs, NEW c \in Nat, NEW g \in GroupAfter(p, c)
        PROVE  g \in Gids /\ p[1] < g
    <3>1. p[1] = -1 /\ g = p[2] /\ p[2] < G /\ p[2] \in Nat
      BY <1>1, <1>3, <1>4
    <3> QED BY <1>1, <3>1
  <2> QED BY <2>1
<1>6. \A p, q \in Procs, i, j \in Nat : \A g \in GroupAfter(p, i) :
        g \in GroupAfter(q, j) => p = q /\ i = j
  <2>1. ASSUME NEW p \in Procs, NEW q \in Procs, NEW i \in Nat, NEW j \in Nat,
               NEW g \in GroupAfter(p, i), g \in GroupAfter(q, j)
        PROVE  p = q /\ i = j
    <3>1. p[1] = Sources /\ i = 0 /\ g = p[2] /\ q[1] = Sources /\ j = 0 /\ g = q[2]
      BY <1>3, <2>1
    <3> QED BY <1>4, <3>1
  <2> QED BY <2>1
<1>7. \A g \in Gids : \E p \in Procs, c \in Nat : g \in GroupAfter(p, c)
  <2>1. ASSUME NEW g \in Gids PROVE \E p \in Procs, c \in Nat : g \in GroupAfter(p, c)
    <3> DEFINE p == <<Sources, g>>
    <3>1. g \in 0 .. Size(Sources) - 1 /\ g < G
      BY <1>1
    <3>2. p \in Procs /\ p[1] = Sources /\ p[2] = g
      BY <3>1, ProcsAre
    <3> HIDE DEF p
    <3>3. g \in GroupAfter(p, 0)
      BY <1>3, <3>1, <3>2
    <3> QED BY <3>2, <3>3
  <2> QED BY <2>1
<1>8. \A p \in Procs, i, j \in Nat : GroupAfter(p, i) = {} /\ i <= j => GroupAfter(p, j) = {}
  <2>1. ASSUME NEW p \in Procs, NEW i \in Nat, NEW j \in Nat, GroupAfter(p, i) = {}, i <= j
        PROVE  GroupAfter(p, j) = {}
    BY <1>3, <2>1
  <2> QED BY <2>1
<1>9. \A p \in Procs, c \in Nat : \A g, h \in GroupAfter(p, c) : g = h
  BY <1>3
<1>10. \A p \in Procs, c \in Nat : GroupAfter(p, c) # {} => GroupAfter(Root(p[1]), 0) # {}
  <2>1. ASSUME NEW p \in Procs, NEW c \in Nat, GroupAfter(p, c) # {}
        PROVE  GroupAfter(Root(p[1]), 0) # {}
    <3>1. p[1] = Sources
      BY <1>3, <2>1
    <3>2. Root(Sources) \in Procs /\ Root(Sources)[1] = Sources /\ Root(Sources)[2] = 0
      BY ProcsAre DEF Root
    <3>3. GroupAfter(Root(Sources), 0) = {0}
      BY <1>1, <1>3, <3>2
    <3> QED BY <3>1, <3>3
  <2> QED BY <2>1
<1> QED BY <1>5, <1>6, <1>7, <1>8, <1>9, <1>10 DEF Plan

(* Every launch of the Parallel strategy that fits has a plan: the          *)
(* processes work out their spawns without asking each other                *)
(* (hypercube_spawn, diffusive_iterative_spawn), and each group has one     *)
(* spawner.                                                                 *)
THEOREM PlanHolds ==
  ASSUME Launch, Parallel
  PROVE  Plan
<1>1. CASE ~Homogeneous(shape.size)
  BY <1>1, DiffusivePlan
<1>2. CASE Homogeneous(shape.size)
  <2> DEFINE n == shape.size[0] * shape.init_nodes
  <2>1. shape.numP = n \/ (G <= shape.numP /\ G <= n)
    BY <1>2 DEF Launch, Fitting, Parallel, HypercubeFits, G
  <2>2. G \in Nat /\ shape.numP \in Nat
    BY LaunchIs
  <2>3. CASE shape.numP = n /\ G > shape.numP
    BY <1>2, <2>3, CubePlan DEF Full
  <2>4. CASE ~ (shape.numP = n /\ G > shape.numP)
    <3>1. G <= shape.numP /\ G <= n
      <4> HIDE DEF n
      <4> QED BY <2>1, <2>2, <2>4
    <3> QED BY <1>2, <3>1, SourcesPlan
  <2> QED BY <2>3, <2>4
<1> QED BY <1>1, <1>2

-----------------------------------------------------------------------------
(* Types.                                                                   *)

Teams == [st : {"none", "tree", "joined"}, cnt : Nat, members : Seq(Gids)]

Types ==
  /\ made \in [Gids -> Nat] /\ parent \in [Gids -> Procs] /\ k \in [Procs -> Nat]
  /\ opened \in [Gids \cup {Sources} -> BOOLEAN] /\ sent \in [Gids \cup {Sources} -> BOOLEAN]
  /\ up \in [Gids -> BOOLEAN] /\ down \in [Gids -> BOOLEAN] /\ disc \in [Gids -> BOOLEAN]
  /\ team \in [Gids -> Teams]
  /\ told \in Nat /\ tokens \in Nat /\ over \in BOOLEAN

(* The launch does not change, nor what follows from it alone.              *)
LEMMA Stays ==
  ASSUME UNCHANGED <<shape, mine>>
  PROVE  /\ G' = G /\ Gids' = Gids /\ Procs' = Procs /\ Parallel' = Parallel /\ Launch' = Launch
         /\ \A g : Ranks(g)' = Ranks(g) /\ Size(g)' = Size(g)
         /\ \A p, c : GroupAfter(p, c)' = GroupAfter(p, c)
         /\ \A p : NextGroup(p)' = GroupAfter(p, k'[p])
         /\ Teams' = Teams /\ Plan' = Plan
<1>1. /\ G' = G /\ Gids' = Gids /\ Procs' = Procs /\ Parallel' = Parallel
      /\ \A g : Ranks(g)' = Ranks(g) /\ Size(g)' = Size(g)
  BY DEF G, Gids, Procs, Parallel, Ranks, Size
<1>2. /\ \A g : SizeBefore(g)' = SizeBefore(g)
      /\ \A g : FirstStep(g)' = FirstStep(g)
  BY <1>1 DEF SizeBefore, FirstStep
<1>3. \A p : ExpId(p)' = ExpId(p)
  BY <1>2 DEF ExpId
<1>4. \A p, c : HypercubeNext(p, c)' = HypercubeNext(p, c)
  BY <1>2 DEF HypercubeNext
<1>5. \A p, c : GroupAfter(p, c)' = GroupAfter(p, c)
  BY <1>1, <1>4 DEF GroupAfter, Homogeneous
<1>6. \A g : Slot(g)' = Slot(g)
  BY ZenonT(100), <1>1, <1>2 DEF Slot
<1>7. DiffusiveGroups' = DiffusiveGroups
  BY <1>1, <1>3, <1>6 DEF DiffusiveGroups
<1>8. Launch' = Launch
  BY <1>1, <1>7 DEF Launch, Fitting, Homogeneous, HypercubeFits, Shapes
<1>9. Teams' = Teams /\ Plan' = Plan
  BY <1>1, <1>5 DEF Teams, Plan, Root
<1>10. \A p : NextGroup(p)' = GroupAfter(p, k'[p])
  BY <1>1, <1>2 DEF NextGroup, GroupAfter, HypercubeNext, Homogeneous
<1> QED BY <1>1, <1>5, <1>8, <1>9, <1>10

(* Every step leaves the launch alone.                                      *)
LEMMA LaunchStays ==
  ASSUME [Next]_vars
  PROVE  UNCHANGED <<shape, mine>>
BY DEF Next, Step, Done, vars, OpenPort, SendDown, Spawn, SendUp, Disconnect, CarryOver, Merge,
       SpawnSet, Join, ConnectSources, Tell, OpenFirst, JoinSources

(* A launch goes on fitting.                                                *)
LEMMA FitsOn ==
  ASSUME [Next]_vars
  PROVE  Fitting(shape)' = Fitting(shape)
BY LaunchStays

(* The types hold in the initial states, of launches that fit.              *)
LEMMA InitTypes ==
  ASSUME Fitting(shape), Init
  PROVE  Launch /\ Types
<1>1. Launch
  BY DEF Init, Launch
<1>2. Types
  <2>1. Root(Sources) \in Procs
    BY <1>1, ProcsAre
  <2>2. NoTeam \in Teams
    <3>1. << >> \in Seq(Gids)
      OBVIOUS
    <3> QED BY <3>1 DEF NoTeam, Teams
  <2> QED BY <2>1, <2>2 DEF Init, Types
<1> QED BY <1>1, <1>2

(* Each step keeps the launch and the types.                                *)
LEMMA NextTypes ==
  ASSUME Launch, Types, [Next]_vars
  PROVE  Launch' /\ Types'
<1>1. UNCHANGED <<shape, mine>>
  BY LaunchStays
<1>2. /\ Launch' = Launch /\ Gids' = Gids /\ Procs' = Procs /\ Teams' = Teams
      /\ G \in Nat /\ Gids = 0 .. G - 1 /\ Sources = -1
  BY <1>1, Stays, LaunchIs
<1> USE DEF Types
<1>3. ASSUME NEW g \in Gids \cup {Sources}, OpenPort(g) \/ SendDown(g) PROVE Types'
  BY <1>2, <1>3 DEF OpenPort, SendDown
<1>4. ASSUME NEW p \in Procs, Spawn(p) PROVE Types'
  <2>1. PICK g \in NextGroup(p) : /\ made' = [made EXCEPT ![g] = @ + 1]
                                  /\ parent' = [parent EXCEPT ![g] = p]
    BY <1>4 DEF Spawn
  <2>2. k' = [k EXCEPT ![p] = @ + 1]
        /\ UNCHANGED <<opened, up, down, sent, disc, team, told, tokens, over>>
    BY <1>4 DEF Spawn
  <2>3. made' \in [Gids -> Nat]
    <3>1. g \in Gids => made[g] + 1 \in Nat
      OBVIOUS
    <3> QED BY <2>1, <3>1
  <2>4. parent' \in [Gids -> Procs]
    BY <2>1
  <2>5. k' \in [Procs -> Nat]
    <3>1. k[p] + 1 \in Nat
      OBVIOUS
    <3> QED BY <2>2, <3>1
  <2> QED BY <1>2, <2>2, <2>3, <2>4, <2>5
<1>5. ASSUME NEW g \in Gids, SendUp(g) PROVE Types'
  BY <1>2, <1>5 DEF SendUp
<1>6. ASSUME NEW g \in Gids, Disconnect(g) PROVE Types'
  <2>1. [st |-> "tree", cnt |-> G, members |-> <<g>>] \in Teams
    <3>1. <<g>> \in Seq(Gids)
      OBVIOUS
    <3> QED BY <1>2, <3>1 DEF Teams
  <2>2. team' \in [Gids -> Teams] /\ disc' \in [Gids -> BOOLEAN]
    BY <2>1, <1>6 DEF Disconnect
  <2> QED BY <1>2, <2>2, <1>6 DEF Disconnect
<1>7. ASSUME NEW g \in Gids, CarryOver(g) PROVE Types'
  <2>1. team[g].cnt \in Nat /\ NewGroups(team[g].cnt) \in Nat
    BY DEF NewGroups, Teams
  <2>2. [team[g] EXCEPT !.cnt = NewGroups(@)] \in Teams
    BY <2>1 DEF Teams
  <2>3. team' = [team EXCEPT ![g] = [team[g] EXCEPT !.cnt = NewGroups(@)]]
    BY <1>7 DEF CarryOver
  <2>4. team' \in [Gids -> Teams]
    BY <2>2, <2>3
  <2> QED BY <1>2, <2>4, <1>7 DEF CarryOver
<1>8. ASSUME NEW h \in Gids, Merge(h) PROVE Types'
  <2> DEFINE g == Partner(h)
             n == [st |-> "tree", cnt |-> NextRound(g, h),
                   members |-> team[g].members \o team[h].members]
             t == [team EXCEPT ![g] = n]
  <2>1. t \in [Gids -> Teams]
    <3>1. CASE g \in Gids
      <4>1. team[g] \in Teams /\ team[h] \in Teams
        BY <3>1
      <4>2. NextRound(g, h) \in Nat /\ team[g].members \o team[h].members \in Seq(Gids)
        BY <4>1 DEF Teams, NextRound, NewGroups
      <4> HIDE DEF g
      <4>3. n \in Teams
        BY <4>2 DEF Teams
      <4> HIDE DEF n
      <4> QED BY <4>3
    <3>2. CASE g \notin Gids
      <4> HIDE DEF g, n
      <4> QED BY <3>2
    <3> QED BY <3>1, <3>2
  <2>2. team' = [t EXCEPT ![h].st = "joined"]
    BY <1>8, Zenon DEF Merge
  <2>3. team' \in [Gids -> Teams]
    <3> HIDE DEF t
    <3>1. [t[h] EXCEPT !.st = "joined"] \in Teams
      BY <2>1 DEF Teams
    <3>2. team' = [t EXCEPT ![h] = [t[h] EXCEPT !.st = "joined"]]
      BY <2>2
    <3> QED BY <2>1, <3>1, <3>2
  <2> QED BY <1>2, <2>3, <1>8 DEF Merge
<1>9. ASSUME NEW g \in Gids, SpawnSet(g) PROVE Types'
  BY <1>2, <1>9 DEF SpawnSet
<1>10. CASE OpenFirst
  <2>1. [st |-> "tree", cnt |-> 1, members |-> <<0>>] \in Teams
    <3>1. 0 \in Gids
      BY LaunchIs
    <3>2. <<0>> \in Seq(Gids)
      BY <3>1
    <3> QED BY <3>2 DEF Teams
  <2>2. team' \in [Gids -> Teams]
    BY <2>1, <1>10 DEF OpenFirst
  <2> QED BY <1>2, <2>2, <1>10 DEF OpenFirst
<1>11. ASSUME NEW g \in Gids, Join(g) PROVE Types'
  <2>1. 0 \in Gids
    BY LaunchIs
  <2> DEFINE a == [team[0] EXCEPT !.members = Append(@, g), !.cnt = @ + 1]
             b == [team[g] EXCEPT !.st = "joined"]
  <2>2. g # 0
    BY <1>2, <1>11 DEF Join
  <2>3. a \in Teams /\ b \in Teams
    <3>1. team[0] \in Teams /\ team[g] \in Teams
      BY <2>1
    <3>2. Append(team[0].members, g) \in Seq(Gids) /\ team[0].cnt + 1 \in Nat
      BY <3>1 DEF Teams
    <3> QED BY <3>1, <3>2 DEF Teams
  <2>4. team' = [team EXCEPT ![0] = a, ![g] = b]
    BY <1>11, <2>1, <2>2 DEF Join
  <2>5. team' \in [Gids -> Teams]
    <3> HIDE DEF a, b
    <3> QED BY <2>1, <2>3, <2>4
  <2>6. /\ tokens' \in Nat
        /\ UNCHANGED <<made, parent, k, opened, up, down, sent, disc, told, over>>
    BY <1>11 DEF Join
  <2> QED BY <1>2, <2>5, <2>6
<1>12. CASE Tell
  BY <1>2, <1>12 DEF Tell
<1>13. CASE ConnectSources \/ JoinSources
  BY <1>2, <1>13 DEF ConnectSources, JoinSources
<1>14. CASE UNCHANGED vars
  BY <1>2, <1>14 DEF vars
<1>15. Types'
  BY <1>3, <1>4, <1>5, <1>6, <1>7, <1>8, <1>9, <1>10, <1>11, <1>12, <1>13, <1>14
  DEF Next, Step, Done
<1> QED BY <1>2, <1>15

-----------------------------------------------------------------------------
(* The groups spawned.                                                      *)

(* Parallel: what exists are the groups that its processes have spawned so  *)
(* far, each from the plan of the process.  Multiple: the sources spawn     *)
(* every group at most once.                                                *)
Spawned ==
  IF Parallel
    THEN /\ \A g \in Gids : made[g] > 0 =>
              made[g] = 1 /\ \E c \in 0 .. k[parent[g]] - 1 : g \in GroupAfter(parent[g], c)
         /\ \A p \in Procs : \A c \in 0 .. k[p] - 1 : \A g \in GroupAfter(p, c) :
              made[g] = 1 /\ parent[g] = p
    ELSE \A g \in Gids : made[g] <= 1

(* Only spawning changes what exists.                                       *)
LEMMA SpawnSteps ==
  ASSUME [Next]_vars
  PROVE  \/ UNCHANGED <<made, parent, k>>
         \/ \E p \in Procs : Spawn(p)
         \/ \E g \in Gids : SpawnSet(g)
BY DEF Next, Step, Done, vars, OpenPort, SendDown, SendUp, Disconnect, CarryOver, Merge,
       Join, ConnectSources, Tell, OpenFirst, JoinSources

(* A process spawns the next group of its plan, which does not exist.       *)
LEMMA SpawnIs ==
  ASSUME Launch, Types, Spawned, NEW p \in Procs, Spawn(p)
  PROVE  /\ Parallel
         /\ \E g \in GroupAfter(p, k[p]) :
              /\ g \in Gids /\ made[g] = 0
              /\ made' = [made EXCEPT ![g] = 1] /\ parent' = [parent EXCEPT ![g] = p]
         /\ k' = [k EXCEPT ![p] = k[p] + 1]
<1>1. Parallel /\ k' = [k EXCEPT ![p] = k[p] + 1] /\ Plan
  BY PlanHolds DEF Spawn
<1>2. PICK g \in GroupAfter(p, k[p]) :
        made' = [made EXCEPT ![g] = @ + 1] /\ parent' = [parent EXCEPT ![g] = p]
  BY DEF Spawn, NextGroup
<1>3. k[p] \in Nat
  BY DEF Types
<1>4. g \in Gids
  BY <1>1, <1>3 DEF Plan
<1>5. made[g] = 0
  <2>1. SUFFICES ASSUME made[g] > 0 PROVE FALSE
    BY <1>4 DEF Types
  <2>2. PICK c \in 0 .. k[parent[g]] - 1 : g \in GroupAfter(parent[g], c)
    BY <1>1, <1>4, <2>1 DEF Spawned
  <2>3. parent[g] \in Procs /\ k[parent[g]] \in Nat
    BY <1>4 DEF Types
  <2>4. c \in Nat /\ c < k[parent[g]]
    BY <2>3
  <2>5. parent[g] = p /\ c = k[p]
    BY <1>1, <1>3, <2>2, <2>3, <2>4 DEF Plan
  <2> QED BY <1>3, <2>4, <2>5
<1>6. made' = [made EXCEPT ![g] = 1]
  BY <1>2, <1>5
<1> QED BY <1>1, <1>2, <1>4, <1>5, <1>6

(* Each step keeps the account of the groups spawned.                       *)
LEMMA NextSpawned ==
  ASSUME Launch, Types, Spawned, [Next]_vars
  PROVE  Spawned'
<1>1. UNCHANGED <<shape, mine>>
  BY LaunchStays
<1>2. /\ Parallel' = Parallel /\ Gids' = Gids /\ Procs' = Procs
      /\ \A p, c : GroupAfter(p, c)' = GroupAfter(p, c)
  BY <1>1, Stays
<1>3. CASE UNCHANGED <<made, parent, k>>
  BY <1>2, <1>3 DEF Spawned
<1>4. ASSUME NEW p \in Procs, Spawn(p) PROVE Spawned'
  <2>1. Parallel /\ k' = [k EXCEPT ![p] = k[p] + 1] /\ Plan
    BY <1>4, SpawnIs, PlanHolds
  <2>2. PICK g \in GroupAfter(p, k[p]) :
          /\ g \in Gids /\ made[g] = 0
          /\ made' = [made EXCEPT ![g] = 1] /\ parent' = [parent EXCEPT ![g] = p]
    BY <1>4, SpawnIs
  <2>3. k[p] \in Nat /\ k'[p] = k[p] + 1 /\ \A q \in Procs : q # p => k'[q] = k[q]
    BY <2>1 DEF Types
  <2>4. /\ made'[g] = 1 /\ parent'[g] = p
        /\ \A h \in Gids : h # g => made'[h] = made[h] /\ parent'[h] = parent[h]
    BY <2>2 DEF Types
  <2>5. ASSUME NEW h \in Gids, made'[h] > 0
        PROVE  made'[h] = 1 /\ \E c \in 0 .. k'[parent'[h]] - 1 : h \in GroupAfter(parent'[h], c)
    <3>1. CASE h = g
      <4>1. k[p] \in 0 .. k'[p] - 1
        BY <2>3
      <4> QED BY <2>2, <2>4, <3>1, <4>1
    <3>2. CASE h # g
      <4>1. made'[h] = made[h] /\ parent'[h] = parent[h] /\ made[h] > 0
        BY <2>4, <2>5, <3>2
      <4>2. made[h] = 1 /\ \E c \in 0 .. k[parent[h]] - 1 : h \in GroupAfter(parent[h], c)
        BY <2>1, <4>1 DEF Spawned
      <4>3. \A c \in 0 .. k[parent[h]] - 1 : c \in 0 .. k'[parent[h]] - 1
        <5>1. parent[h] \in Procs
          BY DEF Types
        <5> QED BY <2>3, <5>1
      <4> QED BY <4>1, <4>2, <4>3
    <3> QED BY <3>1, <3>2
  <2>6. ASSUME NEW q \in Procs, NEW c \in 0 .. k'[q] - 1, NEW h \in GroupAfter(q, c)
        PROVE  made'[h] = 1 /\ parent'[h] = q
    <3>1. CASE q = p /\ c = k[p]
      <4>1. h = g
        BY <2>1, <2>2, <2>3, <3>1 DEF Plan
      <4> QED BY <2>4, <3>1, <4>1
    <3>2. CASE ~ (q = p /\ c = k[p])
      <4>1. c \in 0 .. k[q] - 1 /\ c \in Nat
        <5>1. k[q] \in Nat
          BY DEF Types
        <5> QED BY <2>3, <3>2, <5>1
      <4>2. made[h] = 1 /\ parent[h] = q
        BY <2>1, <4>1 DEF Spawned
      <4>3. h \in Gids
        BY <2>1, <4>1 DEF Plan
      <4> QED BY <2>2, <2>4, <4>2, <4>3
    <3> QED BY <3>1, <3>2
  <2> QED BY <1>2, <2>1, <2>5, <2>6 DEF Spawned
<1>5. ASSUME NEW g \in Gids, SpawnSet(g) PROVE Spawned'
  <2>1. ~Parallel /\ made' = [made EXCEPT ![g] = 1]
    BY <1>5 DEF SpawnSet
  <2>2. \A h \in Gids : made'[h] <= 1
    BY <2>1 DEF Types, Spawned
  <2> QED BY <1>2, <2>1, <2>2 DEF Spawned
<1> QED BY <1>3, <1>4, <1>5, SpawnSteps

(* No group exists yet, and no process has spawned one.                     *)
LEMMA InitSpawned ==
  ASSUME Fitting(shape), Init
  PROVE  Spawned
<1>1. (\A g \in Gids : made[g] = 0) /\ (\A p \in Procs : k[p] = 0)
  BY DEF Init
<1> QED BY <1>1 DEF Spawned

(* In the launches that fit no group is spawned twice, although the         *)
(* processes do not ask each other: any number of groups of different       *)
(* sizes, and hypercubes whose sources are as many per node as their        *)
(* children, or enough to spawn all groups.                                 *)
THEOREM SpawnedOnce ==
  Spec => [](Fitting(shape) => EachGroupOnce)
<1> DEFINE Inv == Launch /\ Types /\ Spawned
<1>1. Init => (Fitting(shape) => Inv)
  BY InitTypes, InitSpawned
<1>2. (Fitting(shape) => Inv) /\ [Next]_vars => (Fitting(shape) => Inv)'
  BY NextTypes, NextSpawned, FitsOn
<1>3. Inv => EachGroupOnce
  BY DEF Spawned, EachGroupOnce, Types
<1> HIDE DEF Inv
<1> QED BY <1>1, <1>2, <1>3, PTL DEF Spec

-----------------------------------------------------------------------------
(* The tokens of common_synch.                                              *)

(* A group that has sent its token up has those of all groups it has        *)
(* spawned, and nobody answers before the sources do.                       *)
Messages ==
  IF Parallel
    THEN /\ \A g \in Gids : up[g] => Barrier(g)
         /\ \A g \in Gids \cup {Sources} : sent[g] => Barrier(g) /\ sent[Sources]
         /\ \A g \in Gids : down[g] => sent[Sources]
         /\ \A g \in Gids : disc[g] => down[g]
    ELSE \A g \in Gids : ~disc[g]

(* Ports stay open and tokens are not taken back.                           *)
LEMMA TokensStay ==
  ASSUME Types, [Next]_vars
  PROVE  /\ \A g \in Gids \cup {Sources} : opened[g] => opened'[g]
         /\ \A g \in Gids : up[g] => up'[g]
<1>1. \A g \in Gids \cup {Sources} : opened[g] => opened'[g]
  <2>1. UNCHANGED opened \/ (\E g : opened' = [opened EXCEPT ![g] = TRUE])
    BY DEF Next, Step, Done, vars, OpenPort, SendDown, Spawn, SendUp, Disconnect, CarryOver,
           Merge, SpawnSet, Join, ConnectSources, Tell, OpenFirst, JoinSources
  <2> QED BY <2>1 DEF Types
<1>2. \A g \in Gids : up[g] => up'[g]
  <2>1. UNCHANGED up \/ (\E g : up' = [up EXCEPT ![g] = TRUE])
    BY DEF Next, Step, Done, vars, OpenPort, SendDown, Spawn, SendUp, Disconnect, CarryOver,
           Merge, SpawnSet, Join, ConnectSources, Tell, OpenFirst, JoinSources
  <2> QED BY <2>1 DEF Types
<1> QED BY <1>1, <1>2

(* A group whose loops are over spawns no more, so that what it has of      *)
(* its groups is there to stay.                                             *)
LEMMA BarrierStays ==
  ASSUME Launch, Types, Spawned, [Next]_vars, Parallel,
         NEW g \in Gids \cup {Sources}, Barrier(g)
  PROVE  Barrier(g)' /\ SpawnedBy(g)' = SpawnedBy(g)
<1>1. /\ Gids' = Gids /\ Procs' = Procs
      /\ \A p : NextGroup(p)' = GroupAfter(p, k'[p])
      /\ \A i : Ranks(i)' = Ranks(i)
  BY LaunchStays, Stays
<1>2. /\ Exists(g) /\ opened[g] /\ (\A p \in Ranks(g) : GroupAfter(p, k[p]) = {})
      /\ \A m \in SpawnedBy(g) : up[m]
  BY DEF Barrier, SplitOver, NextGroup
<1>3. opened'[g] /\ \A m \in Gids : up[m] => up'[m]
  BY <1>2, TokensStay
<1>4. CASE UNCHANGED <<made, parent, k>>
  <2>1. Exists(g)' /\ SpawnedBy(g)' = SpawnedBy(g)
    BY <1>1, <1>2, <1>4 DEF Exists, SpawnedBy
  <2>2. \A p \in Ranks(g) : NextGroup(p)' = {}
    BY <1>1, <1>2, <1>4
  <2>3. \A m \in SpawnedBy(g) : m \in Gids
    BY DEF SpawnedBy
  <2> QED BY <1>1, <1>2, <1>3, <2>1, <2>2, <2>3 DEF Barrier, SplitOver
<1>5. ASSUME NEW p \in Procs, Spawn(p) PROVE Barrier(g)' /\ SpawnedBy(g)' = SpawnedBy(g)
  <2>1. k' = [k EXCEPT ![p] = k[p] + 1]
    BY <1>5, SpawnIs
  <2>2. PICK h \in GroupAfter(p, k[p]) :
          /\ h \in Gids /\ made[h] = 0
          /\ made' = [made EXCEPT ![h] = 1] /\ parent' = [parent EXCEPT ![h] = p]
    BY <1>5, SpawnIs
  <2>3. p \notin Ranks(g) /\ p[1] # g
    BY <1>2, <2>2, ProcsAre
  <2>4. SpawnedBy(g)' = SpawnedBy(g)
    <3>1. ASSUME NEW m \in Gids
          PROVE  made'[m] > 0 /\ parent'[m][1] = g <=> made[m] > 0 /\ parent[m][1] = g
      BY <2>2, <2>3 DEF Types
    <3> QED BY <1>1, <3>1 DEF SpawnedBy
  <2>5. Exists(g)'
    <3>1. g # Sources => made'[g] > 0
      BY <1>2, <2>2 DEF Types, Exists
    <3> QED BY <3>1 DEF Exists
  <2>6. \A q \in Ranks(g) : k'[q] = k[q]
    <3>1. \A q \in Ranks(g) : q \in Procs /\ q # p
      BY <2>3, ProcsAre
    <3> QED BY <2>1, <3>1 DEF Types
  <2>7. \A q \in Ranks(g) : NextGroup(q)' = {}
    BY <1>1, <1>2, <2>6
  <2>8. \A m \in SpawnedBy(g) : m \in Gids
    BY DEF SpawnedBy
  <2> QED BY <1>1, <1>2, <1>3, <2>4, <2>5, <2>7, <2>8 DEF Barrier, SplitOver
<1>6. ~ \E h \in Gids : SpawnSet(h)
  BY DEF SpawnSet
<1> QED BY <1>4, <1>5, <1>6, SpawnSteps

(* A root that has spawned nothing speaks for a group that has not either.  *)
LEMMA NoneSpawned ==
  ASSUME Launch, Types, Spawned, Parallel, NEW g \in Gids \cup {Sources}, SplitOver(g),
         ~RootSpawns(g)
  PROVE  SpawnedBy(g) = {}
<1>1. Plan /\ Root(g) \in Procs /\ Root(g) \in Ranks(g) /\ k[Root(g)] = 0
  BY PlanHolds, ProcsAre DEF RootSpawns, Types
<1>2. GroupAfter(Root(g), 0) = {}
  BY <1>1 DEF SplitOver, NextGroup
<1>3. ASSUME NEW m \in Gids, made[m] > 0, parent[m][1] = g PROVE FALSE
  <2>1. parent[m] \in Procs /\ k[parent[m]] \in Nat
    BY DEF Types
  <2>2. PICK c \in 0 .. k[parent[m]] - 1 : m \in GroupAfter(parent[m], c)
    BY <1>3 DEF Spawned
  <2>3. c \in Nat /\ GroupAfter(parent[m], c) # {}
    BY <2>1, <2>2
  <2>4. GroupAfter(Root(parent[m][1]), 0) # {}
    BY <1>1, <2>1, <2>3 DEF Plan
  <2> QED BY <1>2, <1>3, <2>4
<1> QED BY <1>3 DEF SpawnedBy

(* The steps that send a token or end a connection.                         *)
LEMMA TokenSteps ==
  ASSUME [Next]_vars
  PROVE  \/ UNCHANGED <<up, down, sent, disc>>
         \/ \E g \in Gids : SendUp(g)
         \/ \E g \in Gids \cup {Sources} : SendDown(g)
         \/ \E g \in Gids : Disconnect(g)
BY DEF Next, Step, Done, vars, OpenPort, Spawn, CarryOver, Merge, SpawnSet, Join,
       ConnectSources, Tell, OpenFirst, JoinSources

(* Each step keeps the account of the tokens.                               *)
LEMMA NextMessages ==
  ASSUME Launch, Types, Spawned, Messages, [Next]_vars
  PROVE  Messages'
<1>1. Gids' = Gids /\ Parallel' = Parallel /\ Sources' = Sources
  BY LaunchStays, Stays DEF Sources
<1>2. CASE ~Parallel
  <2>1. UNCHANGED disc
    BY <1>2 DEF Next, Step, Done, vars, OpenPort, SendDown, Spawn, SendUp, Disconnect,
      CarryOver, Merge, SpawnSet, Join, ConnectSources, Tell, OpenFirst, JoinSources, Connects,
      Accepts, InTree
  <2> QED BY <1>1, <1>2, <2>1 DEF Messages
<1>3. CASE Parallel
  <2>1. \A g \in Gids \cup {Sources} : Barrier(g) => Barrier(g)'
    BY <1>3, BarrierStays
  <2>2. /\ \A g \in Gids : up[g] => Barrier(g)
        /\ \A g \in Gids \cup {Sources} : sent[g] => Barrier(g) /\ sent[Sources]
        /\ \A g \in Gids : down[g] => sent[Sources]
        /\ \A g \in Gids : disc[g] => down[g]
    BY <1>3 DEF Messages
  <2>3. CASE UNCHANGED <<up, down, sent, disc>>
    BY <1>1, <1>3, <2>1, <2>2, <2>3 DEF Messages
  <2>4. ASSUME NEW g \in Gids, SendUp(g) PROVE Messages'
    <3>1. SplitOver(g) /\ (RootSpawns(g) => Barrier(g)) /\ up' = [up EXCEPT ![g] = TRUE]
          /\ UNCHANGED <<down, sent, disc>>
      BY <2>4 DEF SendUp
    <3>2. Barrier(g)
      <4>1. CASE RootSpawns(g)
        BY <3>1, <4>1
      <4>2. CASE ~RootSpawns(g)
        <5>1. SpawnedBy(g) = {}
          BY <1>3, <3>1, <4>2, NoneSpawned
        <5> QED BY <3>1, <5>1 DEF Barrier
      <4> QED BY <4>1, <4>2
    <3>3. \A h \in Gids : up'[h] => Barrier(h)
      BY <2>2, <3>1, <3>2 DEF Types
    <3> QED BY <1>1, <1>3, <2>1, <2>2, <3>1, <3>3 DEF Messages
  <2>5. ASSUME NEW g \in Gids \cup {Sources}, SendDown(g) PROVE Messages'
    <3>1. /\ SpawnedBy(g) # {} /\ Barrier(g) /\ (g # Sources /\ RootSpawns(g) => down[g])
          /\ down' = [m \in Gids |-> down[m] \/ m \in SpawnedBy(g)]
          /\ sent' = [sent EXCEPT ![g] = TRUE] /\ UNCHANGED <<up, disc>>
      BY <2>5 DEF SendDown
    <3>2. g # Sources => sent[Sources]
      <4>1. SUFFICES ASSUME g # Sources PROVE sent[Sources]
        OBVIOUS
      <4>2. RootSpawns(g)
        BY <1>3, <3>1, NoneSpawned DEF Barrier
      <4> QED BY <2>2, <3>1, <4>1, <4>2
    <3>3. sent'[Sources] /\ \A h \in Gids \cup {Sources} : sent'[h] => sent[h] \/ h = g
      BY <3>1, <3>2 DEF Types
    <3>4. \A h \in Gids : down[h] => down'[h]
      BY <3>1
    <3> QED BY <1>1, <1>3, <2>1, <2>2, <3>1, <3>3, <3>4 DEF Messages
  <2>6. ASSUME NEW g \in Gids, Disconnect(g) PROVE Messages'
    <3>1. down[g] /\ disc' = [disc EXCEPT ![g] = TRUE] /\ UNCHANGED <<up, down, sent>>
      BY <2>6 DEF Disconnect
    <3>2. \A h \in Gids : disc'[h] => down[h]
      BY <2>2, <3>1 DEF Types
    <3> QED BY <1>1, <1>3, <2>1, <2>2, <3>1, <3>2 DEF Messages
  <2> QED BY <2>3, <2>4, <2>5, <2>6, TokenSteps
<1> QED BY <1>2, <1>3

(* No token is under way.                                                   *)
LEMMA InitMessages ==
  ASSUME Fitting(shape), Init
  PROVE  Messages
<1>1. /\ \A g \in Gids : ~up[g] /\ ~down[g] /\ ~disc[g]
      /\ \A g \in Gids \cup {Sources} : ~sent[g]
  BY DEF Init
<1> QED BY <1>1 DEF Messages

(* When the sources have answered, every group exists, with the token of    *)
(* its root sent: the plan reaches it through earlier groups.               *)
LEMMA AllUp ==
  ASSUME Launch, Types, Spawned, Messages, Parallel, sent[Sources]
  PROVE  \A g \in Gids : made[g] = 1 /\ up[g]
<1>1. Plan /\ Gids = 0 .. G - 1 /\ Sources = -1
  BY PlanHolds, LaunchIs
<1> DEFINE T == {g \in Gids : ~ (made[g] = 1 /\ up[g])}
<1>2. SUFFICES ASSUME T # {} PROVE FALSE
  OBVIOUS
<1>3. T \in SUBSET Nat
  BY <1>1
<1>4. PICK g \in T : \A y \in T : g <= y
  <2> HIDE DEF T
  <2> QED BY <1>2, <1>3, Least
<1>5. PICK p \in Procs : \E c \in Nat : g \in GroupAfter(p, c)
  BY <1>1, <1>4 DEF Plan
<1>6. PICK c \in Nat : g \in GroupAfter(p, c)
  BY <1>5
<1>7. p[1] < g /\ p[1] \in Gids \cup {Sources} /\ p \in Ranks(p[1])
  BY <1>1, <1>6, ProcsAre DEF Plan
<1>8. Barrier(p[1])
  <2>1. CASE p[1] = Sources
    BY <2>1 DEF Messages
  <2>2. CASE p[1] # Sources
    <3>1. p[1] \in Gids /\ p[1] \notin T
      <4>1. p[1] \in Int /\ g \in Int /\ p[1] \in Gids
        BY <1>1, <1>4, <1>7, <2>2
      <4> QED BY <1>4, <1>7, <4>1
    <3>2. up[p[1]]
      BY <3>1
    <3> QED BY <3>1, <3>2 DEF Messages
  <2> QED BY <2>1, <2>2
<1>9. GroupAfter(p, k[p]) = {} /\ k[p] \in Nat
  BY <1>7, <1>8 DEF Barrier, SplitOver, NextGroup, Types
<1>10. ~ k[p] <= c
  BY <1>1, <1>6, <1>9 DEF Plan
<1>11. made[g] = 1 /\ parent[g] = p
  <2>1. c \in 0 .. k[p] - 1
    BY <1>9, <1>10
  <2> QED BY <1>6, <2>1 DEF Spawned
<1>12. up[g]
  BY <1>4, <1>7, <1>8, <1>11 DEF Barrier, SpawnedBy
<1> QED BY <1>4, <1>11, <1>12

(* No group is disconnected from its parent, and so none connects to        *)
(* another, before every group exists and has opened its port               *)
(* (common_synch), in any launch that fits.                                 *)
THEOREM ExistFirst ==
  Spec => [](Fitting(shape) => AllExistFirst)
<1> DEFINE Inv == Launch /\ Types /\ Spawned /\ Messages
<1>1. Init => (Fitting(shape) => Inv)
  BY InitTypes, InitSpawned, InitMessages
<1>2. (Fitting(shape) => Inv) /\ [Next]_vars => (Fitting(shape) => Inv)'
  BY NextTypes, NextSpawned, NextMessages, FitsOn
<1>3. ASSUME Inv, NEW g \in Gids, disc[g], NEW m \in Gids PROVE made[m] = 1 /\ opened[m]
  <2>1. Parallel /\ sent[Sources]
    BY <1>3 DEF Messages
  <2>2. made[m] = 1 /\ up[m]
    BY <1>3, <2>1, AllUp
  <2>3. opened[m]
    BY <1>3, <2>1, <2>2 DEF Messages, Barrier, SplitOver
  <2> QED BY <2>2, <2>3
<1>4. Inv => AllExistFirst
  BY <1>3 DEF AllExistFirst
<1> HIDE DEF Inv
<1> QED BY <1>1, <1>2, <1>4, PTL DEF Spec

-----------------------------------------------------------------------------
(* The rounds of binary_tree_connection.                                    *)

(* Half of the teams of a round accept or go on, the other half connect.    *)
LEMMA Halves ==
  ASSUME NEW c \in Nat
  PROVE  /\ Middle(c) \in Nat /\ NewGroups(c) \in Nat /\ Middle(c) + NewGroups(c) = c
         /\ Middle(c) <= NewGroups(c) /\ NewGroups(c) <= Middle(c) + 1
         /\ c > 1 => NewGroups(c) < c
         /\ c >= 1 => NewGroups(c) >= 1
BY DEF Middle, NewGroups

(* A larger round is followed by a larger one.                              *)
LEMMA HalvesGrow ==
  ASSUME NEW c \in Nat, NEW d \in Nat, c <= d
  PROVE  NewGroups(c) <= NewGroups(d) /\ Middle(c) <= Middle(d)
BY DEF Middle, NewGroups

(* The numbers of teams from the first round on.                            *)
Rounds ==
  {c \in 1 .. G : \A S \in SUBSET (1 .. G) :
     (G \in S /\ \A x \in S : NewGroups(x) \in S) => c \in S}

(* The rounds are those that follow from the first one.                     *)
LEMMA RoundsAre ==
  ASSUME Launch
  PROVE  /\ Rounds \in SUBSET Nat /\ G \in Rounds /\ G \in Nat
         /\ \A c \in Rounds : c \in Nat /\ 1 <= c /\ c <= G /\ NewGroups(c) \in Rounds
         /\ \A S \in SUBSET Rounds : (G \in S /\ \A x \in S : NewGroups(x) \in S) => S = Rounds
<1>1. G \in Nat \ {0}
  BY LaunchIs
<1>2. G \in Rounds
  BY <1>1 DEF Rounds
<1>3. ASSUME NEW c \in Rounds PROVE c \in Nat /\ 1 <= c /\ c <= G /\ NewGroups(c) \in Rounds
  <2>1. c \in Nat /\ 1 <= c /\ c <= G
    BY <1>1 DEF Rounds
  <2>2. NewGroups(c) \in 1 .. G
    <3>1. NewGroups(c) \in Nat /\ NewGroups(c) >= 1 /\ (c > 1 => NewGroups(c) < c)
      BY <2>1, Halves
    <3>2. c = 1 => NewGroups(c) = 1
      BY DEF NewGroups
    <3> QED BY <1>1, <2>1, <3>1, <3>2
  <2>3. ASSUME NEW S \in SUBSET (1 .. G), G \in S, \A x \in S : NewGroups(x) \in S
        PROVE  NewGroups(c) \in S
    BY <2>3 DEF Rounds
  <2> QED BY <2>1, <2>2, <2>3 DEF Rounds
<1>4. ASSUME NEW S \in SUBSET Rounds, G \in S, \A x \in S : NewGroups(x) \in S
      PROVE  S = Rounds
  <2>1. S \in SUBSET (1 .. G)
    BY DEF Rounds
  <2> QED BY <1>4, <2>1 DEF Rounds
<1>5. Rounds \in SUBSET Nat
  BY <1>3
<1> QED BY <1>1, <1>2, <1>3, <1>4, <1>5

(* There is no other round between one and the next.                        *)
LEMMA NoneBetween ==
  ASSUME Launch, NEW c \in Rounds, NEW d \in Rounds, d < c
  PROVE  d <= NewGroups(c)
<1> DEFINE S == {x \in Rounds : \A y \in Rounds : y >= x \/ y <= NewGroups(x)}
<1>1. /\ G \in Rounds /\ G \in Nat
      /\ \A x \in Rounds : x \in Nat /\ 1 <= x /\ x <= G /\ NewGroups(x) \in Rounds
                           /\ NewGroups(x) <= x
  <2>1. \A x \in Nat : 1 <= x => NewGroups(x) <= x
    BY DEF NewGroups
  <2> QED BY <2>1, RoundsAre
<1>2. G \in S
  <2> DEFINE D == {y \in Rounds : y >= G \/ y <= NewGroups(G)}
  <2>1. G \in D
    BY <1>1
  <2>2. ASSUME NEW y \in D PROVE NewGroups(y) \in D
    <3>1. y \in Rounds /\ y \in Nat /\ NewGroups(y) \in Rounds /\ NewGroups(y) <= y
          /\ NewGroups(y) \in Nat /\ NewGroups(G) \in Nat
      BY <1>1
    <3>2. CASE y >= G
      <4>1. y = G
        BY <1>1, <3>1, <3>2
      <4> QED BY <3>1, <4>1
    <3>3. CASE y <= NewGroups(G)
      BY <3>1, <3>3
    <3> QED BY <3>2, <3>3
  <2>3. D = Rounds
    <3>1. D \in SUBSET Rounds
      OBVIOUS
    <3> HIDE DEF D
    <3> QED BY <2>1, <2>2, <3>1, RoundsAre
  <2> QED BY <1>1, <2>3
<1>3. ASSUME NEW x \in S PROVE NewGroups(x) \in S
  <2> DEFINE e == NewGroups(x)
             D == {y \in Rounds : y >= e \/ y <= NewGroups(e)}
  <2>1. x \in Nat /\ e \in Rounds /\ e \in Nat /\ e <= x /\ x <= G /\ NewGroups(e) \in Nat
        /\ NewGroups(e) \in Rounds
    BY <1>1
  <2>2. G \in D
    BY <1>1, <2>1
  <2>3. ASSUME NEW y \in D PROVE NewGroups(y) \in D
    <3>1. y \in Rounds /\ y \in Nat /\ NewGroups(y) \in Rounds /\ NewGroups(y) <= y
          /\ NewGroups(y) \in Nat
      BY <1>1
    <3>2. y >= x \/ y <= e
      BY <3>1
    <3>3. CASE y <= NewGroups(e)
      <4> HIDE DEF e
      <4> QED BY <2>1, <3>1, <3>3
    <3>4. CASE y >= x
      <4>1. NewGroups(y) >= e
        BY <2>1, <3>1, <3>4, HalvesGrow
      <4> QED BY <3>1, <4>1
    <3>5. CASE y >= e /\ y <= e
      <4>1. y = e
        BY <2>1, <3>1, <3>5
      <4>2. NewGroups(y) = NewGroups(e)
        BY <4>1
      <4> HIDE DEF e
      <4> QED BY <2>1, <3>1, <4>2
    <3> QED BY <3>2, <3>3, <3>4, <3>5
  <2>4. D = Rounds
    <3>1. D \in SUBSET Rounds
      OBVIOUS
    <3> HIDE DEF D, e
    <3> QED BY <2>2, <2>3, <3>1, RoundsAre
  <2> HIDE DEF e
  <2>5. e \in S
    BY <2>1, <2>4
  <2> QED BY <2>5 DEF e
<1>4. S = Rounds
  <2>1. S \in SUBSET Rounds
    OBVIOUS
  <2> HIDE DEF S
  <2> QED BY <1>2, <1>3, <2>1, RoundsAre
<1>5. c \in Nat /\ d \in Nat
  BY <1>1
<1> QED BY <1>4, <1>5

(* Every group but the first connects in some round.                        *)
LEMMA ConnectsOnce ==
  ASSUME Launch, NEW h \in Gids
  PROVE  /\ h > 0 => \E c \in Rounds : NewGroups(c) <= h /\ h < c
         /\ \A c, d \in Rounds :
              NewGroups(c) <= h /\ h < c /\ NewGroups(d) <= h /\ h < d => c = d
<1>1. /\ G \in Rounds /\ G \in Nat /\ h \in Nat /\ h < G
      /\ \A x \in Rounds : x \in Nat /\ 1 <= x /\ NewGroups(x) \in Rounds
  BY RoundsAre, LaunchIs
<1>2. ASSUME h > 0 PROVE \E c \in Rounds : NewGroups(c) <= h /\ h < c
  <2> DEFINE T == {c \in Rounds : h < c}
  <2>1. T \in SUBSET Nat /\ G \in T
    BY <1>1
  <2>2. PICK c \in T : \A y \in T : c <= y
    <3> HIDE DEF T
    <3> QED BY <2>1, Least
  <2>3. c \in Nat /\ c > 1 /\ c \in Rounds /\ h < c
    BY <1>1, <1>2, <2>2
  <2>4. NewGroups(c) < c /\ NewGroups(c) \in Nat
    BY <2>3, Halves
  <2>5. NewGroups(c) \notin T
    BY <2>2, <2>3, <2>4
  <2>6. ~ h < NewGroups(c)
    BY <1>1, <2>3, <2>5
  <2> QED BY <1>1, <2>3, <2>4, <2>6
<1>3. ASSUME NEW c \in Rounds, NEW d \in Rounds, NewGroups(c) <= h, h < c, NewGroups(d) <= h, h < d
      PROVE  c = d
  <2>1. c \in Nat /\ d \in Nat /\ NewGroups(c) \in Nat /\ NewGroups(d) \in Nat
    BY <1>1
  <2>2. ~ c < d
    <3>1. SUFFICES ASSUME c < d PROVE FALSE
      OBVIOUS
    <3>2. c <= NewGroups(d)
      BY <3>1, NoneBetween
    <3> QED BY <1>1, <1>3, <2>1, <3>2
  <2>3. ~ d < c
    <3>1. SUFFICES ASSUME d < c PROVE FALSE
      OBVIOUS
    <3>2. d <= NewGroups(c)
      BY <3>1, NoneBetween
    <3> QED BY <1>1, <1>3, <2>1, <3>2
  <2> QED BY <2>1, <2>2, <2>3
<1> QED BY <1>2, <1>3

-----------------------------------------------------------------------------
(* The tree of connections.                                                 *)

(* The rounds in which the team of g accepts another one.                   *)
Meetings(g) == {c \in Rounds : g < Middle(c)}

(* Those whose partner has connected.                                       *)
Met(g) == {c \in Meetings(g) : team[c - g - 1].st = "joined"}

(* Those it has left behind.                                                *)
Passed(g) == {c \in Meetings(g) : c > team[g].cnt}

(* A team accepts whoever comes, but as many as it has partners so far: the *)
(* others are in its port.                                                  *)
Tree ==
  /\ \A g \in Gids : team[g].st = "none" <=> ~disc[g]
  /\ \A g \in Gids : team[g].st # "none" => team[g].cnt \in Rounds /\ g < team[g].cnt
  /\ \A g \in Gids : team[g].st = "joined" => g >= NewGroups(team[g].cnt) /\ team[g].cnt > 1
  /\ \A g \in Gids : team[g].st = "none" => Met(g) = {}
  /\ \A g \in Gids : team[g].st # "none" => Cardinality(Met(g)) = Cardinality(Passed(g))

(* A meeting is that of two groups.                                         *)
LEMMA MeetingIs ==
  ASSUME Launch, NEW g \in Gids
  PROVE  /\ Meetings(g) \in SUBSET Rounds /\ IsFiniteSet(Meetings(g))
         /\ \A c \in Meetings(g) :
              /\ c \in Nat /\ c > 1 /\ c - g - 1 \in Gids /\ g < c - g - 1
              /\ NewGroups(c) <= c - g - 1 /\ c - g - 1 < c
<1>1. g \in Nat /\ Gids = 0 .. G - 1 /\ G \in Nat
  BY LaunchIs
<1>2. IsFiniteSet(Meetings(g))
  <2>1. IsFiniteSet(1 .. G)
    BY <1>1, FS_Interval
  <2>2. Meetings(g) \in SUBSET (1 .. G)
    BY DEF Meetings, Rounds
  <2> QED BY <2>1, <2>2, FS_Subset
<1>3. ASSUME NEW c \in Meetings(g)
      PROVE  /\ c \in Nat /\ c > 1 /\ c - g - 1 \in Gids /\ g < c - g - 1
             /\ NewGroups(c) <= c - g - 1 /\ c - g - 1 < c
  <2>1. c \in Nat /\ c <= G /\ g < Middle(c)
    BY RoundsAre DEF Meetings
  <2>2. /\ Middle(c) \in Nat /\ NewGroups(c) \in Nat /\ Middle(c) + NewGroups(c) = c
        /\ Middle(c) <= NewGroups(c)
    BY <2>1, Halves
  <2> QED BY <1>1, <2>1, <2>2
<1> QED BY <1>2, <1>3 DEF Meetings

(* The steps that change a team of the tree.                                *)
LEMMA TeamSteps ==
  ASSUME [Next]_vars, Parallel
  PROVE  \/ UNCHANGED <<team, disc>>
         \/ \E g \in Gids : Disconnect(g) \/ CarryOver(g) \/ Merge(g)
BY DEF Next, Step, Done, vars, OpenPort, SendUp, SendDown, Spawn, SpawnSet, Join,
       ConnectSources, Tell, OpenFirst, JoinSources

(* A team that connects is the partner of the one that accepts, in a round  *)
(* of the tree.                                                             *)
LEMMA MergeIs ==
  ASSUME Launch, Types, Tree, NEW h \in Gids, Merge(h)
  PROVE  LET c == team[h].cnt
             g == c - h - 1
         IN  /\ g \in Gids /\ g # h /\ c \in Meetings(g) /\ c - g - 1 = h
             /\ team[g].st = "tree" /\ team[h].st = "tree"
             /\ team[g].cnt \in Meetings(g)
             /\ team' = [team EXCEPT ![g] = [st |-> "tree", cnt |-> NewGroups(team[g].cnt),
                                             members |-> team[g].members \o team[h].members],
                                     ![h] = [team[h] EXCEPT !.st = "joined"]]
             /\ UNCHANGED disc
<1> DEFINE c == team[h].cnt
           g == c - h - 1
<1>1. /\ team[h].st = "tree" /\ c > 1 /\ h >= NewGroups(c) /\ UNCHANGED disc
      /\ opened[g] /\ team[g].st = "tree" /\ team[g].cnt > 1 /\ g < Middle(team[g].cnt)
      /\ HasPort(g)
  BY DEF Merge, Partner, Connects, InTree, Accepts, HasPort
<1>2. c \in Rounds /\ c \in Nat /\ h < c /\ h \in Nat /\ c <= G
  <2>1. c \in Rounds /\ h < c
    BY <1>1 DEF Tree
  <2> QED BY <2>1, RoundsAre, LaunchIs
<1>3. /\ Middle(c) \in Nat /\ NewGroups(c) \in Nat /\ Middle(c) + NewGroups(c) = c
      /\ Middle(c) <= NewGroups(c)
  BY <1>2, Halves
<1>4. g \in Nat /\ g < Middle(c) /\ g < h /\ c - g - 1 = h
  BY <1>1, <1>2, <1>3
<1>5. g \in Gids
  BY <1>2, <1>4, LaunchIs
<1>6. c \in Meetings(g)
  BY <1>2, <1>4 DEF Meetings
<1>7. team[g].cnt \in Meetings(g)
  <2>1. team[g].cnt \in Rounds
    BY <1>1, <1>5 DEF Tree
  <2> QED BY <1>1, <2>1 DEF Meetings
<1>8. g # h
  BY <1>2, <1>4
<1>9. team' = [team EXCEPT ![g] = [st |-> "tree", cnt |-> NewGroups(team[g].cnt),
                                   members |-> team[g].members \o team[h].members],
                           ![h] = [team[h] EXCEPT !.st = "joined"]]
  <2>1. team' = [team EXCEPT ![g] = [st |-> "tree", cnt |-> NewGroups(team[g].cnt),
                                     members |-> team[g].members \o team[h].members],
                             ![h].st = "joined"]
    BY Zenon DEF Merge, NextRound, Partner
  <2> HIDE DEF g
  <2> QED BY <1>5, <1>8, <2>1 DEF Types
<1> QED BY <1>1, <1>4, <1>5, <1>6, <1>7, <1>8, <1>9

(* The rounds do not change, and the meetings held change only with a team  *)
(* that joins, those left behind with the round of the team.                *)
LEMMA MeetingsStay ==
  ASSUME Launch, UNCHANGED <<shape, mine>>
  PROVE  /\ Rounds' = Rounds /\ \A x : Meetings(x)' = Meetings(x)
         /\ \A x \in Gids : (\A c \in Meetings(x) : team'[c - x - 1].st = "joined"
                                                     <=> team[c - x - 1].st = "joined")
                            => Met(x)' = Met(x)
         /\ \A x : team'[x].cnt = team[x].cnt => Passed(x)' = Passed(x)
<1>1. G' = G
  BY Stays
<1>2. Rounds' = Rounds
  BY <1>1 DEF Rounds
<1>3. \A x : Meetings(x)' = Meetings(x)
  BY <1>2 DEF Meetings
<1>4. ASSUME NEW x \in Gids,
             \A c \in Meetings(x) : team'[c - x - 1].st = "joined"
                                     <=> team[c - x - 1].st = "joined"
      PROVE  Met(x)' = Met(x)
  <2>1. Met(x)' = {c \in Meetings(x) : team'[c - x - 1].st = "joined"}
    BY <1>3 DEF Met
  <2> QED BY <1>4, <2>1 DEF Met
<1>5. ASSUME NEW x, team'[x].cnt = team[x].cnt PROVE Passed(x)' = Passed(x)
  <2>1. Passed(x)' = {c \in Meetings(x) : c > team'[x].cnt}
    BY <1>3 DEF Passed
  <2> QED BY <1>5, <2>1 DEF Passed
<1> QED BY <1>2, <1>3, <1>4, <1>5

(* Each step keeps the account of the connections.                          *)
LEMMA NextTree ==
  ASSUME Launch, Types, Tree, Parallel, [Next]_vars
  PROVE  Tree'
<1>1. UNCHANGED <<shape, mine>>
  BY LaunchStays
<1>2. Gids' = Gids /\ G' = G
  BY <1>1, Stays
<1>3. /\ Rounds' = Rounds /\ \A x : Meetings(x)' = Meetings(x)
      /\ \A x \in Gids : (\A c \in Meetings(x) : team'[c - x - 1].st = "joined"
                                                  <=> team[c - x - 1].st = "joined")
                         => Met(x)' = Met(x)
      /\ \A x : team'[x].cnt = team[x].cnt => Passed(x)' = Passed(x)
  BY <1>1, MeetingsStay
<1>4. \A x \in Gids : \A c \in Meetings(x) : c - x - 1 \in Gids
  BY MeetingIs
<1>5. /\ \A g \in Gids : team[g].st = "none" <=> ~disc[g]
      /\ \A g \in Gids : team[g].st # "none" => team[g].cnt \in Rounds /\ g < team[g].cnt
      /\ \A g \in Gids : team[g].st = "joined" => g >= NewGroups(team[g].cnt) /\ team[g].cnt > 1
      /\ \A g \in Gids : team[g].st = "none" => Met(g) = {}
      /\ \A g \in Gids : team[g].st # "none" => Cardinality(Met(g)) = Cardinality(Passed(g))
  BY DEF Tree
<1>6. CASE UNCHANGED <<team, disc>>
  <2>1. \A x \in Gids : Met(x)' = Met(x) /\ Passed(x)' = Passed(x)
    BY <1>3, <1>6
  <2> QED BY <1>2, <1>3, <1>5, <1>6, <2>1 DEF Tree
<1>7. ASSUME NEW g \in Gids, Disconnect(g) PROVE Tree'
  <2>1. ~disc[g] /\ disc' = [disc EXCEPT ![g] = TRUE]
        /\ team' = [team EXCEPT ![g] = [st |-> "tree", cnt |-> G, members |-> <<g>>]]
    BY <1>7 DEF Disconnect
  <2>2. /\ team'[g].st = "tree" /\ team'[g].cnt = G /\ team[g].st = "none"
        /\ disc'[g] /\ \A x \in Gids : x # g => team'[x] = team[x] /\ disc'[x] = disc[x]
    BY <1>5, <2>1 DEF Types
  <2>3. \A x \in Gids : team'[x].st = "joined" <=> team[x].st = "joined"
    BY <2>2
  <2>4. \A x \in Gids : Met(x)' = Met(x)
    BY <1>3, <1>4, <2>3
  <2>5. \A x \in Gids : x # g => Passed(x)' = Passed(x)
    BY <1>3, <2>2
  <2>6. Passed(g)' = {} /\ Met(g)' = {}
    <3>1. Passed(g)' = {c \in Meetings(g) : c > G}
      BY <1>3, <2>2 DEF Passed
    <3>2. \A c \in Meetings(g) : ~ c > G
      <4>1. \A c \in Meetings(g) : c \in Rounds
        BY MeetingIs
      <4>2. \A c \in Rounds : c \in Nat /\ c <= G /\ G \in Nat
        BY RoundsAre
      <4> QED BY <4>1, <4>2
    <3> QED BY <1>5, <2>2, <2>4, <3>1, <3>2
  <2>7. G \in Rounds /\ g < G
    BY RoundsAre, LaunchIs
  <2>8. \A x \in Gids : team'[x].st # "none" => team'[x].cnt \in Rounds /\ x < team'[x].cnt
    BY <1>5, <2>2, <2>7
  <2>9. \A x \in Gids : team'[x].st # "none" => Cardinality(Met(x)') = Cardinality(Passed(x)')
    BY <1>5, <2>2, <2>4, <2>5, <2>6
  <2>10. \A x \in Gids : /\ team'[x].st = "none" <=> ~disc'[x]
                         /\ team'[x].st = "joined" => x >= NewGroups(team'[x].cnt) /\ team'[x].cnt > 1
                         /\ team'[x].st = "none" => Met(x)' = {}
    BY <1>5, <2>2, <2>4
  <2> QED BY <1>2, <1>3, <2>8, <2>9, <2>10 DEF Tree
<1>8. ASSUME NEW g \in Gids, CarryOver(g) PROVE Tree'
  <2> DEFINE c == team[g].cnt
  <2>1. /\ team[g].st = "tree" /\ c > 1 /\ ~ g < Middle(c) /\ ~ g >= NewGroups(c) /\ UNCHANGED disc
        /\ team' = [team EXCEPT ![g].cnt = NewGroups(@)]
    BY <1>8 DEF CarryOver, InTree, Accepts, Connects
  <2>2. /\ team'[g].st = "tree" /\ team'[g].cnt = NewGroups(c)
        /\ \A x \in Gids : x # g => team'[x] = team[x]
        /\ \A x \in Gids : team'[x].st = team[x].st
    BY <2>1 DEF Types, Teams
  <2>3. /\ c \in Rounds /\ c \in Nat /\ NewGroups(c) \in Rounds /\ NewGroups(c) \in Nat
        /\ NewGroups(c) < c /\ g \in Nat
    <3>1. c \in Rounds /\ c \in Nat /\ NewGroups(c) \in Rounds
      BY <1>5, <2>1, RoundsAre
    <3> QED BY <2>1, <3>1, Halves, LaunchIs
  <2>4. \A x \in Gids : Met(x)' = Met(x)
    BY <1>3, <1>4, <2>2
  <2>5. \A x \in Gids : x # g => Passed(x)' = Passed(x)
    BY <1>3, <2>2
  <2>6. Passed(g)' = Passed(g)
    <3>1. Passed(g)' = {d \in Meetings(g) : d > NewGroups(c)}
      BY <1>3, <2>2 DEF Passed
    <3>2. ASSUME NEW d \in Meetings(g) PROVE d > NewGroups(c) <=> d > c
      <4>1. d \in Rounds /\ d \in Nat /\ g < Middle(d)
        BY MeetingIs DEF Meetings
      <4>2. d # c
        BY <2>1, <4>1
      <4>3. d < c => d <= NewGroups(c)
        BY <2>3, <4>1, NoneBetween
      <4> HIDE DEF c
      <4> QED BY <2>3, <4>1, <4>2, <4>3
    <3> QED BY <3>1, <3>2 DEF Passed
  <2>7. \A x \in Gids : team'[x].st # "none" => team'[x].cnt \in Rounds /\ x < team'[x].cnt
    <3>1. g < NewGroups(c)
      <4> HIDE DEF c
      <4> QED BY <2>1, <2>3
    <3> QED BY <1>5, <2>2, <2>3, <3>1
  <2>8. \A x \in Gids : team'[x].st # "none" => Cardinality(Met(x)') = Cardinality(Passed(x)')
    BY <1>5, <2>2, <2>4, <2>5, <2>6
  <2>9. \A x \in Gids : /\ team'[x].st = "none" <=> ~disc'[x]
                        /\ team'[x].st = "joined" => x >= NewGroups(team'[x].cnt) /\ team'[x].cnt > 1
                        /\ team'[x].st = "none" => Met(x)' = {}
    BY <1>5, <2>1, <2>2, <2>4
  <2> QED BY <1>2, <1>3, <2>7, <2>8, <2>9 DEF Tree
<1>9. ASSUME NEW h \in Gids, Merge(h) PROVE Tree'
  <2>1. PICK g \in Gids, c \in Nat, d \in Nat :
          /\ c = team[h].cnt /\ d = team[g].cnt
          /\ g # h /\ c \in Meetings(g) /\ c - g - 1 = h
          /\ team[g].st = "tree" /\ team[h].st = "tree" /\ d \in Meetings(g)
          /\ team' = [team EXCEPT ![g] = [st |-> "tree", cnt |-> NewGroups(d),
                                          members |-> team[g].members \o team[h].members],
                                  ![h] = [team[h] EXCEPT !.st = "joined"]]
          /\ UNCHANGED disc
    <3>1. \A x \in Gids : team[x].cnt \in Nat
      BY DEF Types, Teams
    <3> QED BY <1>9, <3>1, MergeIs
  <2>2. /\ c \in Rounds /\ d \in Rounds /\ d > 1 /\ c > 1
        /\ NewGroups(d) \in Rounds /\ NewGroups(d) \in Nat /\ NewGroups(d) < d
        /\ g < Middle(d) /\ Middle(d) <= NewGroups(d) /\ Middle(d) \in Nat
        /\ NewGroups(c) <= h /\ h < c /\ g \in Nat /\ h \in Nat
    <3>1. c \in Rounds /\ d \in Rounds /\ d > 1 /\ c > 1 /\ NewGroups(c) <= h /\ h < c
      BY <2>1, MeetingIs
    <3>2. NewGroups(d) \in Rounds
      BY <3>1, RoundsAre
    <3>3. /\ NewGroups(d) \in Nat /\ NewGroups(d) < d /\ Middle(d) \in Nat
          /\ Middle(d) <= NewGroups(d)
      BY <3>1, Halves
    <3>4. g < Middle(d) /\ g \in Nat /\ h \in Nat
      BY <2>1, LaunchIs DEF Meetings
    <3> QED BY <3>1, <3>2, <3>3, <3>4
  <2>3. /\ team'[g].st = "tree" /\ team'[g].cnt = NewGroups(d)
        /\ team'[h].st = "joined" /\ team'[h].cnt = c
        /\ \A x \in Gids : x # g /\ x # h => team'[x] = team[x]
    BY <2>1 DEF Types, Teams
  <2>4. \A x \in Gids : x # h => (team'[x].st = "joined" <=> team[x].st = "joined")
    BY <2>1, <2>3
  <2>5. ASSUME NEW x \in Gids, x # g PROVE Met(x)' = Met(x)
    <3>1. ASSUME NEW e \in Meetings(x) PROVE e - x - 1 # h
      <4>1. e \in Rounds /\ e \in Nat /\ NewGroups(e) <= e - x - 1 /\ e - x - 1 < e
        BY MeetingIs
      <4>2. SUFFICES ASSUME e - x - 1 = h PROVE FALSE
        OBVIOUS
      <4>3. e = c
        BY <2>2, <4>1, <4>2, ConnectsOnce
      <4>4. x \in Nat
        BY LaunchIs
      <4> QED BY <2>1, <2>2, <2>5, <4>2, <4>3, <4>4
    <3> QED BY <1>3, <1>4, <2>4, <3>1
  <2>6. Met(g)' = Met(g) \cup {c} /\ c \notin Met(g)
    <3>1. Met(g)' = {e \in Meetings(g) : team'[e - g - 1].st = "joined"}
      BY <1>3 DEF Met
    <3>2. ASSUME NEW e \in Meetings(g), e # c
          PROVE  team'[e - g - 1].st = "joined" <=> team[e - g - 1].st = "joined"
      <4>1. e \in Nat /\ e - g - 1 \in Gids
        BY <2>1, MeetingIs
      <4>2. e - g - 1 # h
        BY <2>1, <2>2, <3>2, <4>1
      <4> QED BY <2>4, <4>1, <4>2
    <3>3. team'[c - g - 1].st = "joined" /\ team[c - g - 1].st # "joined"
      BY <2>1, <2>3
    <3> QED BY <2>1, <3>1, <3>2, <3>3 DEF Met
  <2>7. \A x \in Gids : x # g => Passed(x)' = Passed(x)
    <3>1. \A x \in Gids : x # g => team'[x].cnt = team[x].cnt
      BY <2>1, <2>3
    <3> QED BY <1>3, <3>1
  <2>8. Passed(g)' = Passed(g) \cup {d} /\ d \notin Passed(g)
    <3>1. Passed(g)' = {e \in Meetings(g) : e > NewGroups(d)}
      BY <1>3, <2>3 DEF Passed
    <3>2. Passed(g) = {e \in Meetings(g) : e > d}
      BY <2>1 DEF Passed
    <3>3. ASSUME NEW e \in Meetings(g) PROVE e > NewGroups(d) <=> e > d \/ e = d
      <4>1. e \in Rounds /\ e \in Nat
        BY <2>1, MeetingIs
      <4>2. e < d => e <= NewGroups(d)
        BY <2>2, <4>1, NoneBetween
      <4> QED BY <2>2, <4>1, <4>2
    <3> QED BY <2>1, <2>2, <3>1, <3>2, <3>3
  <2>9. Cardinality(Met(g)') = Cardinality(Passed(g)')
    <3>1. IsFiniteSet(Met(g)) /\ IsFiniteSet(Passed(g))
      <4>1. Met(g) \in SUBSET Meetings(g) /\ Passed(g) \in SUBSET Meetings(g)
        BY DEF Met, Passed
      <4> QED BY <2>1, <4>1, MeetingIs, FS_Subset
    <3>2. /\ Cardinality(Met(g) \cup {c}) = Cardinality(Met(g)) + 1
          /\ Cardinality(Passed(g) \cup {d}) = Cardinality(Passed(g)) + 1
      BY <2>6, <2>8, <3>1, FS_AddElement
    <3>3. Cardinality(Met(g)) = Cardinality(Passed(g))
      BY <1>5, <2>1
    <3> QED BY <2>6, <2>8, <3>2, <3>3
  <2>10. \A x \in Gids : team'[x].st # "none" => Cardinality(Met(x)') = Cardinality(Passed(x)')
    <3>1. \A x \in Gids : x # g /\ team'[x].st # "none" => team[x].st # "none"
      BY <2>1, <2>3
    <3> QED BY <1>5, <2>5, <2>7, <2>9, <3>1
  <2>11. \A x \in Gids : team'[x].st # "none" => team'[x].cnt \in Rounds /\ x < team'[x].cnt
    BY <1>5, <2>2, <2>3
  <2>12. \A x \in Gids : team'[x].st = "none" <=> ~disc'[x]
    BY <1>5, <2>1, <2>3
  <2>13. \A x \in Gids : team'[x].st = "joined" => x >= NewGroups(team'[x].cnt) /\ team'[x].cnt > 1
    <3>1. h >= NewGroups(c)
      <4>1. NewGroups(c) \in Nat
        BY <2>2, Halves
      <4> QED BY <2>2, <4>1
    <3> QED BY <1>5, <2>2, <2>3, <3>1
  <2>14. \A x \in Gids : team'[x].st = "none" => Met(x)' = {}
    BY <1>5, <2>3, <2>5
  <2> QED BY <1>2, <1>3, <2>10, <2>11, <2>12, <2>13, <2>14 DEF Tree
<1> QED BY <1>6, <1>7, <1>8, <1>9, TeamSteps

-----------------------------------------------------------------------------
(* The members of the teams.                                                *)

(* The elements of a sequence, and a sequence with each of them once.       *)
Elements(s) == {s[x] : x \in DOMAIN s}
Once(s) == \A x, y \in DOMAIN s : s[x] = s[y] => x = y

(* Two sequences without common elements, one after the other.              *)
LEMMA Joint ==
  ASSUME NEW S, NEW s \in Seq(S), NEW t \in Seq(S)
  PROVE  /\ Elements(s \o t) = Elements(s) \cup Elements(t)
         /\ Once(s) /\ Once(t) /\ Elements(s) \cap Elements(t) = {} => Once(s \o t)
<1> DEFINE u == s \o t
           a == Len(s)
           b == Len(t)
<1>1. /\ a \in Nat /\ b \in Nat /\ DOMAIN s = 1 .. a /\ DOMAIN t = 1 .. b
      /\ DOMAIN u = 1 .. a + b
      /\ \A x \in 1 .. a + b : u[x] = IF x <= a THEN s[x] ELSE t[x - a]
  OBVIOUS
<1> HIDE DEF u, a, b
<1>2. \A x \in 1 .. a + b : x <= a => x \in 1 .. a /\ u[x] = s[x]
  BY <1>1
<1>3. \A x \in 1 .. a + b : ~ x <= a => x - a \in 1 .. b /\ u[x] = t[x - a]
  BY <1>1
<1>4. \A x \in 1 .. a : x \in 1 .. a + b /\ u[x] = s[x]
  BY <1>1
<1>5. \A x \in 1 .. b : x + a \in 1 .. a + b /\ u[x + a] = t[x]
  <2>1. ASSUME NEW x \in 1 .. b PROVE x + a \in 1 .. a + b /\ u[x + a] = t[x]
    <3>1. x + a \in 1 .. a + b /\ ~ x + a <= a /\ (x + a) - a = x
      BY <1>1
    <3> QED BY <1>1, <3>1
  <2> QED BY <2>1
<1>6. Elements(u) = Elements(s) \cup Elements(t)
  <2>1. ASSUME NEW x \in DOMAIN u PROVE u[x] \in Elements(s) \cup Elements(t)
    BY <1>1, <1>2, <1>3 DEF Elements
  <2>2. ASSUME NEW x \in DOMAIN s PROVE s[x] \in Elements(u)
    BY <1>1, <1>4 DEF Elements
  <2>3. ASSUME NEW x \in DOMAIN t PROVE t[x] \in Elements(u)
    BY <1>1, <1>5 DEF Elements
  <2> QED BY <2>1, <2>2, <2>3 DEF Elements
<1>7. ASSUME Once(s), Once(t), Elements(s) \cap Elements(t) = {},
             NEW x \in DOMAIN u, NEW y \in DOMAIN u, u[x] = u[y]
      PROVE  x = y
  <2>0. x \in 1 .. a + b /\ y \in 1 .. a + b /\ x \in Int /\ y \in Int
    BY <1>1
  <2>1. CASE x <= a /\ y <= a
    <3>1. x \in DOMAIN s /\ y \in DOMAIN s /\ s[x] = s[y]
      BY <1>1, <1>2, <1>7, <2>0, <2>1
    <3> QED BY <1>7, <3>1 DEF Once
  <2>2. CASE ~ x <= a /\ ~ y <= a
    <3>1. x - a \in DOMAIN t /\ y - a \in DOMAIN t /\ t[x - a] = t[y - a]
      BY <1>1, <1>3, <1>7, <2>0, <2>2
    <3>2. x - a = y - a
      BY <1>7, <3>1 DEF Once
    <3> QED BY <1>1, <2>0, <3>2
  <2>3. CASE x <= a /\ ~ y <= a
    <3>1. u[x] \in Elements(s) /\ u[y] \in Elements(t)
      BY <1>1, <1>2, <1>3, <2>0, <2>3 DEF Elements
    <3> QED BY <1>7, <3>1
  <2>4. CASE ~ x <= a /\ y <= a
    <3>1. u[x] \in Elements(t) /\ u[y] \in Elements(s)
      BY <1>1, <1>2, <1>3, <2>0, <2>4 DEF Elements
    <3> QED BY <1>7, <3>1
  <2> QED BY <2>1, <2>2, <2>3, <2>4
<1>8. Once(s) /\ Once(t) /\ Elements(s) \cap Elements(t) = {} => Once(u)
  BY <1>7 DEF Once
<1> QED BY <1>6, <1>8 DEF u

(* A sequence of one element.                                               *)
LEMMA Single ==
  ASSUME NEW e
  PROVE  Elements(<<e>>) = {e} /\ Once(<<e>>)
<1>1. DOMAIN <<e>> = {1} /\ <<e>>[1] = e
  OBVIOUS
<1> QED BY <1>1 DEF Elements, Once

(* The groups of the team of g.                                             *)
InTeam(g) == Elements(team[g].members)

(* A disconnected group is in one team, once.                               *)
Members ==
  /\ \A m \in Gids : disc[m] => \E g \in Gids : team[g].st = "tree" /\ m \in InTeam(g)
  /\ \A g \in Gids : team[g].st = "tree" => Once(team[g].members)
  /\ \A g, h \in Gids :
       team[g].st = "tree" /\ team[h].st = "tree" /\ g # h => InTeam(g) \cap InTeam(h) = {}
  /\ \A g \in Gids : team[g].st = "tree" => \A m \in InTeam(g) : m \in Gids /\ disc[m]

(* Each step keeps the account of the members.                              *)
LEMMA NextMembers ==
  ASSUME Launch, Types, Tree, Members, Parallel, [Next]_vars
  PROVE  Members'
<1>1. Gids' = Gids
  BY LaunchStays, Stays
<1>2. /\ \A m \in Gids : disc[m] => \E g \in Gids : team[g].st = "tree" /\ m \in InTeam(g)
      /\ \A g \in Gids : team[g].st = "tree" => Once(team[g].members)
      /\ \A g, h \in Gids :
           team[g].st = "tree" /\ team[h].st = "tree" /\ g # h => InTeam(g) \cap InTeam(h) = {}
      /\ \A g \in Gids : team[g].st = "tree" => \A m \in InTeam(g) : m \in Gids /\ disc[m]
  BY DEF Members
<1>3. \A g : InTeam(g)' = Elements(team'[g].members)
  BY DEF InTeam
<1>4. CASE UNCHANGED <<team, disc>>
  <2>1. \A g : InTeam(g)' = InTeam(g)
    BY <1>4 DEF InTeam
  <2> QED BY <1>1, <1>2, <1>4, <2>1 DEF Members
<1>5. ASSUME NEW g \in Gids, Disconnect(g) PROVE Members'
  <2>1. ~disc[g] /\ disc' = [disc EXCEPT ![g] = TRUE]
        /\ team' = [team EXCEPT ![g] = [st |-> "tree", cnt |-> G, members |-> <<g>>]]
    BY <1>5 DEF Disconnect
  <2>2. /\ team'[g].st = "tree" /\ team'[g].members = <<g>> /\ team[g].st = "none" /\ disc'[g]
        /\ \A x \in Gids : x # g => team'[x] = team[x] /\ disc'[x] = disc[x]
    BY <2>1 DEF Types, Tree
  <2>3. InTeam(g)' = {g} /\ Once(team'[g].members)
    BY <1>3, <2>2, Single
  <2>4. \A x \in Gids : x # g => InTeam(x)' = InTeam(x)
    BY <1>3, <2>2 DEF InTeam
  <2>5. \A x \in Gids : team[x].st = "tree" => x # g /\ g \notin InTeam(x)
    BY <1>2, <2>1, <2>2
  <2>6. ASSUME NEW m \in Gids, disc'[m]
        PROVE  \E x \in Gids : team'[x].st = "tree" /\ m \in InTeam(x)'
    <3>1. CASE m = g
      BY <2>2, <2>3, <3>1
    <3>2. CASE m # g
      <4>1. PICK x \in Gids : team[x].st = "tree" /\ m \in InTeam(x)
        BY <1>2, <2>2, <2>6, <3>2
      <4>2. team'[x].st = "tree" /\ m \in InTeam(x)'
        BY <2>2, <2>4, <2>5, <4>1
      <4> QED BY <4>2
    <3> QED BY <3>1, <3>2
  <2>7. \A x \in Gids : team'[x].st = "tree" => Once(team'[x].members)
    BY <1>2, <2>2, <2>3
  <2>8. ASSUME NEW x \in Gids, NEW y \in Gids, team'[x].st = "tree", team'[y].st = "tree", x # y
        PROVE  InTeam(x)' \cap InTeam(y)' = {}
    BY <1>2, <2>2, <2>3, <2>4, <2>5, <2>8
  <2>9. ASSUME NEW x \in Gids, team'[x].st = "tree", NEW m \in InTeam(x)'
        PROVE  m \in Gids /\ disc'[m]
    <3>1. CASE x = g
      BY <2>2, <2>3, <2>9, <3>1
    <3>2. CASE x # g
      <4>1. m \in InTeam(x) /\ team[x].st = "tree"
        BY <2>2, <2>4, <2>9, <3>2
      <4> QED BY <1>2, <2>2, <4>1
    <3> QED BY <3>1, <3>2
  <2> QED BY <1>1, <2>6, <2>7, <2>8, <2>9 DEF Members
<1>6. ASSUME NEW g \in Gids, CarryOver(g) PROVE Members'
  <2>1. team' = [team EXCEPT ![g].cnt = NewGroups(@)] /\ UNCHANGED disc
    BY <1>6 DEF CarryOver
  <2>2. \A x \in Gids : team'[x].st = team[x].st /\ team'[x].members = team[x].members
    BY <2>1 DEF Types, Teams
  <2>3. \A x \in Gids : InTeam(x)' = InTeam(x)
    BY <1>3, <2>2 DEF InTeam
  <2> QED BY <1>1, <1>2, <2>1, <2>2, <2>3 DEF Members
<1>7. ASSUME NEW h \in Gids, Merge(h) PROVE Members'
  <2>1. PICK g \in Gids :
          /\ g # h /\ team[g].st = "tree" /\ team[h].st = "tree"
          /\ team' = [team EXCEPT ![g] = [st |-> "tree", cnt |-> NewGroups(team[g].cnt),
                                          members |-> team[g].members \o team[h].members],
                                  ![h] = [team[h] EXCEPT !.st = "joined"]]
          /\ UNCHANGED disc
    BY <1>7, MergeIs
  <2>2. /\ team'[g].st = "tree" /\ team'[g].members = team[g].members \o team[h].members
        /\ team'[h].st = "joined"
        /\ \A x \in Gids : x # g /\ x # h => team'[x] = team[x]
    BY <2>1 DEF Types, Teams
  <2>3. InTeam(g) \cap InTeam(h) = {} /\ Once(team[g].members) /\ Once(team[h].members)
    BY <1>2, <2>1
  <2>4. InTeam(g)' = InTeam(g) \cup InTeam(h) /\ Once(team'[g].members)
    <3>1. team[g].members \in Seq(Gids) /\ team[h].members \in Seq(Gids)
      BY DEF Types, Teams
    <3> QED BY <1>3, <2>2, <2>3, <3>1, Joint DEF InTeam
  <2>5. \A x \in Gids : x # g /\ x # h => InTeam(x)' = InTeam(x)
    BY <1>3, <2>2 DEF InTeam
  <2>6. ASSUME NEW m \in Gids, disc'[m]
        PROVE  \E x \in Gids : team'[x].st = "tree" /\ m \in InTeam(x)'
    <3>1. PICK x \in Gids : team[x].st = "tree" /\ m \in InTeam(x)
      BY <1>2, <2>1, <2>6
    <3>2. CASE x = g \/ x = h
      BY <2>2, <2>4, <3>1, <3>2
    <3>3. CASE x # g /\ x # h
      BY <2>2, <2>5, <3>1, <3>3
    <3> QED BY <3>2, <3>3
  <2>7. \A x \in Gids : team'[x].st = "tree" => Once(team'[x].members)
    BY <1>2, <2>2, <2>4
  <2>8. ASSUME NEW x \in Gids, NEW y \in Gids, team'[x].st = "tree", team'[y].st = "tree", x # y
        PROVE  InTeam(x)' \cap InTeam(y)' = {}
    <3>0. x # h /\ y # h
      BY <2>2, <2>8
    <3>1. CASE x = g
      <4>1. InTeam(y)' = InTeam(y) /\ team[y].st = "tree"
        BY <2>2, <2>5, <2>8, <3>0, <3>1
      <4>2. InTeam(g) \cap InTeam(y) = {} /\ InTeam(h) \cap InTeam(y) = {}
        BY <1>2, <2>1, <2>8, <3>0, <3>1, <4>1
      <4> QED BY <2>4, <3>1, <4>1, <4>2
    <3>2. CASE y = g
      <4>1. InTeam(x)' = InTeam(x) /\ team[x].st = "tree"
        BY <2>2, <2>5, <2>8, <3>0, <3>2
      <4>2. InTeam(g) \cap InTeam(x) = {} /\ InTeam(h) \cap InTeam(x) = {}
        BY <1>2, <2>1, <2>8, <3>0, <3>2, <4>1
      <4> QED BY <2>4, <3>2, <4>1, <4>2
    <3>3. CASE x # g /\ y # g
      <4>1. /\ InTeam(x)' = InTeam(x) /\ team[x].st = "tree"
            /\ InTeam(y)' = InTeam(y) /\ team[y].st = "tree"
        BY <2>2, <2>5, <2>8, <3>0, <3>3
      <4> QED BY <1>2, <2>8, <4>1
    <3> QED BY <3>1, <3>2, <3>3
  <2>9. ASSUME NEW x \in Gids, team'[x].st = "tree", NEW m \in InTeam(x)'
        PROVE  m \in Gids /\ disc'[m]
    <3>0. x # h
      BY <2>2, <2>9
    <3>1. CASE x = g
      BY <1>2, <2>1, <2>4, <2>9, <3>1
    <3>2. CASE x # g
      BY <1>2, <2>1, <2>2, <2>5, <2>9, <3>0, <3>2
    <3> QED BY <3>1, <3>2
  <2> QED BY <1>1, <2>6, <2>7, <2>8, <2>9 DEF Members
<1> QED BY <1>4, <1>5, <1>6, <1>7, TeamSteps

(* When the team of the first group has no round left, every other group    *)
(* has joined a team, and so all are in that one.                           *)
LEMMA AllJoined ==
  ASSUME Launch, Types, Tree, Members, team[0].st = "tree", team[0].cnt <= 1
  PROVE  Elements(team[0].members) = Gids /\ Once(team[0].members)
<1>1. Gids = 0 .. G - 1 /\ G \in Nat \ {0} /\ 0 \in Gids
  BY LaunchIs
<1>2. ASSUME NEW g \in Gids, team[g].st = "joined" \/ g = 0 PROVE Met(g) = Meetings(g)
  <2>1. team[g].st # "none" /\ team[g].cnt \in Nat /\ g \in Nat
    BY SMTT(30), <1>1, <1>2 DEF Types, Teams
  <2>2. \A c \in Meetings(g) : c > team[g].cnt
    <3>1. ASSUME NEW c \in Meetings(g) PROVE c > team[g].cnt
      <4>1. c \in Nat /\ c > 1 /\ g < Middle(c)
        BY MeetingIs DEF Meetings
      <4>2. CASE g = 0
        BY <2>1, <4>1, <4>2
      <4>3. CASE g # 0
        <5>1. g >= NewGroups(team[g].cnt)
          BY <1>2, <4>3 DEF Tree
        <5>2. SUFFICES ASSUME c <= team[g].cnt PROVE FALSE
          BY <2>1, <4>1
        <5>3. /\ Middle(c) <= Middle(team[g].cnt) /\ Middle(team[g].cnt) <= NewGroups(team[g].cnt)
              /\ Middle(c) \in Nat /\ Middle(team[g].cnt) \in Nat
              /\ NewGroups(team[g].cnt) \in Nat
          BY <2>1, <4>1, <5>2, Halves, HalvesGrow
        <5> QED BY <2>1, <4>1, <5>1, <5>3
      <4> QED BY <4>2, <4>3
    <3> QED BY <3>1
  <2>3. Passed(g) = Meetings(g)
    BY <2>2 DEF Passed
  <2>4. Cardinality(Met(g)) = Cardinality(Meetings(g))
    BY <2>1, <2>3 DEF Tree
  <2>5. IsFiniteSet(Meetings(g)) /\ Met(g) \in SUBSET Meetings(g)
    BY MeetingIs DEF Met
  <2> QED BY <2>4, <2>5, FS_Subset
<1> DEFINE T == {h \in Gids : h # 0 /\ team[h].st # "joined"}
<1>3. T = {}
  <2>1. SUFFICES ASSUME T # {} PROVE FALSE
    OBVIOUS
  <2>2. T \in SUBSET Nat
    BY <1>1
  <2>3. PICK h \in T : \A y \in T : h <= y
    <3> HIDE DEF T
    <3> QED BY <2>1, <2>2, Least
  <2>4. h \in Gids /\ h \in Nat /\ h > 0 /\ team[h].st # "joined" /\ h < G
    BY <1>1, <2>3
  <2>5. PICK c \in Rounds : NewGroups(c) <= h /\ h < c
    BY <2>4, ConnectsOnce
  <2>6. c \in Nat /\ c <= G
    BY RoundsAre
  <2>7. PICK g \in Nat : g = c - h - 1
    BY <2>4, <2>5, <2>6
  <2>8. /\ NewGroups(c) \in Nat /\ Middle(c) \in Nat /\ Middle(c) + NewGroups(c) = c
        /\ Middle(c) <= NewGroups(c)
    BY <2>6, Halves
  <2>9. g < Middle(c) /\ g < h /\ g \in Gids /\ c - g - 1 = h
    BY <1>1, <2>4, <2>5, <2>6, <2>7, <2>8
  <2>10. c \in Meetings(g)
    BY <2>5, <2>9 DEF Meetings
  <2>11. g \notin T
    BY <2>3, <2>4, <2>9
  <2>12. Met(g) = Meetings(g)
    BY <1>2, <2>9, <2>11
  <2>13. c \in Met(g)
    BY <2>10, <2>12
  <2> QED BY <2>4, <2>9, <2>13 DEF Met
<1>4. \A h \in Gids : h # 0 => team[h].st = "joined"
  BY <1>3
<1>5. ASSUME NEW m \in Gids PROVE m \in InTeam(0)
  <2>1. disc[m]
    BY <1>1, <1>4 DEF Tree
  <2>2. PICK g \in Gids : team[g].st = "tree" /\ m \in InTeam(g)
    BY <2>1 DEF Members
  <2> QED BY <1>4, <2>2
<1> QED BY <1>1, <1>5 DEF Members, InTeam

-----------------------------------------------------------------------------
(* The rank of a process among the children.                                *)

(* As many elements as in the interval that a function fills once.          *)
LEMMA Counted ==
  ASSUME NEW S, NEW n \in Nat, NEW f \in [S -> 0 .. n - 1],
         \A x, y \in S : f[x] = f[y] => x = y,
         \A i \in 0 .. n - 1 : \E x \in S : f[x] = i
  PROVE  Cardinality(S) = n
<1>1. IsFiniteSet(0 .. n - 1) /\ Cardinality(0 .. n - 1) = n
  BY FS_Interval
<1>2. f \in Injection(S, 0 .. n - 1) /\ f \in Surjection(S, 0 .. n - 1)
  BY DEF Injection, Surjection, IsInjective
<1> QED BY <1>1, <1>2, FS_Injection

(* The place of a process of a group among those of all groups.             *)
Place(p) == SizeBefore(p[1]) + p[2]

(* The processes of the groups have all places up to their number, and the  *)
(* expected id follows from the place.                                      *)
LEMMA PlaceIs ==
  ASSUME Launch
  PROVE  /\ \A p \in Procs : p[1] # Sources =>
              /\ Place(p) \in Nat /\ ExpId(p) = shape.numP + Place(p)
              /\ Place(p) < SizeBefore(G)
         /\ \A x \in 0 .. SizeBefore(G) - 1 : \E p \in Procs : p[1] # Sources /\ Place(p) = x
<1>1. /\ G \in Nat \ {0} /\ Gids = 0 .. G - 1 /\ shape.numP \in Nat /\ G \in 0 .. G
      /\ \A g \in Gids : shape.size[g] \in Nat /\ Size(g) = shape.size[g] /\ g \in 0 .. G /\ g < G
                         /\ g # Sources
      /\ \A i \in 0 .. G : SizeBefore(i) \in Nat
      /\ \A g \in Gids : SizeBefore(g) + shape.size[g] <= SizeBefore(G)
  BY LaunchIs, SizeBeforeIs, SizeBeforeGrows
<1>2. ASSUME NEW p \in Procs, p[1] # Sources
      PROVE  /\ Place(p) \in Nat /\ ExpId(p) = shape.numP + Place(p)
             /\ Place(p) < SizeBefore(G)
  <2>1. p[1] \in Gids /\ p[2] \in 0 .. shape.size[p[1]] - 1
    BY <1>1, <1>2, ProcsAre
  <2> DEFINE u == SizeBefore(p[1])
             z == shape.size[p[1]]
             t == SizeBefore(G)
             n == shape.numP
             r == p[2]
  <2>2. /\ u \in Nat /\ z \in Nat /\ t \in Nat /\ n \in Nat /\ r \in 0 .. z - 1 /\ u + z <= t
        /\ Place(p) = u + r /\ ExpId(p) = n + u + r
    BY <1>1, <1>2, <2>1 DEF Place, ExpId
  <2> HIDE DEF u, z, t, n, r
  <2>3. Place(p) \in Nat /\ ExpId(p) = n + Place(p) /\ Place(p) < t
    BY <2>2
  <2> QED BY <2>3 DEF n, t
<1>3. ASSUME NEW x \in 0 .. SizeBefore(G) - 1
      PROVE  \E p \in Procs : p[1] # Sources /\ Place(p) = x
  <2>1. PICK g \in 0 .. G - 1 : \E r \in 0 .. shape.size[g] - 1 : x = SizeBefore(g) + r
    BY <1>1, Holder
  <2>2. PICK r \in 0 .. shape.size[g] - 1 : x = SizeBefore(g) + r
    BY <2>1
  <2>3. <<g, r>> \in Procs /\ g # Sources
    BY <1>1, <2>1, <2>2, ProcsAre
  <2>4. Place(<<g, r>>) = x
    BY <2>2 DEF Place
  <2> QED BY <2>3, <2>4
<1> QED BY <1>2, <1>3

(* Ordered by expected id, a process has its place among the children.      *)
LEMMA RankByExpId ==
  ASSUME Launch, NEW p \in Procs, p[1] # Sources
  PROVE  Cardinality({q \in Procs : q[1] # Sources /\ ExpId(q) < ExpId(p)}) = Place(p)
<1> DEFINE S == {q \in Procs : q[1] # Sources /\ ExpId(q) < ExpId(p)}
           n == Place(p)
           f == [q \in S |-> Place(q)]
<1>1. /\ n \in Nat /\ shape.numP \in Nat /\ n < SizeBefore(G) /\ SizeBefore(G) \in Nat
      /\ \A q \in Procs : q[1] # Sources => Place(q) \in Nat /\ ExpId(q) = shape.numP + Place(q)
  <2>1. G \in 0 .. G
    BY LaunchIs
  <2> QED BY <2>1, PlaceIs, LaunchIs, SizeBeforeIs
<1>2. \A q \in Procs : q \in S <=> q[1] # Sources /\ Place(q) < n
  <2>1. ASSUME NEW q \in Procs, q[1] # Sources PROVE ExpId(q) < ExpId(p) <=> Place(q) < n
    <3> DEFINE a == Place(q)
               m == shape.numP
    <3>1. a \in Nat /\ m \in Nat /\ n \in Nat /\ ExpId(q) = m + a /\ ExpId(p) = m + n
      BY <1>1, <2>1
    <3> HIDE DEF a, m, n
    <3>2. ExpId(q) < ExpId(p) <=> a < n
      BY <3>1
    <3> QED BY <3>2 DEF a
  <2> QED BY <2>1
<1>3. f \in [S -> 0 .. n - 1]
  <2>1. ASSUME NEW q \in S PROVE Place(q) \in 0 .. n - 1
    <3>1. q \in Procs /\ q[1] # Sources
      OBVIOUS
    <3>2. Place(q) \in Nat /\ Place(q) < n
      BY <1>1, <1>2, <3>1
    <3> HIDE DEF n
    <3> QED BY <1>1, <3>2
  <2> HIDE DEF S, n
  <2> QED BY <2>1
<1>4. \A x, y \in S : f[x] = f[y] => x = y
  <2>1. ASSUME NEW x \in S, NEW y \in S, f[x] = f[y] PROVE x = y
    <3>1. x \in Procs /\ y \in Procs /\ x[1] # Sources /\ y[1] # Sources /\ Place(x) = Place(y)
      BY <2>1
    <3>2. ExpId(x) = ExpId(y)
      BY <1>1, <3>1
    <3> QED BY <3>1, <3>2, ExpIdOnce
  <2> QED BY <2>1
<1>5. \A i \in 0 .. n - 1 : \E x \in S : f[x] = i
  <2>1. ASSUME NEW i \in 0 .. n - 1 PROVE \E x \in S : f[x] = i
    <3>1. i < n /\ i \in 0 .. SizeBefore(G) - 1
      <4> HIDE DEF n
      <4> QED BY <1>1
    <3>2. PICK x \in Procs : x[1] # Sources /\ Place(x) = i
      BY <3>1, PlaceIs
    <3>3. x \in S
      BY <1>2, <3>1, <3>2
    <3> QED BY <3>2, <3>3
  <2> QED BY <2>1
<1> HIDE DEF S, n, f
<1>6. n \in Nat
  BY <1>1
<1>7. Cardinality(S) = n
  BY <1>3, <1>4, <1>5, <1>6, Counted
<1> QED BY <1>7 DEF S, n

(* In the order of the groups, a process has its place too.                 *)
LEMMA RankByTurn ==
  ASSUME Launch, ~Parallel, team[0].members = [x \in 1 .. G |-> x - 1],
         NEW p \in Procs, p[1] # Sources
  PROVE  FinalRank(p) = Place(p)
<1> DEFINE M == team[0].members
           turn == CHOOSE x \in DOMAIN M : M[x] = p[1]
           Eq(w) == w = [x \in 0 .. G |-> IF x = 0 THEN 0 ELSE w[x - 1] + Size(M[x])]
           D == CHOOSE w : Eq(w)
<1>1. FinalRank(p) = D[turn - 1] + p[2]
  BY DEF FinalRank
<1>2. /\ G \in Nat /\ Gids = 0 .. G - 1 /\ p[1] \in Gids /\ SizeBefore(0) = 0
      /\ \A g \in Gids : Size(g) = shape.size[g] /\ SizeBefore(g + 1) = SizeBefore(g) + shape.size[g]
  BY LaunchIs, ProcsAre, SizeBeforeIs
<1>3. turn = p[1] + 1
  <2>1. DOMAIN M = 1 .. G /\ \A x \in 1 .. G : M[x] = x - 1
    OBVIOUS
  <2>2. p[1] + 1 \in DOMAIN M /\ M[p[1] + 1] = p[1]
    BY <1>2, <2>1
  <2>3. turn \in DOMAIN M /\ M[turn] = p[1]
    <3> HIDE DEF M
    <3> QED BY <2>2
  <2>4. turn \in 1 .. G /\ turn - 1 = p[1]
    <3> HIDE DEF turn, M
    <3> QED BY <2>1, <2>3
  <2> HIDE DEF turn
  <2> QED BY <1>2, <2>4
<1>4. \E w : Eq(w)
  <2> DEFINE w == [x \in 0 .. G |-> SizeBefore(x)]
  <2>1. ASSUME NEW x \in 0 .. G
        PROVE  w[x] = IF x = 0 THEN 0 ELSE w[x - 1] + Size(M[x])
    <3>1. CASE x = 0
      BY <1>2, <3>1
    <3>2. CASE x # 0
      <4>1. /\ x - 1 \in Gids /\ x - 1 \in 0 .. G /\ x \in 1 .. G /\ (x - 1) + 1 = x /\ M[x] = x - 1
        BY <1>2, <3>2
      <4>2. SizeBefore((x - 1) + 1) = SizeBefore(x - 1) + shape.size[x - 1]
            /\ Size(x - 1) = shape.size[x - 1]
        BY <1>2, <4>1
      <4>3. w[x] = SizeBefore(x) /\ w[x - 1] = SizeBefore(x - 1)
        BY <4>1
      <4> HIDE DEF w, M
      <4>4. w[x] = w[x - 1] + Size(M[x])
        BY <4>1, <4>2, <4>3
      <4> QED BY <3>2, <4>4
    <3> QED BY <3>1, <3>2
  <2>2. w = [x \in 0 .. G |-> w[x]]
    OBVIOUS
  <2> HIDE DEF w, M
  <2>3. w = [x \in 0 .. G |-> IF x = 0 THEN 0 ELSE w[x - 1] + Size(M[x])]
    BY <2>1, <2>2
  <2> QED BY <2>3
<1>5. Eq(D)
  BY <1>4, Zenon
<1> HIDE DEF D
<1> DEFINE T == {x \in Nat : x <= G => D[x] = SizeBefore(x)}
<1>6. T = Nat
  <2>1. 0 \in T
    BY <1>2, <1>5
  <2>2. ASSUME NEW x \in T PROVE x + 1 \in T
    <3>1. SUFFICES ASSUME x + 1 <= G PROVE D[x + 1] = SizeBefore(x + 1)
      OBVIOUS
    <3>2. /\ x \in Gids /\ x \in Nat /\ D[x] = SizeBefore(x) /\ x + 1 \in 0 .. G /\ x + 1 # 0
          /\ (x + 1) - 1 = x /\ x + 1 \in 1 .. G
      BY <1>2, <3>1
    <3>3. M[x + 1] = x
      BY <3>2
    <3>4. D[x + 1] = D[(x + 1) - 1] + Size(M[x + 1])
      <4> HIDE DEF M
      <4> QED BY <1>5, <3>2
    <3> HIDE DEF M
    <3>5. D[x + 1] = D[x] + Size(x)
      BY <3>2, <3>3, <3>4
    <3>6. Size(x) = shape.size[x] /\ SizeBefore(x + 1) = SizeBefore(x) + shape.size[x]
      BY <1>2, <3>2
    <3> QED BY <3>2, <3>5, <3>6
  <2>3. T \in SUBSET Nat
    OBVIOUS
  <2> HIDE DEF T
  <2> QED BY <2>1, <2>2, <2>3, Induct
<1>7. D[p[1]] = SizeBefore(p[1])
  <2>1. p[1] \in Nat /\ p[1] <= G
    BY <1>2
  <2>2. p[1] \in T
    <3> HIDE DEF T
    <3> QED BY <1>6, <2>1
  <2> QED BY <2>1, <2>2
<1>8. turn - 1 = p[1]
  <2> HIDE DEF turn
  <2> QED BY <1>2, <1>3
<1> HIDE DEF turn
<1> QED BY <1>1, <1>7, <1>8 DEF Place

-----------------------------------------------------------------------------
(* The turns of the Multiple strategy.                                      *)

(* At most one group told its turn has not joined yet, and those that have  *)
(* are in the order in which they were told.                                *)
Turns ==
  /\ tokens <= told /\ told <= tokens + 1 /\ told <= G
  /\ \A g \in Gids :
       team[g].st = (IF g >= tokens THEN "none" ELSE IF g = 0 THEN "tree" ELSE "joined")
  /\ opened[0] <=> tokens > 0
  /\ tokens > 0 => team[0].cnt = tokens /\ team[0].members = [x \in 1 .. tokens |-> x - 1]

(* The steps that take turns: the tree is not for this strategy.            *)
LEMMA TurnSteps ==
  ASSUME Launch, Types, Turns, [Next]_vars, ~Parallel
  PROVE  \/ UNCHANGED <<told, tokens, opened, team>>
         \/ Tell \/ OpenFirst \/ \E g \in Gids : Join(g)
<1>1. ASSUME NEW g \in Gids, InTree(g) PROVE Accepts(g) /\ ~Connects(g)
  <2>1. g = 0 /\ tokens > 0 /\ tokens \in Nat
    <3>1. team[g].st = "tree" /\ tokens \in Nat /\ g \in Nat
      BY <1>1, LaunchIs DEF InTree, Types
    <3>2. team[g].st = (IF g >= tokens THEN "none" ELSE IF g = 0 THEN "tree" ELSE "joined")
      BY DEF Turns
    <3>3. ~ g >= tokens /\ g = 0
      BY <3>1, <3>2
    <3> QED BY <3>1, <3>3
  <2>2. team[g].cnt = tokens /\ tokens > 1
    BY <1>1, <2>1 DEF InTree, Turns
  <2>3. 0 < Middle(tokens) /\ ~ 0 >= NewGroups(tokens)
    BY <2>1, <2>2 DEF Middle, NewGroups
  <2> QED BY <1>1, <2>1, <2>2, <2>3 DEF Accepts, Connects
<1>2. ASSUME NEW g \in Gids, CarryOver(g) \/ Merge(g) \/ Disconnect(g) PROVE FALSE
  <2>1. ~ CarryOver(g)
    BY <1>1 DEF CarryOver
  <2>2. ~ Merge(g)
    BY <1>1 DEF Merge, Connects
  <2>3. ~ Disconnect(g)
    BY DEF Disconnect
  <2> QED BY <1>2, <2>1, <2>2, <2>3
<1>3. \A g : ~OpenPort(g) /\ ~SendUp(g) /\ ~SendDown(g)
  BY DEF OpenPort, SendUp, SendDown
<1>4. \A g : ~Spawn(g)
  BY DEF Spawn
<1> QED BY <1>2, <1>3, <1>4 DEF Next, Step, Done, vars, SpawnSet, ConnectSources, JoinSources

(* A group joins when it is the next.                                       *)
LEMMA JoinIs ==
  ASSUME Launch, Types, Turns, NEW g \in Gids, Join(g)
  PROVE  /\ g = tokens /\ g > 0 /\ told = tokens + 1 /\ tokens < G
         /\ team'[0].st = team[0].st /\ team'[0].cnt = team[0].cnt + 1
         /\ team'[0].members = Append(team[0].members, g) /\ team'[g].st = "joined"
         /\ \A h \in Gids : h # 0 /\ h # g => team'[h] = team[h]
<1>1. g \in Nat /\ told \in Nat /\ tokens \in Nat /\ G \in Nat /\ g < G /\ 0 \in Gids
  BY LaunchIs DEF Types
<1>2. g > 0 /\ told > g /\ team[g].st = "none"
  BY DEF Join
<1>3. g >= tokens
  BY <1>2 DEF Turns
<1>4. told <= tokens + 1
  BY DEF Turns
<1> DEFINE a == [team[0] EXCEPT !.members = Append(@, g), !.cnt = @ + 1]
           b == [team[g] EXCEPT !.st = "joined"]
<1>5. team' = [team EXCEPT ![0] = a, ![g] = b]
  <2>1. g # 0
    BY <1>1, <1>2
  <2> QED BY <1>1, <2>1 DEF Types, Join
<1>6. team \in [Gids -> Teams]
  BY DEF Types
<1>7. /\ a.st = team[0].st /\ a.cnt = team[0].cnt + 1 /\ a.members = Append(team[0].members, g)
      /\ b.st = "joined"
  BY <1>1, <1>6 DEF Teams
<1> HIDE DEF a, b
<1>8. team'[0] = a /\ team'[g] = b /\ \A h \in Gids : h # 0 /\ h # g => team'[h] = team[h]
  BY <1>1, <1>2, <1>5, <1>6
<1>9. /\ team'[0].st = team[0].st /\ team'[0].cnt = team[0].cnt + 1
      /\ team'[0].members = Append(team[0].members, g)
  BY <1>7, <1>8
<1>10. team'[g].st = "joined"
  BY <1>7, <1>8
<1>11. \A h \in Gids : h # 0 /\ h # g => team'[h] = team[h]
  BY <1>8
<1>12. g = tokens /\ g > 0 /\ told = tokens + 1 /\ tokens < G
  BY <1>1, <1>2, <1>3, <1>4
<1> QED BY <1>9, <1>10, <1>11, <1>12

(* The groups that have joined in the order of their numbers, and one more. *)
LEMMA NextInTurn ==
  ASSUME NEW t \in Nat
  PROVE  Append([x \in 1 .. t |-> x - 1], t) = [x \in 1 .. t + 1 |-> x - 1]
<1> DEFINE s == [x \in 1 .. t |-> x - 1]
           u == Append(s, t)
           v == [x \in 1 .. t + 1 |-> x - 1]
<1>1. s \in [1 .. t -> Int]
  OBVIOUS
<1>2. \A x \in 1 .. t : s[x] = x - 1
  OBVIOUS
<1>3. DOMAIN v = 1 .. t + 1 /\ v = [x \in DOMAIN v |-> v[x]]
  OBVIOUS
<1>4. ASSUME NEW x \in 1 .. t + 1 PROVE v[x] = x - 1
  OBVIOUS
<1> HIDE DEF s, v
<1>5. s \in Seq(Int) /\ Len(s) = t
  BY <1>1, SeqDef, LenProperties
<1>6. /\ u \in Seq(Int) /\ Len(u) = t + 1 /\ u[t + 1] = t
      /\ \A x \in 1 .. t : u[x] = s[x]
  BY <1>5, AppendProperties
<1> HIDE DEF u
<1>7. u \in [1 .. t + 1 -> Int]
  BY <1>6
<1>8. ASSUME NEW x \in 1 .. t + 1 PROVE u[x] = v[x]
  <2>1. CASE x = t + 1
    BY <1>4, <1>6, <2>1
  <2>2. CASE x # t + 1
    <3>1. x \in 1 .. t
      BY <2>2
    <3> QED BY <1>2, <1>4, <1>6, <3>1
  <2> QED BY <2>1, <2>2
<1>9. u = [x \in 1 .. t + 1 |-> u[x]]
  BY <1>7
<1>10. u = v
  BY <1>3, <1>8, <1>9
<1> QED BY <1>10 DEF s, u, v

(* Each step keeps the account of the turns.                                *)
LEMMA NextTurns ==
  ASSUME Launch, Types, Turns, ~Parallel, [Next]_vars
  PROVE  Turns'
<1>1. Gids' = Gids /\ G' = G
  BY LaunchStays, Stays
<1>2. /\ G \in Nat /\ Gids = 0 .. G - 1 /\ 0 \in Gids /\ told \in Nat /\ tokens \in Nat
      /\ tokens <= told /\ told <= tokens + 1 /\ told <= G
      /\ \A g \in Gids :
           team[g].st = (IF g >= tokens THEN "none" ELSE IF g = 0 THEN "tree" ELSE "joined")
      /\ opened[0] <=> tokens > 0
      /\ tokens > 0 => team[0].cnt = tokens /\ team[0].members = [x \in 1 .. tokens |-> x - 1]
  BY LaunchIs DEF Turns, Types
<1>3. CASE UNCHANGED <<told, tokens, opened, team>>
  BY <1>1, <1>2, <1>3 DEF Turns
<1>4. CASE Tell
  <2>1. tokens >= told /\ told < G /\ told' = told + 1 /\ UNCHANGED <<tokens, opened, team>>
    BY <1>4 DEF Tell, MayTell
  <2> QED BY <1>1, <1>2, <2>1 DEF Turns
<1>5. CASE OpenFirst
  <2>1. /\ told > 0 /\ ~opened[0] /\ opened' = [opened EXCEPT ![0] = TRUE] /\ tokens' = tokens + 1
        /\ team' = [team EXCEPT ![0] = [st |-> "tree", cnt |-> 1, members |-> <<0>>]]
        /\ UNCHANGED told
    BY <1>5 DEF OpenFirst
  <2>2. tokens = 0 /\ tokens' = 1 /\ opened'[0]
    BY <1>2, <2>1 DEF Types
  <2>3. /\ team'[0].st = "tree" /\ team'[0].cnt = 1 /\ team'[0].members = <<0>>
        /\ \A g \in Gids : g # 0 => team'[g] = team[g]
    BY <1>2, <2>1 DEF Types
  <2>4. <<0>> = [x \in 1 .. 1 |-> x - 1]
    OBVIOUS
  <2>5. \A g \in Gids :
          team'[g].st = (IF g >= 1 THEN "none" ELSE IF g = 0 THEN "tree" ELSE "joined")
    BY <1>2, <2>2, <2>3
  <2> QED BY <1>1, <1>2, <2>1, <2>2, <2>3, <2>4, <2>5 DEF Turns
<1>6. ASSUME NEW g \in Gids, Join(g) PROVE Turns'
  <2>1. /\ g = tokens /\ g > 0 /\ told = tokens + 1 /\ tokens < G
        /\ team'[0].st = team[0].st /\ team'[0].cnt = team[0].cnt + 1
        /\ team'[0].members = Append(team[0].members, g) /\ team'[g].st = "joined"
        /\ \A h \in Gids : h # 0 /\ h # g => team'[h] = team[h]
    BY <1>6, JoinIs
  <2>2. tokens' = tokens + 1 /\ UNCHANGED <<told, opened>>
    BY <1>6 DEF Join
  <2>3. /\ team'[0].st = "tree" /\ team'[0].cnt = tokens + 1
        /\ team'[0].members = Append(team[0].members, g)
        /\ team'[g].st = "joined"
        /\ \A h \in Gids : h # 0 /\ h # g => team'[h] = team[h]
    <3>1. team[0].st = "tree" /\ team[0].cnt = tokens
      BY <1>2, <2>1
    <3> QED BY <2>1, <3>1
  <2>4. Append(team[0].members, g) = [x \in 1 .. tokens + 1 |-> x - 1]
    BY <1>2, <2>1, NextInTurn
  <2>5. \A h \in Gids : team'[h].st = (IF h >= tokens + 1 THEN "none"
                                       ELSE IF h = 0 THEN "tree" ELSE "joined")
    <3>1. ASSUME NEW h \in Gids
          PROVE  team'[h].st = (IF h >= tokens + 1 THEN "none"
                                ELSE IF h = 0 THEN "tree" ELSE "joined")
      <4>1. h \in Nat
        BY <1>2
      <4>2. CASE h = 0 \/ h = g
        <5>1. ~ h >= tokens + 1
          BY <1>2, <2>1, <4>1, <4>2
        <5>2. team'[h].st = IF h = 0 THEN "tree" ELSE "joined"
          BY <2>1, <2>3, <4>2
        <5> QED BY <5>1, <5>2
      <4>3. CASE h # 0 /\ h # g
        <5>1. team'[h].st = team[h].st /\ (h >= tokens <=> h >= tokens + 1)
          <6>1. team'[h].st = team[h].st
            BY <2>3, <4>3
          <6>2. h # tokens
            BY <2>1, <4>3
          <6> QED BY <1>2, <4>1, <6>1, <6>2
        <5> QED BY <1>2, <4>3, <5>1
      <4> QED BY <4>2, <4>3
    <3> QED BY <3>1
  <2>6. tokens' \in Nat /\ tokens' > 0 /\ tokens' <= told' /\ told' <= tokens' + 1 /\ told' <= G
    BY <1>2, <2>1, <2>2
  <2>7. opened'[0]
    BY <1>2, <2>1, <2>2
  <2> QED BY <1>1, <2>2, <2>3, <2>4, <2>5, <2>6, <2>7 DEF Turns
<1> QED BY <1>3, <1>4, <1>5, <1>6, TurnSteps

-----------------------------------------------------------------------------
(* The connected children.                                                  *)

(* How far either strategy is, and what it takes to be over.                *)
Connection ==
  IF Parallel
    THEN Tree /\ Members /\ (over => team[0].st = "tree" /\ team[0].cnt <= 1)
    ELSE Turns /\ (over => tokens = G)

(* No group is connected yet.                                               *)
LEMMA InitConnection ==
  ASSUME Fitting(shape), Init
  PROVE  Connection
<1>1. Launch /\ Types
  BY InitTypes
<1>2. /\ \A g \in Gids : ~disc[g] /\ team[g].st = "none" /\ team[g].cnt = 0
      /\ ~over /\ told = 0 /\ tokens = 0 /\ ~opened[0] /\ 0 \in Gids /\ G \in Nat /\ Gids = 0 .. G - 1
  BY <1>1, LaunchIs DEF Init, NoTeam
<1>3. \A g \in Gids : Met(g) = {}
  <2>1. ASSUME NEW g \in Gids, NEW c \in Meetings(g) PROVE team[c - g - 1].st # "joined"
    BY <1>1, <1>2, MeetingIs
  <2> QED BY <2>1 DEF Met
<1>4. Tree
  BY <1>2, <1>3 DEF Tree
<1>5. Members
  BY <1>2 DEF Members
<1>6. Turns
  BY <1>2 DEF Turns
<1> QED BY <1>2, <1>4, <1>5, <1>6 DEF Connection

(* Each step keeps the account of the connection.                           *)
LEMMA NextConnection ==
  ASSUME Launch, Types, Connection, [Next]_vars
  PROVE  Connection'
<1>1. Parallel' = Parallel /\ G' = G
  BY LaunchStays, Stays
<1>2. 0 \in Gids /\ G \in Nat \ {0} /\ Gids = 0 .. G - 1
  BY LaunchIs
<1>3. CASE Parallel
  <2>1. Tree /\ Members /\ (over => team[0].st = "tree" /\ team[0].cnt <= 1)
    BY <1>3 DEF Connection
  <2>2. Tree' /\ Members'
    BY <1>3, <2>1, NextTree, NextMembers
  <2>3. ASSUME over' PROVE team'[0].st = "tree" /\ team'[0].cnt <= 1
    <3>1. CASE ~over
      <4>1. ConnectSources
        BY <1>3, <2>3, <3>1 DEF Next, Step, Done, vars, OpenPort, SendUp, SendDown, Spawn, SpawnSet,
          Join, Tell, OpenFirst, JoinSources, Disconnect, CarryOver, Merge
      <4> QED BY <4>1 DEF ConnectSources
    <3>2. CASE over
      <4>1. team[0].st = "tree" /\ team[0].cnt <= 1 /\ team[0].cnt \in Nat
        BY <1>2, <2>1, <3>2 DEF Types, Teams
      <4>2. ASSUME NEW g \in Gids, Disconnect(g) PROVE team'[0] = team[0]
        <5>1. g # 0
          BY <2>1, <4>1, <4>2 DEF Disconnect, Tree
        <5> QED BY <1>2, <4>2, <5>1 DEF Disconnect, Types
      <4>3. ASSUME NEW g \in Gids, CarryOver(g) PROVE team'[0] = team[0]
        <5>1. g # 0
          BY <4>1, <4>3 DEF CarryOver, InTree
        <5> QED BY <1>2, <4>3, <5>1 DEF CarryOver, Types
      <4>4. ASSUME NEW h \in Gids, Merge(h) PROVE team'[0] = team[0]
        <5>1. h # 0 /\ Partner(h) # 0
          BY <4>1, <4>4 DEF Merge, Connects, Accepts, InTree
        <5>2. team' = [team EXCEPT ![Partner(h)] = [st |-> "tree", cnt |-> NextRound(Partner(h), h),
                                      members |-> team[Partner(h)].members \o team[h].members],
                                   ![h].st = "joined"]
          BY <4>4, Zenon DEF Merge
        <5> QED BY <1>2, <5>1, <5>2 DEF Types
      <4>5. team'[0] = team[0]
        BY <1>3, <4>2, <4>3, <4>4, TeamSteps
      <4> QED BY <4>1, <4>5
    <3> QED BY <3>1, <3>2
  <2> QED BY <1>1, <1>3, <2>2, <2>3 DEF Connection
<1>4. CASE ~Parallel
  <2>1. Turns /\ (over => tokens = G)
    BY <1>4 DEF Connection
  <2>2. Turns'
    BY <1>4, <2>1, NextTurns
  <2>3. ASSUME over' PROVE tokens' = G
    <3>1. CASE ~over
      <4>1. JoinSources
        BY <1>4, <2>3, <3>1 DEF Next, Step, Done, vars, OpenPort, SendUp, SendDown, Spawn, SpawnSet,
          Join, Tell, OpenFirst, ConnectSources, Disconnect, CarryOver, Merge
      <4>2. opened[0] /\ team[0].cnt = G /\ UNCHANGED tokens
        BY <4>1 DEF JoinSources, HasPort
      <4> QED BY <2>1, <4>2 DEF Turns
    <3>2. CASE over
      <4>1. tokens = G /\ opened[0] /\ team[0].cnt = G
        BY <1>2, <2>1, <3>2 DEF Turns
      <4>2. ~OpenFirst /\ ~ \E g \in Gids : Join(g)
        <5>1. ~OpenFirst
          BY <4>1 DEF OpenFirst
        <5>2. ASSUME NEW g \in Gids, Join(g) PROVE FALSE
          BY <1>2, <4>1, <5>2 DEF Join
        <5> QED BY <5>1, <5>2
      <4>3. UNCHANGED tokens
        BY <1>4, <2>1, <4>2, TurnSteps DEF Tell
      <4> QED BY <4>1, <4>3
    <3> QED BY <3>1, <3>2
  <2> QED BY <1>1, <1>4, <2>2, <2>3 DEF Connection
<1> QED BY <1>3, <1>4

(* When they are connected, all groups are in the communicator of the       *)
(* first one, once.                                                         *)
LEMMA AllConnected ==
  ASSUME Launch, Types, Connection, over
  PROVE  /\ Elements(team[0].members) = Gids /\ Once(team[0].members)
         /\ ~Parallel => team[0].members = [x \in 1 .. G |-> x - 1]
<1>1. 0 \in Gids /\ G \in Nat \ {0} /\ Gids = 0 .. G - 1
  BY LaunchIs
<1>2. CASE Parallel
  <2>1. Tree /\ Members /\ team[0].st = "tree" /\ team[0].cnt <= 1
    BY <1>2 DEF Connection
  <2> QED BY <1>2, <2>1, AllJoined
<1>3. CASE ~Parallel
  <2> DEFINE s == [x \in 1 .. G |-> x - 1]
  <2>1. team[0].members = s
    BY <1>1, <1>3 DEF Connection, Turns
  <2>2. DOMAIN s = 1 .. G /\ \A x \in 1 .. G : s[x] = x - 1
    OBVIOUS
  <2> HIDE DEF s
  <2>3. \A g \in Gids : g + 1 \in DOMAIN s /\ s[g + 1] = g
    BY <1>1, <2>2
  <2>4. \A x \in DOMAIN s : s[x] \in Gids
    BY <1>1, <2>2
  <2>5. Elements(s) = Gids
    BY <2>3, <2>4 DEF Elements
  <2>6. Once(s)
    BY <1>1, <2>2 DEF Once
  <2> QED BY <2>1, <2>5, <2>6 DEF s
<1> QED BY <1>2, <1>3

(* A sequence of n elements holds each of the numbers below m once.         *)
Fills(f, n, m) ==
  /\ f \in [1 .. n -> 0 .. m - 1]
  /\ \A x, y \in 1 .. n : f[x] = f[y] => x = y
  /\ \A i \in 0 .. m - 1 : \E x \in 1 .. n : f[x] = i

(* Then it has as many elements as there are numbers.                       *)
LEMMA AsMany ==
  ASSUME NEW n \in Nat, NEW m \in Nat, NEW f, Fills(f, n, m)
  PROVE  n = m
<1> DEFINE S == 1 .. n
<1>1. Cardinality(S) = IF 1 > n THEN 0 ELSE n - 1 + 1
  BY FS_Interval
<1>2. /\ f \in [S -> 0 .. m - 1]
      /\ \A x, y \in S : f[x] = f[y] => x = y
      /\ \A i \in 0 .. m - 1 : \E x \in S : f[x] = i
  BY DEF Fills
<1> HIDE DEF S
<1> DEFINE T == 0 .. m - 1
<1>3. IsFiniteSet(T) /\ Cardinality(T) = m
  <2>1. Cardinality(T) = IF 0 > m - 1 THEN 0 ELSE (m - 1) - 0 + 1
    BY FS_Interval
  <2>2. IsFiniteSet(T)
    BY FS_Interval
  <2> HIDE DEF T
  <2> QED BY <2>1, <2>2
<1>4. f \in Injection(S, T) /\ f \in Surjection(S, T)
  BY <1>2 DEF Injection, Surjection, IsInjective
<1> HIDE DEF T
<1>5. Cardinality(S) = m
  BY <1>3, <1>4, FS_Injection
<1> QED BY <1>1, <1>5

(* Connected children are in one communicator, every group once, in the     *)
(* order of their nodes and of their ranks in the node, in any launch that  *)
(* fits and whatever order they reach the ports in (binary_tree_connection  *)
(* and the reordering that follows it, and multiple_strat_children).        *)
THEOREM ChildrenInOrder ==
  Spec => [](Fitting(shape) => OrderedChildren)
<1> DEFINE Inv == Launch /\ Types /\ Connection
<1>1. Init => (Fitting(shape) => Inv)
  BY InitTypes, InitConnection
<1>2. (Fitting(shape) => Inv) /\ [Next]_vars => (Fitting(shape) => Inv)'
  BY NextTypes, NextConnection, FitsOn
<1>3. ASSUME Inv, over
      PROVE  /\ {team[0].members[x] : x \in DOMAIN team[0].members} = Gids
             /\ Len(team[0].members) = G
             /\ \A p \in Procs : p[1] # Sources => FinalRank(p) = SizeBefore(p[1]) + p[2]
  <2> DEFINE M == team[0].members
             n == Len(M)
  <2>1. Elements(M) = Gids /\ Once(M) /\ (~Parallel => M = [x \in 1 .. G |-> x - 1])
    BY <1>3, AllConnected
  <2>2. M \in Seq(Gids) /\ Gids = 0 .. G - 1 /\ G \in Nat
    BY <1>3, LaunchIs DEF Types, Teams
  <2>3. n = G
    <3>1. n \in Nat /\ M \in [1 .. n -> 0 .. G - 1]
      <4> HIDE DEF M
      <4> QED BY <2>2
    <3>2. \A x, y \in 1 .. n : M[x] = M[y] => x = y
      <4> HIDE DEF M
      <4> QED BY <2>1, <3>1 DEF Once
    <3>3. \A i \in 0 .. G - 1 : \E x \in 1 .. n : M[x] = i
      <4>1. DOMAIN M = 1 .. n
        <5> HIDE DEF M, n
        <5> QED BY <3>1
      <4> HIDE DEF M, n
      <4> QED BY <2>1, <2>2, <4>1 DEF Elements
    <3> HIDE DEF M, n
    <3>4. M \in [1 .. n -> 0 .. G - 1]
      BY <3>1
    <3>5. Fills(M, n, G)
      BY <3>2, <3>3, <3>4, Zenon DEF Fills
    <3>6. n \in Nat /\ G \in Nat
      BY <2>2, <3>1
    <3> QED BY <3>5, <3>6, AsMany
  <2>4. ASSUME NEW p \in Procs, p[1] # Sources PROVE FinalRank(p) = Place(p)
    <3>1. CASE Parallel
      <4>1. FinalRank(p) = Cardinality({q \in Procs : q[1] # Sources /\ ExpId(q) < ExpId(p)})
        BY <3>1 DEF FinalRank
      <4> QED BY <1>3, <2>4, <4>1, RankByExpId
    <3>2. CASE ~Parallel
      BY <1>3, <2>1, <2>4, <3>2, RankByTurn
    <3> QED BY <3>1, <3>2
  <2> QED BY <2>1, <2>3, <2>4 DEF Elements, Place
<1>4. Inv => OrderedChildren
  BY <1>3 DEF OrderedChildren
<1> HIDE DEF Inv
<1> QED BY <1>1, <1>2, <1>4, PTL DEF Spec
=============================================================================
