---------------------------- MODULE ProcessProofs ----------------------------
(***************************************************************************)
(* Proofs about the processes of a reconfiguration: where the new ones are *)
(* placed (Placement), and how those that are not needed sleep (Zombies).  *)
(*                                                                         *)
(* For any machines, cores and number of reconfigurations no node is       *)
(* overfilled, the children are spread or compact as asked, every process  *)
(* of a spawn has a host, and the counts of the next reconfiguration stay  *)
(* true.  For any number of worlds, of any sizes that the table holds, and *)
(* until a world that has zombies loses several ranks at once, the table   *)
(* of the world names its zombies, only they are signalled, and rank 0     *)
(* ends after the last of them has been woken.                             *)
(***************************************************************************)
EXTENDS Placement, Zombies, FiniteSetTheorems, SequenceTheorems, WellFoundedInduction, TLAPS

-----------------------------------------------------------------------------
(* The placement. *)

(* A nonempty set of naturals has a least element.                          *)
LEMMA Least ==
  ASSUME NEW T \in SUBSET Nat, T # {}
  PROVE  \E x \in T : \A y \in T : x <= y
<1> DEFINE R == {ss \in Nat \X Nat : ss[1] < ss[2]}
<1>1. IsWellFoundedOn(R, Nat)
  BY NatLessThanWellFounded DEF OpToRel
<1>2. PICK x \in T : \A y \in T : ~ (<<y, x>> \in R)
  BY <1>1, WFMin
<1>3. \A y \in T : ~ (y < x)
  BY <1>2
<1> QED BY <1>3

(* Induction over the naturals.                                             *)
LEMMA Induct ==
  ASSUME NEW T \in SUBSET Nat, 0 \in T, \A n \in T : n + 1 \in T
  PROVE  T = Nat
<1> SUFFICES ASSUME T # Nat PROVE FALSE
  OBVIOUS
<1>1. PICK x \in Nat \ T : \A y \in Nat \ T : x <= y
  BY Least
<1>2. x - 1 \in Nat /\ x - 1 \in T
  BY <1>1
<1>3. (x - 1) + 1 \in T
  BY <1>2
<1> QED BY <1>1, <1>3

(* h starts from a and goes on by step, up to n.                            *)
Follows(h, a, step, n) ==
  h[0] = a /\ \A j \in 0 .. n - 1 : h[j + 1] = step[<<j, h[j]>>]

(* Two functions that follow the same steps agree.                          *)
LEMMA Agree ==
  ASSUME NEW a, NEW step, NEW n \in Nat, NEW m \in Nat, n <= m,
         NEW f, NEW h, Follows(f, a, step, n), Follows(h, a, step, m)
  PROVE  f[n] = h[n]
<1> DEFINE T == {j \in Nat : j <= n => f[j] = h[j]}
<1>1. 0 \in T
  BY DEF Follows
<1>2. ASSUME NEW j \in T PROVE j + 1 \in T
  <2>1. SUFFICES ASSUME j + 1 <= n PROVE f[j + 1] = h[j + 1]
    OBVIOUS
  <2>2. f[j] = h[j] /\ j \in 0 .. n - 1 /\ j \in 0 .. m - 1
    BY <2>1
  <2> QED BY <2>2 DEF Follows
<1>3. T = Nat
  <2>1. T \in SUBSET Nat
    OBVIOUS
  <2> HIDE DEF T
  <2> QED BY <1>1, <1>2, <2>1, Induct
<1> QED BY <1>3

(* It does so for ever.                                                     *)
Recurs(f, a, step) ==
  f[0] = a /\ \A n \in Nat : f[n + 1] = step[<<n, f[n]>>]

(* There is a function that starts from a and goes on by step.              *)
LEMMA Recursive ==
  ASSUME NEW S, NEW a \in S, NEW step \in [Nat \X S -> S]
  PROVE  \E f \in [Nat -> S] : Recurs(f, a, step)
<1> DEFINE T == {n \in Nat : \E h \in [0 .. n -> S] : Follows(h, a, step, n)}
<1>1. 0 \in T
  <2> DEFINE h == [j \in 0 .. 0 |-> a]
  <2>1. h \in [0 .. 0 -> S] /\ h[0] = a
    OBVIOUS
  <2>2. Follows(h, a, step, 0)
    BY <2>1 DEF Follows
  <2> QED BY <2>1, <2>2
<1>2. ASSUME NEW n \in T PROVE n + 1 \in T
  <2>1. PICK h \in [0 .. n -> S] : Follows(h, a, step, n)
    OBVIOUS
  <2> DEFINE w == step[<<n, h[n]>>]
             g == [j \in 0 .. n + 1 |-> IF j = n + 1 THEN w ELSE h[j]]
  <2>2. n \in Nat /\ w \in S
    BY <2>1
  <2>3. g \in [0 .. n + 1 -> S] /\ g[0] = a
    BY <2>1, <2>2 DEF Follows
  <2>4. ASSUME NEW j \in 0 .. (n + 1) - 1 PROVE g[j + 1] = step[<<j, g[j]>>]
    <3>1. j \in 0 .. n /\ g[j] = h[j] /\ g[n + 1] = w
      BY <2>2
    <3>2. CASE j = n
      <4> HIDE DEF g
      <4> QED BY <3>1, <3>2
    <3>3. CASE j # n
      <4>1. j \in 0 .. n - 1 /\ g[j + 1] = h[j + 1]
        BY <2>2, <3>1, <3>3
      <4>2. h[j + 1] = step[<<j, h[j]>>]
        BY <2>1, <4>1 DEF Follows
      <4> HIDE DEF g
      <4> QED BY <3>1, <4>1, <4>2
    <3> QED BY <3>2, <3>3
  <2>5. Follows(g, a, step, n + 1)
    BY <2>3, <2>4 DEF Follows
  <2> QED BY <2>2, <2>3, <2>5
<1>3. T = Nat
  <2>1. T \in SUBSET Nat
    OBVIOUS
  <2> HIDE DEF T
  <2> QED BY <1>1, <1>2, <2>1, Induct
<1> DEFINE H(n) == CHOOSE h \in [0 .. n -> S] : Follows(h, a, step, n)
           f == [n \in Nat |-> H(n)[n]]
<1>4. \A n \in Nat : H(n) \in [0 .. n -> S] /\ Follows(H(n), a, step, n)
  BY <1>3
<1> HIDE DEF H
<1>5. f \in [Nat -> S]
  BY <1>4
<1>6. f[0] = a
  BY <1>4 DEF Follows
<1>7. ASSUME NEW n \in Nat PROVE f[n + 1] = step[<<n, f[n]>>]
  <2>1. n \in 0 .. (n + 1) - 1 /\ n + 1 \in Nat /\ n <= n + 1
    OBVIOUS
  <2>2. H(n + 1)[n + 1] = step[<<n, H(n + 1)[n]>>]
    BY <1>4, <2>1 DEF Follows
  <2>3. H(n)[n] = H(n + 1)[n]
    <3>1. Follows(H(n), a, step, n) /\ Follows(H(n + 1), a, step, n + 1)
      BY <1>4, <2>1
    <3> QED BY <2>1, <3>1, Agree
  <2> QED BY <2>1, <2>2, <2>3
<1> QED BY <1>5, <1>6, <1>7 DEF Recurs
-----------------------------------------------------------------------------
(* Sums of the first k values of a vector of counts.                        *)

UpTo(f, k) ==
  (CHOOSE s \in [Nat -> Int] :
     s[0] = 0 /\ \A j \in Nat : s[j + 1] = s[j] + (IF j + 1 \in DOMAIN f THEN f[j + 1] ELSE 0))[k]

(* What UpTo is.                                                            *)
LEMMA UpToIs ==
  ASSUME NEW n \in Nat, NEW f \in [1 .. n -> Int]
  PROVE  /\ UpTo(f, 0) = 0
         /\ \A k \in Nat : UpTo(f, k) \in Int
         /\ \A k \in 1 .. n : UpTo(f, k) = UpTo(f, k - 1) + f[k]
<1> DEFINE g == [j \in Nat |-> IF j + 1 \in DOMAIN f THEN f[j + 1] ELSE 0]
           step == [p \in Nat \X Int |-> p[2] + g[p[1]]]
           Is(s) == s[0] = 0 /\ \A j \in Nat : s[j + 1] = s[j] + g[j]
           sum == CHOOSE s \in [Nat -> Int] : Is(s)
<1>1. g \in [Nat -> Int]
  OBVIOUS
<1>2. step \in [Nat \X Int -> Int] /\ \A j \in Nat, x \in Int : step[<<j, x>>] = x + g[j]
  <2> HIDE DEF g
  <2> QED BY <1>1
<1>3. PICK h \in [Nat -> Int] : Recurs(h, 0, step)
  <2>1. 0 \in Int /\ step \in [Nat \X Int -> Int]
    BY <1>2
  <2> HIDE DEF step
  <2> QED BY <2>1, Recursive
<1>4. Is(h)
  <2> HIDE DEF step, g
  <2> QED BY <1>2, <1>3 DEF Recurs
<1>5. sum \in [Nat -> Int] /\ Is(sum)
  <2> HIDE DEF Is
  <2> QED BY <1>3, <1>4
<1>6. \A k \in Nat : UpTo(f, k) = sum[k]
  BY DEF UpTo
<1>7. \A k \in 1 .. n : k - 1 \in Nat /\ g[k - 1] = f[k]
  OBVIOUS
<1>8. \A k \in 1 .. n : sum[k] = sum[k - 1] + f[k]
  <2>1. SUFFICES ASSUME NEW k \in 1 .. n PROVE sum[k] = sum[k - 1] + f[k]
    OBVIOUS
  <2>2. sum[(k - 1) + 1] = sum[k - 1] + g[k - 1]
    <3> HIDE DEF sum, g
    <3> QED BY <1>5, <1>7
  <2>3. (k - 1) + 1 = k
    OBVIOUS
  <2> HIDE DEF sum, g
  <2> QED BY <2>2, <2>3, <1>7
<1>9. sum[0] = 0 /\ \A k \in Nat : sum[k] \in Int
  <2> HIDE DEF sum
  <2> QED BY <1>5
<1> HIDE DEF sum
<1>10. 0 \in Nat /\ \A k \in 1 .. n : k \in Nat /\ k - 1 \in Nat
  OBVIOUS
<1>11. \A k \in 1 .. n : UpTo(f, k) = UpTo(f, k - 1) + f[k]
  BY <1>6, <1>8, <1>10
<1> QED BY <1>6, <1>9, <1>10, <1>11

(* Induction up to n.                                                       *)
LEMMA InductTo ==
  ASSUME NEW n \in Nat, NEW T \in SUBSET Nat, 0 \in T,
         \A k \in 1 .. n : k - 1 \in T => k \in T
  PROVE  \A k \in 0 .. n : k \in T
<1> DEFINE U == {k \in Nat : k <= n => k \in T}
<1>1. U \in SUBSET Nat /\ 0 \in U
  OBVIOUS
<1>2. \A k \in U : k + 1 \in U
  OBVIOUS
<1>3. U = Nat
  <2> HIDE DEF U
  <2> QED BY <1>1, <1>2, Induct
<1> QED BY <1>3

(* A sum of terms is the sum of the sums.                                   *)
LEMMA UpToPlus ==
  ASSUME NEW n \in Nat, NEW f \in [1 .. n -> Int], NEW g \in [1 .. n -> Int], NEW h \in [1 .. n -> Int],
         \A k \in 1 .. n : h[k] = f[k] + g[k]
  PROVE  UpTo(h, n) = UpTo(f, n) + UpTo(g, n)
<1> DEFINE T == {k \in Nat : UpTo(h, k) = UpTo(f, k) + UpTo(g, k)}
<1>1. T \in SUBSET Nat /\ 0 \in T
  <2>1. UpTo(f, 0) = 0
    BY UpToIs
  <2>2. UpTo(g, 0) = 0
    BY UpToIs
  <2>3. UpTo(h, 0) = 0
    BY UpToIs
  <2> QED BY <2>1, <2>2, <2>3
<1>2. ASSUME NEW k \in 1 .. n, k - 1 \in T PROVE k \in T
  <2>1. UpTo(h, k) = UpTo(h, k - 1) + h[k] /\ UpTo(f, k) = UpTo(f, k - 1) + f[k]
        /\ UpTo(g, k) = UpTo(g, k - 1) + g[k]
    BY UpToIs
  <2>0. k - 1 \in Nat /\ k \in Nat /\ f[k] \in Int /\ g[k] \in Int /\ h[k] = f[k] + g[k]
    OBVIOUS
  <2>2. UpTo(h, k - 1) \in Int /\ UpTo(f, k - 1) \in Int /\ UpTo(g, k - 1) \in Int
    BY <2>0, UpToIs
  <2>3. UpTo(h, k - 1) = UpTo(f, k - 1) + UpTo(g, k - 1)
    BY <1>2
  <2> QED BY <2>0, <2>1, <2>2, <2>3
<1>3. \A k \in 0 .. n : k \in T
  <2> HIDE DEF T
  <2> QED BY <1>1, <1>2, InductTo
<1> QED BY <1>3

(* The sums of equal terms are equal, up to any place.                      *)
LEMMA UpToSame ==
  ASSUME NEW n \in Nat, NEW f \in [1 .. n -> Int], NEW g \in [1 .. n -> Int], NEW m \in 0 .. n,
         \A k \in 1 .. m : f[k] = g[k]
  PROVE  UpTo(f, m) = UpTo(g, m)
<1> DEFINE T == {k \in Nat : UpTo(f, k) = UpTo(g, k)}
<1>1. T \in SUBSET Nat /\ 0 \in T
  BY UpToIs
<1>2. ASSUME NEW k \in 1 .. m, k - 1 \in T PROVE k \in T
  <2>1. k \in 1 .. n /\ k \in Nat
    OBVIOUS
  <2>2. UpTo(f, k) = UpTo(f, k - 1) + f[k] /\ UpTo(g, k) = UpTo(g, k - 1) + g[k]
    BY <2>1, UpToIs
  <2> QED BY <1>2, <2>1, <2>2
<1>3. \A k \in 0 .. m : k \in T
  <2>1. m \in Nat
    OBVIOUS
  <2> HIDE DEF T
  <2> QED BY <1>1, <1>2, <2>1, InductTo
<1> QED BY <1>3

(* Terms that are not above others have a sum that is not above, and the    *)
(* same sum only when they are the same.                                    *)
LEMMA UpToLeq ==
  ASSUME NEW n \in Nat, NEW f \in [1 .. n -> Int], NEW g \in [1 .. n -> Int],
         \A k \in 1 .. n : f[k] <= g[k]
  PROVE  UpTo(f, n) <= UpTo(g, n) /\ (UpTo(f, n) = UpTo(g, n) => \A k \in 1 .. n : f[k] = g[k])
<1> DEFINE T == {k \in Nat : UpTo(f, k) <= UpTo(g, k)
                             /\ (UpTo(f, k) = UpTo(g, k) => \A j \in 1 .. k : f[j] = g[j])}
<1>1. T \in SUBSET Nat /\ 0 \in T
  BY UpToIs
<1>2. ASSUME NEW k \in 1 .. n, k - 1 \in T PROVE k \in T
  <2>1. UpTo(f, k) = UpTo(f, k - 1) + f[k] /\ UpTo(g, k) = UpTo(g, k - 1) + g[k]
    BY UpToIs
  <2>0. k \in Nat /\ k - 1 \in Nat /\ f[k] \in Int /\ g[k] \in Int /\ f[k] <= g[k]
    OBVIOUS
  <2>2. UpTo(f, k - 1) \in Int /\ UpTo(g, k - 1) \in Int /\ k \in Nat /\ k - 1 \in Nat
        /\ f[k] \in Int /\ g[k] \in Int /\ f[k] <= g[k]
    BY <2>0, UpToIs
  <2>3. UpTo(f, k - 1) <= UpTo(g, k - 1)
        /\ (UpTo(f, k - 1) = UpTo(g, k - 1) => \A j \in 1 .. k - 1 : f[j] = g[j])
    BY <1>2
  <2>4. UpTo(f, k) <= UpTo(g, k)
    BY <2>1, <2>2, <2>3
  <2>5. ASSUME UpTo(f, k) = UpTo(g, k), NEW j \in 1 .. k PROVE f[j] = g[j]
    <3>1. UpTo(f, k - 1) = UpTo(g, k - 1) /\ f[k] = g[k]
      BY <2>1, <2>2, <2>3, <2>5
    <3>2. j = k \/ j \in 1 .. k - 1
      OBVIOUS
    <3> QED BY <2>3, <3>1, <3>2
  <2> QED BY <2>2, <2>4, <2>5
<1>3. \A k \in 0 .. n : k \in T
  <2> HIDE DEF T
  <2> QED BY <1>1, <1>2, InductTo
<1> QED BY <1>3

(* Sums of counts grow.                                                     *)
LEMMA UpToGrows ==
  ASSUME NEW n \in Nat, NEW f \in [1 .. n -> Nat], NEW m \in 0 .. n
  PROVE  /\ UpTo(f, m) \in Nat
         /\ \A k \in 0 .. m : UpTo(f, k) \in Nat /\ UpTo(f, k) <= UpTo(f, m)
<1>0. f \in [1 .. n -> Int]
  OBVIOUS
<1> DEFINE T == {k \in Nat : UpTo(f, k) \in Nat /\ \A j \in 0 .. k : UpTo(f, j) \in Nat /\ UpTo(f, j) <= UpTo(f, k)}
<1>1. T \in SUBSET Nat /\ 0 \in T
  <2>1. UpTo(f, 0) = 0
    BY <1>0, UpToIs
  <2> QED BY <2>1
<1>2. ASSUME NEW k \in 1 .. n, k - 1 \in T PROVE k \in T
  <2>1. UpTo(f, k) = UpTo(f, k - 1) + f[k] /\ f[k] \in Nat /\ UpTo(f, k - 1) \in Nat
    BY <1>0, <1>2, UpToIs
  <2>2. \A j \in 0 .. k : j = k \/ j \in 0 .. k - 1
    OBVIOUS
  <2>3. \A j \in 0 .. k - 1 : UpTo(f, j) \in Nat /\ UpTo(f, j) <= UpTo(f, k - 1)
    BY <1>2
  <2>4. \A j \in 0 .. k : UpTo(f, j) \in Nat /\ UpTo(f, j) <= UpTo(f, k)
    BY <2>1, <2>2, <2>3
  <2> QED BY <2>1, <2>4
<1>3. \A k \in 0 .. n : k \in T
  <2> HIDE DEF T
  <2> QED BY <1>1, <1>2, InductTo
<1> QED BY <1>3

(* Vectors of zeros, but for one of their counts.                           *)
LEMMA UpToZero ==
  ASSUME NEW n \in Nat, NEW f \in [1 .. n -> Int], \A k \in 1 .. n : f[k] = 0
  PROVE  UpTo(f, n) = 0
<1> DEFINE T == {k \in Nat : UpTo(f, k) = 0}
<1>1. T \in SUBSET Nat /\ 0 \in T
  BY UpToIs
<1>2. ASSUME NEW k \in 1 .. n, k - 1 \in T PROVE k \in T
  <2>1. UpTo(f, k) = UpTo(f, k - 1) + f[k] /\ UpTo(f, k - 1) = 0 /\ f[k] = 0
    BY <1>2, UpToIs
  <2>2. k \in Nat
    OBVIOUS
  <2> QED BY <2>1, <2>2
<1>3. \A k \in 0 .. n : k \in T
  <2> HIDE DEF T
  <2> QED BY <1>1, <1>2, InductTo
<1> QED BY <1>3

(* The only count there is is the sum.                                      *)
LEMMA UpToOne ==
  ASSUME NEW n \in Nat, NEW f \in [1 .. n -> Int], NEW m \in 1 .. n,
         \A k \in 1 .. n : k # m => f[k] = 0
  PROVE  UpTo(f, n) = f[m]
<1> DEFINE T == {k \in Nat : UpTo(f, k) = IF k < m THEN 0 ELSE f[m]}
<1>1. T \in SUBSET Nat /\ 0 \in T
  BY UpToIs
<1>2. ASSUME NEW k \in 1 .. n, k - 1 \in T PROVE k \in T
  <2>1. UpTo(f, k) = UpTo(f, k - 1) + f[k] /\ f[k] \in Int /\ f[m] \in Int
    BY UpToIs
  <2>2. UpTo(f, k - 1) = IF k - 1 < m THEN 0 ELSE f[m]
    BY <1>2
  <2>3. k < m => f[k] = 0
    OBVIOUS
  <2>4. k > m => f[k] = 0
    OBVIOUS
  <2>5. k \in Nat
    OBVIOUS
  <2> QED BY <2>1, <2>2, <2>3, <2>4, <2>5
<1>3. \A k \in 0 .. n : k \in T
  <2> HIDE DEF T
  <2> QED BY <1>1, <1>2, InductTo
<1>4. n \in T
  BY <1>3
<1> QED BY <1>4

(* One count more or less changes the sum by as much.                       *)
LEMMA UpToExcept ==
  ASSUME NEW n \in Nat, NEW f \in [1 .. n -> Int], NEW m \in 1 .. n, NEW d \in Int
  PROVE  /\ [f EXCEPT ![m] = f[m] + d] \in [1 .. n -> Int]
         /\ UpTo([f EXCEPT ![m] = f[m] + d], n) = UpTo(f, n) + d
<1> DEFINE g == [k \in 1 .. n |-> IF k = m THEN d ELSE 0]
           h == [f EXCEPT ![m] = f[m] + d]
<1>1. g \in [1 .. n -> Int] /\ h \in [1 .. n -> Int] /\ (\A k \in 1 .. n : k # m => g[k] = 0) /\ g[m] = d
  OBVIOUS
<1>2. \A k \in 1 .. n : h[k] = f[k] + g[k]
  OBVIOUS
<1> HIDE DEF g, h
<1>3. UpTo(g, n) = d
  BY <1>1, UpToOne
<1>4. UpTo(h, n) = UpTo(f, n) + UpTo(g, n)
  BY <1>1, <1>2, UpToPlus
<1>5. h \in [1 .. n -> Int] /\ UpTo(h, n) = UpTo(f, n) + d
  BY <1>1, <1>3, <1>4
<1> QED BY <1>5 DEF h

-----------------------------------------------------------------------------
(* Sequences: flattening, and how often a value occurs.                     *)

(* f[k] is the concatenation of the first k sequences of ss.                *)
Flattens(f, ss, n) == f[0] = <<>> /\ \A k \in 1 .. n : f[k] = f[k - 1] \o ss[k]

(* What FlattenSeq is.                                                      *)
LEMMA FlattenIs ==
  ASSUME NEW S, NEW n \in Nat, NEW ss \in [1 .. n -> Seq(S)]
  PROVE  \E f \in [Nat -> Seq(S)] : Flattens(f, ss, n) /\ FlattenSeq(ss) = f[n]
<1> DEFINE step == [p \in Nat \X Seq(S) |-> IF p[1] + 1 \in 1 .. n THEN p[2] \o ss[p[1] + 1] ELSE p[2]]
<1>1. step \in [Nat \X Seq(S) -> Seq(S)]
  <2>1. SUFFICES ASSUME NEW j \in Nat, NEW x \in Seq(S)
                 PROVE  (IF j + 1 \in 1 .. n THEN x \o ss[j + 1] ELSE x) \in Seq(S)
    OBVIOUS
  <2>2. ASSUME j + 1 \in 1 .. n PROVE x \o ss[j + 1] \in Seq(S)
    <3>1. ss[j + 1] \in Seq(S)
      BY <2>2
    <3> QED BY <3>1, ConcatProperties
  <2> QED BY <2>2
<1>2. \A j \in Nat, x \in Seq(S) : j + 1 \in 1 .. n => step[<<j, x>>] = x \o ss[j + 1]
  OBVIOUS
<1>3. <<>> \in Seq(S)
  OBVIOUS
<1>4. PICK h \in [Nat -> Seq(S)] : Recurs(h, <<>>, step)
  <2> HIDE DEF step
  <2> QED BY <1>1, <1>3, Recursive
<1>5. Flattens(h, ss, n)
  <2>1. ASSUME NEW k \in 1 .. n PROVE h[k] = h[k - 1] \o ss[k]
    <3>1. k - 1 \in Nat /\ (k - 1) + 1 = k
      OBVIOUS
    <3>2. h[(k - 1) + 1] = step[<<k - 1, h[k - 1]>>]
      <4> HIDE DEF step
      <4> QED BY <1>4, <3>1 DEF Recurs
    <3>3. step[<<k - 1, h[k - 1]>>] = h[k - 1] \o ss[(k - 1) + 1]
      <4> HIDE DEF step
      <4>1. h[k - 1] \in Seq(S)
        BY <3>1
      <4> QED BY <1>2, <3>1, <4>1
    <3> HIDE DEF step
    <3> QED BY <3>1, <3>2, <3>3
  <2>2. h[0] = <<>>
    BY <1>4 DEF Recurs
  <2> QED BY <2>1, <2>2 DEF Flattens
<1>6. ss \in Seq(Seq(S)) /\ Len(ss) = n
  OBVIOUS
<1>7. FlattenSeq(ss) = h[n]
  <2>1. CASE n = 0
    <3>1. FlattenSeq(ss) = ss /\ ss = <<>>
      BY <1>6, <2>1 DEF FlattenSeq
    <3> QED BY <1>5, <2>1, <3>1 DEF Flattens
  <2>2. CASE n # 0
    <3> DEFINE Eq(s) == s = [j \in 1 .. n |-> IF j = 1 THEN ss[j] ELSE s[j - 1] \o ss[j]]
               w == [j \in 1 .. n |-> h[j]]
               fl == CHOOSE s : Eq(s)
    <3>1. Eq(w)
      <4>1. ASSUME NEW j \in 1 .. n PROVE h[j] = IF j = 1 THEN ss[j] ELSE w[j - 1] \o ss[j]
        <5>1. h[j] = h[j - 1] \o ss[j]
          BY <1>5 DEF Flattens
        <5>2. CASE j = 1
          <6>0. ss[j] \in Seq(S) /\ j - 1 = 0
            BY <5>2
          <6>1. h[0] = <<>> /\ h[j] = h[0] \o ss[j] /\ ss[j] \in Seq(S)
            BY <1>5, <5>1, <6>0 DEF Flattens
          <6> QED BY <5>2, <6>1, ConcatEmptySeq
        <5>3. CASE j # 1
          <6>1. j - 1 \in 1 .. n
            BY <5>3
          <6> QED BY <5>1, <5>3, <6>1
        <5> QED BY <5>2, <5>3
      <4> QED BY <4>1
    <3>2. Eq(fl)
      <4> HIDE DEF Eq
      <4> QED BY <3>1
    <3>3. FlattenSeq(ss) = fl[n]
      BY <1>6, <2>2 DEF FlattenSeq
    <3>4. /\ fl[1] = ss[1]
          /\ \A j \in 2 .. n : fl[j] = fl[j - 1] \o ss[j]
      <4>1. \A j \in 1 .. n : fl[j] = IF j = 1 THEN ss[j] ELSE fl[j - 1] \o ss[j]
        <5>1. fl = [j \in 1 .. n |-> IF j = 1 THEN ss[j] ELSE fl[j - 1] \o ss[j]]
          BY <3>2
        <5> HIDE DEF fl
        <5> QED BY <5>1
      <4>2. 1 \in 1 .. n /\ \A j \in 2 .. n : j \in 1 .. n /\ j # 1
        BY <2>2
      <4> HIDE DEF fl
      <4> QED BY <4>1, <4>2
    <3> HIDE DEF fl
    <3> DEFINE T == {k \in Nat : k > 0 => fl[k] = h[k]}
    <3>5. T \in SUBSET Nat /\ 0 \in T
      OBVIOUS
    <3>6. ASSUME NEW k \in 1 .. n, k - 1 \in T PROVE k \in T
      <4>1. h[k] = h[k - 1] \o ss[k] /\ h[0] = <<>>
        BY <1>5 DEF Flattens
      <4>2. ASSUME k = 1 PROVE fl[k] = h[k]
        <5>1. h[1] = ss[1]
          <6>0. 1 \in 1 .. n /\ k - 1 = 0
            BY <2>2, <4>2
          <6>1. ss[1] \in Seq(S) /\ h[1] = <<>> \o ss[1]
            BY <4>1, <4>2, <6>0
          <6> QED BY <6>1, ConcatEmptySeq
        <5> QED BY <3>4, <4>2, <5>1
      <4>3. ASSUME k # 1 PROVE fl[k] = h[k]
        <5>1. fl[k - 1] = h[k - 1] /\ k \in 2 .. n
          BY <3>6, <4>3
        <5> QED BY <3>4, <4>1, <5>1
      <4>4. k \in Nat
        OBVIOUS
      <4> QED BY <4>2, <4>3, <4>4
    <3>7. \A k \in 0 .. n : k \in T
      <4> HIDE DEF T
      <4> QED BY <3>5, <3>6, InductTo
    <3>8. fl[n] = h[n]
      BY <2>2, <3>7
    <3> QED BY <3>3, <3>8
  <2> QED BY <2>1, <2>2
<1> QED BY <1>4, <1>5, <1>7

(* Flattening one sequence more.                                            *)
LEMMA FlattenAppend ==
  ASSUME NEW S, NEW ss \in Seq(Seq(S)), NEW x \in Seq(S)
  PROVE  FlattenSeq(Append(ss, x)) = FlattenSeq(ss) \o x
<1> DEFINE n == Len(ss)
           tt == Append(ss, x)
<1>1. n \in Nat /\ ss \in [1 .. n -> Seq(S)]
  OBVIOUS
<1>2. n + 1 \in Nat /\ tt \in [1 .. n + 1 -> Seq(S)] /\ tt[n + 1] = x /\ \A k \in 1 .. n : tt[k] = ss[k]
  <2>1. /\ Append(ss, x) \in Seq(Seq(S)) /\ Len(Append(ss, x)) = Len(ss) + 1
        /\ \A k \in 1 .. Len(ss) : Append(ss, x)[k] = ss[k]
        /\ Append(ss, x)[Len(ss) + 1] = x
    BY AppendProperties
  <2>2. \A u \in Seq(Seq(S)) : u \in [1 .. Len(u) -> Seq(S)]
    OBVIOUS
  <2>3. tt \in Seq(Seq(S)) /\ Len(tt) = n + 1 /\ tt[n + 1] = x /\ \A k \in 1 .. n : tt[k] = ss[k]
    BY <2>1
  <2>4. n + 1 \in Nat
    BY <1>1
  <2> HIDE DEF n, tt
  <2>5. tt \in [1 .. n + 1 -> Seq(S)]
    BY <2>2, <2>3
  <2> QED BY <2>3, <2>4, <2>5
<1> HIDE DEF n, tt
<1>3. PICK f \in [Nat -> Seq(S)] : Flattens(f, ss, n) /\ FlattenSeq(ss) = f[n]
  BY <1>1, FlattenIs
<1>4. PICK g \in [Nat -> Seq(S)] : Flattens(g, tt, n + 1) /\ FlattenSeq(tt) = g[n + 1]
  BY <1>2, FlattenIs
<1> DEFINE T == {k \in Nat : f[k] = g[k]}
<1>5. T \in SUBSET Nat /\ 0 \in T
  BY <1>3, <1>4 DEF Flattens
<1>6. ASSUME NEW k \in 1 .. n, k - 1 \in T PROVE k \in T
  <2>1. k \in Nat /\ k \in 1 .. n + 1
    BY <1>1
  <2>2. f[k] = f[k - 1] \o ss[k] /\ g[k] = g[k - 1] \o tt[k]
    BY <1>3, <1>4, <2>1 DEF Flattens
  <2> QED BY <1>2, <1>6, <2>1, <2>2
<1>7. \A k \in 0 .. n : k \in T
  <2> HIDE DEF T
  <2> QED BY <1>1, <1>5, <1>6, InductTo
<1>8. f[n] = g[n]
  BY <1>1, <1>7
<1>9. g[n + 1] = g[n] \o x
  <2>1. n + 1 \in 1 .. n + 1 /\ (n + 1) - 1 = n
    BY <1>1
  <2>2. g[n + 1] = g[(n + 1) - 1] \o tt[n + 1]
    BY <1>4, <2>1 DEF Flattens
  <2> QED BY <1>2, <2>1, <2>2
<1> QED BY <1>3, <1>4, <1>8, <1>9 DEF tt

(* The first numbers are a finite set.                                      *)
LEMMA Upward ==
  ASSUME NEW q \in Nat
  PROVE  IsFiniteSet(1 .. q) /\ Cardinality(1 .. q) = q
<1>1. IsFiniteSet(1 .. q) /\ Cardinality(1 .. q) = IF 1 > q THEN 0 ELSE q - 1 + 1
  BY FS_Interval
<1> QED BY <1>1

(* How often v occurs in s.                                                 *)
Count(v, s) == Cardinality({r \in DOMAIN s : s[r] = v})

(* It is a number, at most the length.                                      *)
LEMMA CountType ==
  ASSUME NEW S, NEW s \in Seq(S), NEW v
  PROVE  Count(v, s) \in Nat /\ Count(v, s) <= Len(s) /\ IsFiniteSet({r \in DOMAIN s : s[r] = v})
<1>1. DOMAIN s = 1 .. Len(s) /\ Len(s) \in Nat
  OBVIOUS
<1>2. IsFiniteSet(1 .. Len(s)) /\ Cardinality(1 .. Len(s)) = Len(s)
  BY <1>1, Upward
<1>3. {r \in DOMAIN s : s[r] = v} \subseteq 1 .. Len(s)
  BY <1>1
<1> QED BY <1>2, <1>3, FS_Subset, FS_CardinalityType DEF Count

(* Two sets of numbers at a distance have as many elements.                 *)
LEMMA Shifted ==
  ASSUME NEW A \in SUBSET Int, IsFiniteSet(A), NEW m \in Int, NEW B, B = {x + m : x \in A}
  PROVE  IsFiniteSet(B) /\ Cardinality(B) = Cardinality(A)
<1> DEFINE f == [x \in A |-> x + m]
<1>1. f \in Bijection(A, B)
  <2>1. f \in [A -> B]
    OBVIOUS
  <2>2. \A x, y \in A : f[x] = f[y] => x = y
    OBVIOUS
  <2>3. \A y \in B : \E x \in A : f[x] = y
    OBVIOUS
  <2> HIDE DEF f
  <2> QED BY <2>1, <2>2, <2>3 DEF Bijection, Injection, Surjection, IsInjective
<1>2. ExistsBijection(A, B)
  BY <1>1 DEF ExistsBijection
<1> QED BY <1>2, FS_Bijection

(* The occurrences in a concatenation.                                      *)
LEMMA CountConcat ==
  ASSUME NEW S, NEW s \in Seq(S), NEW t \in Seq(S), NEW v
  PROVE  Count(v, s \o t) = Count(v, s) + Count(v, t)
<1> DEFINE A == {r \in DOMAIN s : s[r] = v}
           B == {r \in DOMAIN t : t[r] = v}
           C == {r + Len(s) : r \in B}
           D == {r \in DOMAIN (s \o t) : (s \o t)[r] = v}
<1>1. /\ Len(s) \in Nat /\ Len(t) \in Nat /\ DOMAIN s = 1 .. Len(s) /\ DOMAIN t = 1 .. Len(t)
      /\ DOMAIN (s \o t) = 1 .. Len(s) + Len(t)
      /\ \A r \in 1 .. Len(s) : (s \o t)[r] = s[r]
      /\ \A r \in 1 .. Len(t) : (s \o t)[r + Len(s)] = t[r]
  <2>1. /\ Len(s) \in Nat /\ Len(t) \in Nat /\ DOMAIN s = 1 .. Len(s) /\ DOMAIN t = 1 .. Len(t)
        /\ s \o t \in Seq(S) /\ Len(s \o t) = Len(s) + Len(t)
        /\ \A k \in 1 .. Len(s) + Len(t) : (s \o t)[k] = IF k <= Len(s) THEN s[k] ELSE t[k - Len(s)]
    BY ConcatProperties
  <2>2. DOMAIN (s \o t) = 1 .. Len(s) + Len(t)
    BY <2>1
  <2>3. ASSUME NEW r \in 1 .. Len(s) PROVE (s \o t)[r] = s[r]
    BY <2>1
  <2>4. ASSUME NEW r \in 1 .. Len(t) PROVE (s \o t)[r + Len(s)] = t[r]
    <3>1. r + Len(s) \in 1 .. Len(s) + Len(t) /\ ~(r + Len(s) <= Len(s)) /\ (r + Len(s)) - Len(s) = r
      BY <2>1
    <3> QED BY <2>1, <3>1
  <2> QED BY <2>1, <2>2, <2>3, <2>4
<1>2. D = A \cup C
  <2>1. ASSUME NEW r \in D PROVE r \in A \cup C
    <3>1. r \in 1 .. Len(s) + Len(t) /\ (s \o t)[r] = v
      BY <1>1
    <3>2. CASE r <= Len(s)
      <4>1. r \in 1 .. Len(s)
        BY <1>1, <3>1, <3>2
      <4> QED BY <1>1, <3>1, <4>1
    <3>3. CASE r > Len(s)
      <4>1. r - Len(s) \in 1 .. Len(t) /\ r = (r - Len(s)) + Len(s)
        BY <1>1, <3>1, <3>3
      <4>2. t[r - Len(s)] = v
        BY <1>1, <3>1, <4>1
      <4>3. r - Len(s) \in B
        BY <1>1, <4>1, <4>2
      <4> QED BY <4>1, <4>3
    <3> QED BY <1>1, <3>1, <3>2, <3>3
  <2>2. A \subseteq D
    BY <1>1
  <2>3. ASSUME NEW r \in B PROVE r + Len(s) \in D
    <3>1. r \in 1 .. Len(t) /\ t[r] = v
      BY <1>1
    <3>2. r + Len(s) \in 1 .. Len(s) + Len(t) /\ (s \o t)[r + Len(s)] = v
      BY <1>1, <3>1
    <3> QED BY <1>1, <3>2
  <2> QED BY <2>1, <2>2, <2>3
<1>3. A \cap C = {}
  BY <1>1
<1>4. IsFiniteSet(A) /\ IsFiniteSet(B) /\ Count(v, s) = Cardinality(A) /\ Count(v, t) = Cardinality(B)
      /\ Count(v, s \o t) = Cardinality(D) /\ Count(v, s) \in Nat /\ Count(v, t) \in Nat
  BY CountType DEF Count
<1>5. B \in SUBSET Int
  BY <1>1
<1> HIDE DEF A, B, D
<1>6. IsFiniteSet(C) /\ Cardinality(C) = Cardinality(B)
  <2>1. Len(s) \in Int
    BY <1>1
  <2> QED BY ZenonT(60), <1>4, <1>5, <2>1, Shifted
<1> HIDE DEF C
<1>7. Cardinality(A \cup C) = Cardinality(A) + Cardinality(C) - Cardinality(A \cap C)
  BY <1>4, <1>6, FS_Union
<1>8. Cardinality(A \cap C) = 0
  BY <1>3, FS_EmptySet
<1> QED BY <1>2, <1>4, <1>6, <1>7, <1>8

(* The occurrences in a sequence of one value.                              *)
LEMMA CountConst ==
  ASSUME NEW w, NEW s \in Seq({w}), NEW v
  PROVE  Count(v, s) = IF v = w THEN Len(s) ELSE 0
<1> DEFINE A == {r \in DOMAIN s : s[r] = v}
           q == Len(s)
<1>1. q \in Nat /\ DOMAIN s = 1 .. q /\ \A r \in 1 .. q : s[r] = w
  OBVIOUS
<1> HIDE DEF q
<1>2. ASSUME v = w PROVE Cardinality(A) = q
  <2>1. A = 1 .. q
    BY <1>1, <1>2
  <2>2. Cardinality(1 .. q) = q
    BY <1>1, Upward
  <2> HIDE DEF A
  <2> QED BY <1>1, <2>1, <2>2
<1>3. ASSUME v # w PROVE Cardinality(A) = 0
  <2>1. A = {}
    BY <1>1, <1>3
  <2> QED BY <2>1, FS_EmptySet
<1>4. Count(v, s) = Cardinality(A)
  BY DEF Count
<1> HIDE DEF A
<1>5. Count(v, s) = IF v = w THEN q ELSE 0
  BY <1>2, <1>3, <1>4
<1> QED BY <1>5 DEF q

-----------------------------------------------------------------------------
(* Hosts.                                                                   *)

(* c[k] times the value v[k], one after another.                            *)
Blocks(c, v, n) == [k \in 1 .. n |-> [p \in 1 .. c[k] |-> v[k]]]

(* The values of v.                                                         *)
Values(v, n) == {v[k] : k \in 1 .. n}

(* How long that is, and how often each value is there.                     *)
LEMMA BlocksFlat ==
  ASSUME NEW n \in Nat, NEW c \in [1 .. n -> Nat], NEW v
  PROVE  /\ FlattenSeq(Blocks(c, v, n)) \in Seq(Values(v, n))
         /\ Len(FlattenSeq(Blocks(c, v, n))) = UpTo(c, n)
         /\ \A m \in 1 .. n : (\A k \in 1 .. n : v[k] = v[m] => k = m)
              => Count(v[m], FlattenSeq(Blocks(c, v, n))) = c[m]
<1> USE DEF Values
<1> DEFINE V == {v[k] : k \in 1 .. n}
           ss == Blocks(c, v, n)
<1>0. c \in [1 .. n -> Int]
  OBVIOUS
<1>1. \A k \in 1 .. n : ss[k] \in Seq(V) /\ Len(ss[k]) = c[k]
                        /\ \A w : Count(w, ss[k]) = IF w = v[k] THEN c[k] ELSE 0
  <2>1. SUFFICES ASSUME NEW k \in 1 .. n
                 PROVE  /\ ss[k] \in Seq(V) /\ Len(ss[k]) = c[k]
                        /\ \A w : Count(w, ss[k]) = IF w = v[k] THEN c[k] ELSE 0
    OBVIOUS
  <2>2. ss[k] = [p \in 1 .. c[k] |-> v[k]] /\ c[k] \in Nat /\ v[k] \in V
    BY DEF Blocks
  <2> HIDE DEF ss, V
  <2>3. ss[k] \in Seq({v[k]}) /\ Len(ss[k]) = c[k] /\ \A w : Count(w, ss[k]) = IF w = v[k] THEN c[k] ELSE 0
    <3>1. ss[k] \in Seq({v[k]}) /\ Len(ss[k]) = c[k]
      BY <2>2
    <3> QED BY <3>1, CountConst
  <2>4. {v[k]} \subseteq V
    BY <2>2
  <2> QED BY <2>3, <2>4, SeqMonotonic
<1>2. ss \in [1 .. n -> Seq(V)]
  <2>1. ss = [k \in 1 .. n |-> ss[k]]
    BY DEF Blocks
  <2> HIDE DEF ss, V
  <2> QED BY <1>1, <2>1
<1> HIDE DEF ss
<1>3. PICK f \in [Nat -> Seq(V)] : Flattens(f, ss, n) /\ FlattenSeq(ss) = f[n]
  <2> HIDE DEF V
  <2> QED BY <1>2, FlattenIs
<1> HIDE DEF V
<1>4. f[0] = <<>> /\ \A k \in 1 .. n : f[k] = f[k - 1] \o ss[k] /\ f[k - 1] \in Seq(V) /\ k \in Nat
  <2>1. f[0] = <<>> /\ \A k \in 1 .. n : f[k] = f[k - 1] \o ss[k]
    BY <1>3 DEF Flattens
  <2>2. \A k \in 1 .. n : k - 1 \in Nat /\ k \in Nat
    OBVIOUS
  <2> QED BY <1>3, <2>1, <2>2
<1>5. Len(f[n]) = UpTo(c, n)
  <2> DEFINE T == {k \in Nat : Len(f[k]) = UpTo(c, k)}
  <2>1. T \in SUBSET Nat /\ 0 \in T
    <3>1. UpTo(c, 0) = 0
      BY <1>0, UpToIs
    <3> QED BY <1>4, <3>1
  <2>2. ASSUME NEW k \in 1 .. n, k - 1 \in T PROVE k \in T
    <3>1. UpTo(c, k) = UpTo(c, k - 1) + c[k] /\ Len(f[k - 1]) = UpTo(c, k - 1)
      BY <1>0, <2>2, UpToIs
    <3>2. Len(f[k - 1] \o ss[k]) = Len(f[k - 1]) + Len(ss[k])
      BY <1>1, <1>4, ConcatProperties
    <3> QED BY <1>1, <1>4, <3>1, <3>2
  <2>3. \A k \in 0 .. n : k \in T
    <3> HIDE DEF T
    <3> QED BY <2>1, <2>2, InductTo
  <2> QED BY <2>3
<1>6. ASSUME NEW m \in 1 .. n, \A k \in 1 .. n : v[k] = v[m] => k = m
      PROVE  Count(v[m], f[n]) = c[m]
  <2> DEFINE T == {k \in Nat : Count(v[m], f[k]) = IF k < m THEN 0 ELSE c[m]}
  <2>1. T \in SUBSET Nat /\ 0 \in T
    <3>1. {r \in DOMAIN <<>> : <<>>[r] = v[m]} = {}
      OBVIOUS
    <3>2. Count(v[m], f[0]) = 0
      BY <1>4, <3>1, FS_EmptySet DEF Count
    <3> QED BY <3>2
  <2>2. ASSUME NEW k \in 1 .. n, k - 1 \in T PROVE k \in T
    <3>1. Count(v[m], f[k - 1]) = IF k - 1 < m THEN 0 ELSE c[m]
      BY <2>2
    <3>2. Count(v[m], f[k - 1] \o ss[k]) = Count(v[m], f[k - 1]) + Count(v[m], ss[k])
      <4>1. f[k - 1] \in Seq(V) /\ ss[k] \in Seq(V)
        BY <1>1, <1>4
      <4> QED BY <4>1, CountConcat
    <3>3. Count(v[m], ss[k]) = IF v[m] = v[k] THEN c[k] ELSE 0
      BY <1>1
    <3>4. v[m] = v[k] <=> k = m
      BY <1>6
    <3>5. c[m] \in Nat /\ c[k] \in Nat /\ f[k] = f[k - 1] \o ss[k] /\ k \in Nat
      BY <1>4
    <3>6. Count(v[m], f[k]) = (IF k - 1 < m THEN 0 ELSE c[m]) + (IF k = m THEN c[m] ELSE 0)
      BY <3>1, <3>2, <3>3, <3>4, <3>5
    <3>7. Count(v[m], f[k]) = IF k < m THEN 0 ELSE c[m]
      <4> DEFINE x == Count(v[m], f[k])
      <4>1. x = (IF k - 1 < m THEN 0 ELSE c[m]) + (IF k = m THEN c[m] ELSE 0)
        BY <3>6
      <4> HIDE DEF x
      <4> DEFINE y == c[m]
      <4>3. y \in Int /\ k \in Int /\ m \in Int /\ x = (IF k - 1 < m THEN 0 ELSE y) + (IF k = m THEN y ELSE 0)
        BY <3>5, <4>1
      <4> HIDE DEF y
      <4>4. k < m => x = 0
        BY <4>3
      <4>5. k = m => x = y
        BY <4>3
      <4>6. k > m => x = y
        BY SMTT(30), <4>3
      <4>2. x = IF k < m THEN 0 ELSE c[m]
        <5>1. x = IF k < m THEN 0 ELSE y
          BY <4>3, <4>4, <4>5, <4>6
        <5> QED BY <5>1 DEF y
      <4> QED BY <4>2 DEF x
    <3> QED BY <3>5, <3>7
  <2>3. \A k \in 0 .. n : k \in T
    <3> HIDE DEF T
    <3> QED BY <2>1, <2>2, InductTo
  <2>4. n \in T /\ ~(n < m)
    BY <2>3
  <2> QED BY <2>4
<1>7. f[n] \in Seq(V)
  BY <1>3
<1> QED BY <1>3, <1>5, <1>6, <1>7 DEF V, ss

(* The hosts of a sequence of sets.                                         *)
HostsIn(st) == [j \in DOMAIN st |-> st[j].hosts]

(* One set more.                                                            *)
LEMMA HostsInAppend ==
  ASSUME NEW N, NEW st \in Seq([qty : Int, hosts : Seq(N)]), NEW x \in [qty : Int, hosts : Seq(N)]
  PROVE  /\ HostsIn(st) \in Seq(Seq(N)) /\ Len(HostsIn(st)) = Len(st)
         /\ HostsIn(Append(st, x)) = Append(HostsIn(st), x.hosts)
<1> DEFINE R == [qty : Int, hosts : Seq(N)]
<1>0. x.hosts \in Seq(N) /\ \A y \in R : y.hosts \in Seq(N)
  OBVIOUS
<1>1. \A t \in Seq(R) : HostsIn(t) \in Seq(Seq(N)) /\ Len(HostsIn(t)) = Len(t) /\ DOMAIN t = 1 .. Len(t)
                         /\ Len(t) \in Nat /\ \A j \in 1 .. Len(t) : HostsIn(t)[j] = t[j].hosts
  <2>1. SUFFICES ASSUME NEW t \in Seq(R)
                 PROVE  /\ HostsIn(t) \in Seq(Seq(N)) /\ Len(HostsIn(t)) = Len(t) /\ DOMAIN t = 1 .. Len(t)
                        /\ Len(t) \in Nat /\ \A j \in 1 .. Len(t) : HostsIn(t)[j] = t[j].hosts
    OBVIOUS
  <2>2. DOMAIN t = 1 .. Len(t) /\ Len(t) \in Nat /\ \A j \in 1 .. Len(t) : t[j] \in R
    <3> HIDE DEF R
    <3> QED OBVIOUS
  <2>3. HostsIn(t) = [j \in 1 .. Len(t) |-> t[j].hosts]
    BY <2>2 DEF HostsIn
  <2>4. \A j \in 1 .. Len(t) : t[j].hosts \in Seq(N)
    <3> HIDE DEF R
    <3> QED BY <1>0, <2>2
  <2>5. [j \in 1 .. Len(t) |-> t[j].hosts] \in Seq(Seq(N)) /\ Len([j \in 1 .. Len(t) |-> t[j].hosts]) = Len(t)
    BY <2>2, <2>4, IsASeq
  <2> HIDE DEF R
  <2> QED BY <2>2, <2>3, <2>5
<1>2. /\ Append(st, x) \in Seq(R) /\ Len(Append(st, x)) = Len(st) + 1
      /\ \A k \in 1 .. Len(st) : Append(st, x)[k] = st[k]
      /\ Append(st, x)[Len(st) + 1] = x
  BY AppendProperties
<1> DEFINE u == HostsIn(Append(st, x))
           w == Append(HostsIn(st), x.hosts)
<1>3. u \in Seq(Seq(N)) /\ Len(u) = Len(st) + 1 /\ \A j \in 1 .. Len(st) + 1 : u[j] = Append(st, x)[j].hosts
  <2> HIDE DEF R
  <2> QED BY <1>1, <1>2
<1>4. HostsIn(st) \in Seq(Seq(N)) /\ Len(HostsIn(st)) = Len(st) /\ Len(st) \in Nat
      /\ \A j \in 1 .. Len(st) : HostsIn(st)[j] = st[j].hosts
  BY <1>1
<1>5. /\ w \in Seq(Seq(N)) /\ Len(w) = Len(st) + 1
      /\ \A k \in 1 .. Len(st) : w[k] = HostsIn(st)[k]
      /\ w[Len(st) + 1] = x.hosts
  <2>1. /\ w \in Seq(Seq(N)) /\ Len(w) = Len(HostsIn(st)) + 1
        /\ \A k \in 1 .. Len(HostsIn(st)) : w[k] = HostsIn(st)[k]
        /\ w[Len(HostsIn(st)) + 1] = x.hosts
    BY <1>0, <1>4, AppendProperties
  <2> HIDE DEF w
  <2> QED BY <1>4, <2>1
<1> HIDE DEF u, w
<1>6. \A j \in 1 .. Len(st) + 1 : u[j] = w[j]
  <2>1. SUFFICES ASSUME NEW j \in 1 .. Len(st) + 1 PROVE u[j] = w[j]
    OBVIOUS
  <2>2. CASE j = Len(st) + 1
    BY <1>2, <1>3, <1>5, <2>2
  <2>3. CASE j # Len(st) + 1
    <3>1. j \in 1 .. Len(st)
      BY <1>4, <2>3
    <3> QED BY ZenonT(60), <1>2, <1>3, <1>4, <1>5, <3>1
  <2> QED BY <2>2, <2>3
<1>7. u = w
  BY <1>3, <1>5, <1>6, SeqEqual
<1> QED BY <1>4, <1>7 DEF u, w

(* What some places have, and a set for each of them.                       *)
KeptHosts(P, hs, n) == [k \in 1 .. n |-> IF k \in P THEN hs[k] ELSE <<>>]
KeptSets(P, q, hs, n) ==
  [k \in 1 .. n |-> IF k \in P THEN <<[qty |-> q[k], hosts |-> hs[k]]>> ELSE <<>>]

(* Each set is that of a place.                                             *)
FromPlaces(st, hs, q, n) == \A j \in DOMAIN st : \E k \in 1 .. n : st[j].qty = q[k] /\ st[j].hosts = hs[k]

(* The hosts and the quantities of n places.                                *)
Fits(hs, q, n, N) == hs \in [1 .. n -> Seq(N)] /\ q \in [1 .. n -> Int]

(* A set for each of some places: flattening their hosts gives the hosts of *)
(* those places, in order.                                                  *)
LEMMA SetsFlat ==
  ASSUME NEW n \in Nat, NEW N, NEW hs, NEW q, Fits(hs, q, n, N), NEW P,
         NEW st, st = FlattenSeq(KeptSets(P, q, hs, n))
  PROVE  /\ FlattenSeq(HostsIn(st)) = FlattenSeq(KeptHosts(P, hs, n))
         /\ FromPlaces(st, hs, q, n)
<1> USE DEF KeptHosts, KeptSets, Fits, FromPlaces
<1> DEFINE R == [qty : Int, hosts : Seq(N)]
           x == [k \in 1 .. n |-> [qty |-> q[k], hosts |-> hs[k]]]
           aa == [k \in 1 .. n |-> IF k \in P THEN <<x[k]>> ELSE <<>>]
           bb == [k \in 1 .. n |-> IF k \in P THEN hs[k] ELSE <<>>]
<1>0. x \in [1 .. n -> R] /\ \A k \in 1 .. n : x[k].hosts = hs[k] /\ x[k].qty = q[k]
  OBVIOUS
<1>a. st = FlattenSeq(aa)
  <2>1. \A k \in 1 .. n : x[k] = [qty |-> q[k], hosts |-> hs[k]]
    OBVIOUS
  <2>2. aa = [k \in 1 .. n |-> IF k \in P THEN <<[qty |-> q[k], hosts |-> hs[k]]>> ELSE <<>>]
    BY <2>1
  <2> HIDE DEF aa
  <2> QED BY <2>2
<1> HIDE DEF x
<1>1. aa \in [1 .. n -> Seq(R)] /\ bb \in [1 .. n -> Seq(N)]
      /\ (\A k \in 1 .. n : aa[k] = IF k \in P THEN <<x[k]>> ELSE <<>>)
      /\ (\A k \in 1 .. n : bb[k] = IF k \in P THEN hs[k] ELSE <<>>)
  <2> HIDE DEF R
  <2>1. \A k \in 1 .. n : <<x[k]>> \in Seq(R) /\ hs[k] \in Seq(N) /\ <<>> \in Seq(R) /\ <<>> \in Seq(N)
    BY <1>0
  <2> QED BY <2>1
<1> HIDE DEF aa, bb, R
<1>2. PICK f \in [Nat -> Seq(R)] : Flattens(f, aa, n) /\ FlattenSeq(aa) = f[n]
  <2>1. aa \in [1 .. n -> Seq(R)]
    BY <1>1
  <2> QED BY <2>1, FlattenIs
<1>3. PICK g \in [Nat -> Seq(N)] : Flattens(g, bb, n) /\ FlattenSeq(bb) = g[n]
  <2>1. bb \in [1 .. n -> Seq(N)]
    BY <1>1
  <2> QED BY <2>1, FlattenIs
<1> DEFINE T == {k \in Nat : /\ HostsIn(f[k]) \in Seq(Seq(N)) /\ FlattenSeq(HostsIn(f[k])) = g[k]
                             /\ \A j \in DOMAIN f[k] : \E l \in 1 .. n : f[k][j] = x[l]}
<1>4. T \in SUBSET Nat /\ 0 \in T
  <2>1. f[0] = <<>> /\ g[0] = <<>>
    BY <1>2, <1>3 DEF Flattens
  <2>2. HostsIn(<<>>) = <<>>
    BY DEF HostsIn
  <2>3. FlattenSeq(<<>>) = <<>> /\ <<>> \in Seq(Seq(N))
    BY DEF FlattenSeq
  <2>4. DOMAIN <<>> = {}
    OBVIOUS
  <2>5. HostsIn(f[0]) = <<>> /\ DOMAIN f[0] = {}
    BY <2>1, <2>2, <2>4
  <2> QED BY <2>1, <2>3, <2>5
<1>5. ASSUME NEW k \in 1 .. n, k - 1 \in T PROVE k \in T
  <2>0. k \in Nat /\ k - 1 \in Nat /\ f[k - 1] \in Seq(R) /\ g[k - 1] \in Seq(N) /\ x[k] \in R
    <3>1. k \in Nat /\ k - 1 \in Nat
      OBVIOUS
    <3> QED BY <1>0, <1>2, <1>3, <3>1
  <2>1. f[k] = f[k - 1] \o aa[k] /\ g[k] = g[k - 1] \o bb[k]
    BY <1>2, <1>3 DEF Flattens
  <2>2. /\ HostsIn(f[k - 1]) \in Seq(Seq(N)) /\ FlattenSeq(HostsIn(f[k - 1])) = g[k - 1]
        /\ \A j \in DOMAIN f[k - 1] : \E l \in 1 .. n : f[k - 1][j] = x[l]
    BY <1>5
  <2>3. CASE k \notin P
    <3>1. aa[k] = <<>> /\ bb[k] = <<>>
      BY <1>1, <2>3
    <3>2. f[k] = f[k - 1] /\ g[k] = g[k - 1]
      BY <2>0, <2>1, <3>1, ConcatEmptySeq
    <3> QED BY <2>0, <2>2, <3>2
  <2>4. CASE k \in P
    <3>1. aa[k] = <<x[k]>> /\ bb[k] = hs[k] /\ hs[k] \in Seq(N)
      BY <1>1, <2>4
    <3>2. f[k] = Append(f[k - 1], x[k])
      BY <2>0, <2>1, <3>1, AppendIsConcat
    <3>3. HostsIn(f[k]) = Append(HostsIn(f[k - 1]), hs[k])
      <4>1. HostsIn(Append(f[k - 1], x[k])) = Append(HostsIn(f[k - 1]), x[k].hosts)
        BY <2>0, HostsInAppend DEF R
      <4> QED BY <1>0, <3>2, <4>1
    <3>4. FlattenSeq(HostsIn(f[k])) = g[k]
      <4>1. FlattenSeq(Append(HostsIn(f[k - 1]), hs[k])) = FlattenSeq(HostsIn(f[k - 1])) \o hs[k]
        BY <2>2, <3>1, FlattenAppend
      <4> QED BY <2>1, <2>2, <3>1, <3>3, <4>1
    <3>5. HostsIn(f[k]) \in Seq(Seq(N))
      BY <2>2, <3>1, <3>3, AppendProperties
    <3>6. ASSUME NEW j \in DOMAIN f[k] PROVE \E l \in 1 .. n : f[k][j] = x[l]
      <4>1. /\ Len(f[k]) = Len(f[k - 1]) + 1 /\ f[k] \in Seq(R)
            /\ \A m \in 1 .. Len(f[k - 1]) : f[k][m] = f[k - 1][m]
            /\ f[k][Len(f[k - 1]) + 1] = x[k]
        BY <2>0, <3>2, AppendProperties
      <4>2. DOMAIN f[k] = 1 .. Len(f[k - 1]) + 1 /\ DOMAIN f[k - 1] = 1 .. Len(f[k - 1]) /\ Len(f[k - 1]) \in Nat
        BY <2>0, <4>1
      <4>3. j = Len(f[k - 1]) + 1 \/ j \in 1 .. Len(f[k - 1])
        <5> DEFINE l == Len(f[k - 1])
        <5>1. l \in Nat /\ j \in 1 .. l + 1
          BY <4>2
        <5> HIDE DEF l
        <5>2. j = l + 1 \/ j \in 1 .. l
          BY <5>1
        <5> QED BY <5>2 DEF l
      <4> QED BY <2>2, <4>1, <4>2, <4>3
    <3> QED BY <2>0, <3>4, <3>5, <3>6
  <2> QED BY <2>3, <2>4
<1>6. \A k \in 0 .. n : k \in T
  <2> HIDE DEF T
  <2> QED BY <1>4, <1>5, InductTo
<1>7. n \in T
  BY <1>6
<1>8. /\ FlattenSeq(HostsIn(f[n])) = g[n]
      /\ \A j \in DOMAIN f[n] : \E l \in 1 .. n : f[n][j] = x[l]
  BY <1>7
<1>9. FlattenSeq(HostsIn(st)) = FlattenSeq(bb)
  BY <1>2, <1>3, <1>8, <1>a
<1>10. ASSUME NEW j \in DOMAIN st PROVE \E k \in 1 .. n : st[j].qty = q[k] /\ st[j].hosts = hs[k]
  <2>1. PICK l \in 1 .. n : st[j] = x[l]
    BY <1>2, <1>8, <1>a, <1>10
  <2> QED BY <1>0, <2>1
<1> QED BY <1>9, <1>10 DEF bb

(* MAM_I_get_hosts_info lists machines of the ranks, each of them.          *)
LEMMA UniqueIs ==
  ASSUME NEW N, NEW ranks \in Seq(N), ranks # <<>>
  PROVE  /\ UniqueHosts(ranks) \in Seq(N)
         /\ \A r \in 1 .. Len(ranks) : \E j \in 1 .. Len(UniqueHosts(ranks)) : UniqueHosts(ranks)[j] = ranks[r]
<1> DEFINE L == Len(ranks)
           Other(u, r) == \E j \in DOMAIN u : u[j] # ranks[r]
           Longer(u, r) == IF Other(u, r) THEN Append(u, ranks[r]) ELSE u
           Eq(u) == u = [r \in DOMAIN ranks |->
                           IF r = 1 THEN <<ranks[1]>>
                           ELSE IF \E j \in DOMAIN u[r - 1] : u[r - 1][j] # ranks[r]
                                  THEN Append(u[r - 1], ranks[r]) ELSE u[r - 1]]
           step == [p \in Nat \X Seq(N) |-> IF p[1] + 2 \in 1 .. L THEN Longer(p[2], p[1] + 2) ELSE p[2]]
           list == CHOOSE u : Eq(u)
<1>1. L \in Nat \ {0} /\ DOMAIN ranks = 1 .. L /\ \A r \in 1 .. L : ranks[r] \in N
  OBVIOUS
<1>2. \A u \in Seq(N), r \in 1 .. L : Append(u, ranks[r]) \in Seq(N)
  BY <1>1, AppendProperties
<1>3. \A u \in Seq(N), r \in 1 .. L : Longer(u, r) \in Seq(N)
  BY <1>2
<1>4. step \in [Nat \X Seq(N) -> Seq(N)]
        /\ \A j \in Nat, u \in Seq(N) : j + 2 \in 1 .. L => step[<<j, u>>] = Longer(u, j + 2)
  <2> HIDE DEF Longer, L
  <2>1. \A j \in Nat, u \in Seq(N) : (IF j + 2 \in 1 .. L THEN Longer(u, j + 2) ELSE u) \in Seq(N)
    BY <1>3
  <2> QED BY <2>1
<1>5. <<ranks[1]>> \in Seq(N)
  BY <1>1
<1>6. PICK h \in [Nat -> Seq(N)] : Recurs(h, <<ranks[1]>>, step)
  <2>1. step \in [Nat \X Seq(N) -> Seq(N)]
    BY <1>4
  <2> HIDE DEF step
  <2> QED BY <1>5, <2>1, Recursive
<1> DEFINE w == [r \in DOMAIN ranks |-> h[r - 1]]
<1>7. Eq(w)
  <2>1. ASSUME NEW r \in 2 .. L PROVE h[r - 1] = Longer(h[r - 2], r)
    <3>1. r - 2 \in Nat /\ (r - 2) + 1 = r - 1 /\ (r - 2) + 2 = r /\ r \in 1 .. L
      BY <1>1
    <3>2. h[r - 2] \in Seq(N)
      BY <3>1
    <3>3. h[(r - 2) + 1] = step[<<r - 2, h[r - 2]>>]
      <4> HIDE DEF step, L
      <4> QED BY <1>6, <3>1 DEF Recurs
    <3>4. step[<<r - 2, h[r - 2]>>] = Longer(h[r - 2], (r - 2) + 2)
      <4>1. (r - 2) + 2 \in 1 .. L
        BY <3>1
      <4> HIDE DEF step, L, Longer
      <4> QED BY <1>4, <3>1, <3>2, <4>1
    <3> HIDE DEF step, L, Longer
    <3> QED BY <3>1, <3>3, <3>4
  <2>2. h[0] = <<ranks[1]>>
    BY <1>6 DEF Recurs
  <2>3. w = [r \in DOMAIN ranks |-> IF r = 1 THEN <<ranks[1]>> ELSE Longer(w[r - 1], r)]
    <3>1. ASSUME NEW r \in 1 .. L PROVE h[r - 1] = IF r = 1 THEN <<ranks[1]>> ELSE Longer(w[r - 1], r)
      <4>1. CASE r = 1
        BY <2>2, <4>1
      <4>2. CASE r # 1
        <5>1. r \in 2 .. L /\ r - 1 \in 1 .. L /\ (r - 1) - 1 = r - 2
          BY <1>1, <4>2
        <5>2. w[r - 1] = h[r - 2]
          BY <1>1, <5>1
        <5>3. h[r - 1] = Longer(h[r - 2], r)
          BY <2>1, <5>1
        <5> HIDE DEF w, Longer, L
        <5> QED BY <4>2, <5>2, <5>3
      <4> HIDE DEF w, Longer, L
      <4> QED BY <4>1, <4>2
    <3> HIDE DEF Longer, L
    <3> QED BY <1>1, <3>1
  <2> HIDE DEF w, L
  <2> QED BY <2>3 DEF Longer, Other
<1>8. Eq(list)
  <2> HIDE DEF Eq, w
  <2> QED BY <1>7
<1>9. UniqueHosts(ranks) = list[L]
  BY DEF UniqueHosts
<1>10. /\ list[1] = <<ranks[1]>>
       /\ \A r \in 2 .. L : list[r] = Longer(list[r - 1], r)
  <2>1. \A r \in 1 .. L : list[r] = IF r = 1 THEN <<ranks[1]>> ELSE Longer(list[r - 1], r)
    <3>1. list = [r \in 1 .. L |-> IF r = 1 THEN <<ranks[1]>> ELSE Longer(list[r - 1], r)]
      BY <1>1, <1>8
    <3> HIDE DEF list, Longer, L
    <3> QED BY <3>1
  <2>2. 1 \in 1 .. L /\ \A r \in 2 .. L : r \in 1 .. L /\ r # 1
    BY <1>1
  <2> HIDE DEF list, Longer, L
  <2> QED BY <2>1, <2>2
<1> HIDE DEF list, L, Eq
<1> DEFINE T == {k \in Nat : k > 0 => /\ list[k] \in Seq(N)
                                      /\ \A r \in 1 .. k : \E j \in 1 .. Len(list[k]) : list[k][j] = ranks[r]}
<1>11. T \in SUBSET Nat /\ 0 \in T
  OBVIOUS
<1>12. ASSUME NEW k \in 1 .. L, k - 1 \in T PROVE k \in T
  <2>0. k \in Nat
    BY <1>1
  <2>1. CASE k = 1
    <3>1. list[k] \in Seq(N) /\ Len(list[k]) = 1 /\ list[k][1] = ranks[1]
      <4> DEFINE y == ranks[1]
      <4>1. y \in N /\ list[k] = <<y>>
        BY <1>1, <1>10, <2>1
      <4> HIDE DEF y
      <4>2. list[k] \in Seq(N) /\ Len(list[k]) = 1 /\ list[k][1] = y
        BY <4>1
      <4> QED BY <4>2 DEF y
    <3>2. \A r \in 1 .. k : r = 1
      BY <2>1
    <3>3. 1 \in 1 .. Len(list[k])
      BY <3>1
    <3> QED BY <2>0, <3>1, <3>2, <3>3
  <2>2. CASE k # 1
    <3>0. k \in 2 .. L /\ k - 1 > 0
      BY <1>1, <2>2
    <3> DEFINE u == list[k - 1]
    <3>1. u \in Seq(N) /\ \A r \in 1 .. k - 1 : \E j \in 1 .. Len(u) : u[j] = ranks[r]
      BY <1>12, <3>0
    <3>2. list[k] = IF \E j \in DOMAIN u : u[j] # ranks[k] THEN Append(u, ranks[k]) ELSE u
      BY <1>10, <3>0
    <3> HIDE DEF u
    <3>3. DOMAIN u = 1 .. Len(u) /\ Len(u) \in Nat
      BY <3>1
    <3>4. CASE \E j \in DOMAIN u : u[j] # ranks[k]
      <4>1. list[k] = Append(u, ranks[k])
        BY <3>2, <3>4
      <4>2. /\ list[k] \in Seq(N) /\ Len(list[k]) = Len(u) + 1
            /\ \A j \in 1 .. Len(u) : list[k][j] = u[j]
            /\ list[k][Len(u) + 1] = ranks[k]
        BY <1>1, <3>1, <4>1, AppendProperties
      <4>3. ASSUME NEW r \in 1 .. k PROVE \E j \in 1 .. Len(list[k]) : list[k][j] = ranks[r]
        <5>1. CASE r = k
          <6>1. Len(u) + 1 \in 1 .. Len(list[k])
            BY <3>3, <4>2
          <6> QED BY <4>2, <5>1, <6>1
        <5>2. CASE r # k
          <6>1. r \in 1 .. k - 1
            BY <5>2
          <6>2. PICK j \in 1 .. Len(u) : u[j] = ranks[r]
            BY <3>1, <6>1
          <6>3. j \in 1 .. Len(list[k])
            BY <3>3, <4>2
          <6> QED BY <4>2, <6>2, <6>3
        <5> QED BY <5>1, <5>2
      <4> QED BY <2>0, <4>2, <4>3
    <3>5. CASE ~(\E j \in DOMAIN u : u[j] # ranks[k])
      <4>1. list[k] = u
        BY <3>2, <3>5
      <4>2. ASSUME NEW r \in 1 .. k PROVE \E j \in 1 .. Len(list[k]) : list[k][j] = ranks[r]
        <5>1. CASE r # k
          <6>1. r \in 1 .. k - 1
            BY <5>1
          <6> QED BY <3>1, <4>1, <6>1
        <5>2. CASE r = k
          <6>1. 1 \in 1 .. k - 1
            BY <3>0
          <6>2. PICK j \in 1 .. Len(u) : u[j] = ranks[1]
            BY <3>1, <6>1
          <6>3. u[j] = ranks[k]
            BY <3>3, <3>5
          <6> QED BY <4>1, <5>2, <6>3
        <5> QED BY <5>1, <5>2
      <4> QED BY <2>0, <3>1, <4>1, <4>2
    <3> QED BY <3>4, <3>5
  <2> QED BY <2>1, <2>2
<1>13. \A k \in 0 .. L : k \in T
  <2>1. L \in Nat
    BY <1>1
  <2> HIDE DEF T
  <2> QED BY <1>11, <1>12, <2>1, InductTo
<1>14. L \in T
  <2>1. L \in 0 .. L
    BY <1>1
  <2> HIDE DEF T
  <2> QED BY <1>13, <2>1
<1>15. list[L] \in Seq(N) /\ \A r \in 1 .. L : \E j \in 1 .. Len(list[L]) : list[L][j] = ranks[r]
  <2>1. L > 0
    BY <1>1
  <2> QED BY <1>14, <2>1
<1> QED BY <1>9, <1>15 DEF L

(* The ranks of the machines of a list that has those of all ranks are, in  *)
(* all, at least as many as the ranks.                                      *)
LEMMA RanksCovered ==
  ASSUME NEW N, NEW ranks \in Seq(N), NEW list \in Seq(N),
         \A r \in 1 .. Len(ranks) : \E j \in 1 .. Len(list) : list[j] = ranks[r]
  PROVE  LET c == [k \in 1 .. Len(list) |-> Count(list[k], ranks)]
         IN  c \in [1 .. Len(list) -> Nat] /\ Len(ranks) <= UpTo(c, Len(list))
<1> DEFINE n == Len(list)
           c == [k \in 1 .. n |-> Count(list[k], ranks)]
           B(k) == {r \in 1 .. Len(ranks) : ranks[r] = list[k]}
           A(k) == {r \in 1 .. Len(ranks) : \E j \in 1 .. k : list[j] = ranks[r]}
<1>1. n \in Nat /\ Len(ranks) \in Nat /\ DOMAIN ranks = 1 .. Len(ranks)
  OBVIOUS
<1>2. \A k \in 1 .. n : Count(list[k], ranks) \in Nat
  BY CountType
<1>3. c \in [1 .. n -> Nat] /\ c \in [1 .. n -> Int] /\ \A k \in 1 .. n : c[k] = Count(list[k], ranks)
  BY <1>2
<1>4. \A k \in 1 .. n : Cardinality(B(k)) = c[k]
  <2>1. \A k \in 1 .. n : Count(list[k], ranks) = Cardinality(B(k))
    BY <1>1 DEF Count
  <2> HIDE DEF c, B
  <2> QED BY <1>3, <2>1
<1> HIDE DEF c
<1>5. IsFiniteSet(1 .. Len(ranks)) /\ Cardinality(1 .. Len(ranks)) = Len(ranks)
  BY <1>1, Upward
<1>6. \A k : IsFiniteSet(A(k)) /\ IsFiniteSet(B(k)) /\ Cardinality(A(k)) \in Nat /\ Cardinality(B(k)) \in Nat
  <2>1. \A k : A(k) \subseteq 1 .. Len(ranks) /\ B(k) \subseteq 1 .. Len(ranks)
    OBVIOUS
  <2> HIDE DEF A, B
  <2> QED BY <1>5, <2>1, FS_Subset, FS_CardinalityType
<1> DEFINE T == {k \in Nat : Cardinality(A(k)) <= UpTo(c, k)}
<1>7. T \in SUBSET Nat /\ 0 \in T
  <2>1. A(0) = {}
    OBVIOUS
  <2>2. Cardinality(A(0)) = 0
    BY <2>1, FS_EmptySet
  <2>3. UpTo(c, 0) = 0
    BY <1>1, <1>3, UpToIs
  <2> HIDE DEF A
  <2> QED BY <2>2, <2>3
<1>8. ASSUME NEW k \in 1 .. n, k - 1 \in T PROVE k \in T
  <2>0. k \in Nat /\ k - 1 \in Nat
    BY <1>1
  <2>1. UpTo(c, k) = UpTo(c, k - 1) + c[k] /\ UpTo(c, k - 1) \in Int
    BY <1>1, <1>3, <2>0, UpToIs
  <2>2. A(k) = A(k - 1) \cup B(k)
    <3>1. \A j \in 1 .. k : j = k \/ j \in 1 .. k - 1
      BY <2>0
    <3>2. 1 .. k - 1 \subseteq 1 .. k /\ k \in 1 .. k
      BY <2>0
    <3> QED BY <3>1, <3>2
  <2>3. Cardinality(A(k - 1) \cup B(k)) <= Cardinality(A(k - 1)) + Cardinality(B(k))
    <3> HIDE DEF A, B
    <3>1. Cardinality(A(k - 1) \cup B(k)) = Cardinality(A(k - 1)) + Cardinality(B(k)) - Cardinality(A(k - 1) \cap B(k))
      BY <1>6, FS_Union
    <3>2. Cardinality(A(k - 1) \cap B(k)) \in Nat
      <4>1. A(k - 1) \cap B(k) \subseteq A(k - 1)
        OBVIOUS
      <4> QED BY <1>6, <4>1, FS_Subset, FS_CardinalityType
    <3> QED BY <1>6, <3>1, <3>2
  <2>4. Cardinality(A(k - 1)) <= UpTo(c, k - 1)
    BY <1>8
  <2>5. Cardinality(B(k)) = c[k] /\ c[k] \in Nat
    BY <1>3, <1>4
  <2>6. Cardinality(A(k)) <= UpTo(c, k)
    <3> DEFINE a == Cardinality(A(k - 1))
               b == Cardinality(B(k))
               d == Cardinality(A(k))
    <3>1. a \in Nat /\ b \in Nat /\ d \in Nat /\ d <= a + b
      <4> HIDE DEF A, B
      <4> QED BY <1>6, <2>2, <2>3
    <3>2. a <= UpTo(c, k - 1) /\ b = c[k]
      BY <2>4, <2>5
    <3> HIDE DEF a, b, d, A, B
    <3>3. d <= UpTo(c, k)
      BY <2>1, <2>5, <3>1, <3>2
    <3> QED BY <3>3 DEF d
  <2> HIDE DEF A, B
  <2> QED BY <2>0, <2>6
<1>9. \A k \in 0 .. n : k \in T
  <2> HIDE DEF T
  <2> QED BY <1>1, <1>7, <1>8, InductTo
<1>10. Cardinality(A(n)) <= UpTo(c, n)
  <2>1. n \in T
    <3> HIDE DEF T
    <3> QED BY <1>1, <1>9
  <2> HIDE DEF A
  <2> QED BY <2>1
<1>11. A(n) = 1 .. Len(ranks)
  OBVIOUS
<1> HIDE DEF A
<1>12. Len(ranks) <= UpTo(c, n)
  BY <1>5, <1>10, <1>11
<1> QED BY <1>3, <1>12 DEF c

-----------------------------------------------------------------------------
(* The invariant.                                                           *)

TypeOK ==
  /\ cpus \in [1 .. Nodes -> SUBSET Cores] /\ where \in Seq(1 .. Nodes) /\ nodelist \in Seq(1 .. Nodes)
  /\ max_cpus \in [Ix -> Nat] /\ assigned_cpus \in [Ix -> Nat] /\ spawned_cpus \in [Ix -> Int]
  /\ conf \in [slurm : BOOLEAN, dist : {"spread", "compact"}, many : BOOLEAN]
  /\ spawn \in [method : {"merge", "baseline"}, initial : Nat, target : Nat, qty : Int, created : Nat]
  /\ pc \in {"start", "idle", "spread", "fill", "rest", "compact", "remove", "sets", "planned", "abort", "short"}
  /\ i \in Nat /\ left \in Int /\ not_full \in Int /\ tam_bl \in Int /\ reconfs \in Nat

(* The list has the machine of every rank, and the counts have every rank.  *)
KnownOK ==
  /\ pc = "start" => nodelist = <<>> /\ where # <<>>
  /\ pc # "start" => /\ \A r \in DOMAIN where : \E k \in Ix : nodelist[k] = where[r]
                     /\ Len(where) <= UpTo(assigned_cpus, Len(nodelist))

(* Between reconfigurations no change is planned; a reconfiguration is as   *)
(* it was asked for.                                                        *)
RequestOK ==
  /\ pc \in {"start", "idle"} => \A k \in Ix : spawned_cpus[k] = 0
  /\ pc \notin {"start", "idle"} =>
       /\ spawn.initial = Len(where) /\ spawn.target > 0 /\ spawn.qty # 0
       /\ spawn.created = IF spawn.method = "merge" THEN Len(where) ELSE 0
       /\ spawn.qty = spawn.target - spawn.created
  /\ pc \in {"spread", "fill", "rest", "compact", "sets"} => spawn.qty > 0 /\ \A k \in Ix : spawned_cpus[k] >= 0

(* The nodes with room.                                                     *)
NotFull == {k \in Ix : max_cpus[k] > Occupied(k)}
Ahead(m) == {k \in NotFull : k >= m}

(* Below m the nodes have gone from level c to level d: those with room are *)
(* at the level and the others not above.                                   *)
Levels(c, d, m) ==
  \A k \in Ix : IF k < m THEN spawned_cpus[k] <= d /\ (k \in NotFull => spawned_cpus[k] >= d)
                         ELSE spawned_cpus[k] <= c /\ (k \in NotFull => spawned_cpus[k] >= c)

(* spread_dist: rounds in which the nodes with room rise together.          *)
SpreadOK ==
  /\ pc \in {"spread", "fill", "rest"} =>
       /\ conf.dist = "spread" /\ left >= 0 /\ left + UpTo(spawned_cpus, Len(nodelist)) = spawn.qty
       /\ pc # "rest" => not_full = Cardinality(NotFull)
  /\ pc = "spread" => \E c \in Nat : Levels(c, c, 1)
  /\ pc = "fill" => /\ tam_bl > 0 /\ i \in Ix /\ left >= tam_bl * Cardinality(Ahead(i))
                    /\ \E c \in Nat : Levels(c, c + tam_bl, i)
  /\ pc = "rest" => /\ i \in 1 .. Len(nodelist) + 1 /\ left <= Cardinality(Ahead(i))
                    /\ \E c \in Nat : \A k \in Ix :
                         /\ spawned_cpus[k] <= IF k < i THEN c + 1 ELSE c
                         /\ k \in NotFull => spawned_cpus[k] >= c

(* compact_dist: the nodes before the last one used are full, those after   *)
(* it empty.                                                                *)
Compacted ==
  /\ i \in 1 .. Len(nodelist) + 1
  /\ \A k \in Ix : k >= i => spawned_cpus[k] = 0
  /\ \A k \in Ix : k < i - 1 => Occupied(k) >= max_cpus[k]
CompactOK ==
  pc = "compact" =>
    /\ conf.dist = "compact" /\ Compacted
    /\ left <= spawn.target /\ left = spawn.created + UpTo(spawned_cpus, Len(nodelist))
    /\ left < spawn.target => \A k \in Ix : k < i => Occupied(k) >= max_cpus[k]

SetsOK ==
  pc = "sets" =>
    /\ UpTo(spawned_cpus, Len(nodelist)) = spawn.qty
    /\ conf.dist = "compact" => Compacted

(* The counts of the nodes from m on.                                       *)
AssignedFrom(m) == UpTo(assigned_cpus, Len(nodelist)) - UpTo(assigned_cpus, m - 1)

(* remove_dist: the nodes after i are empty, those before it as they were.  *)
RemoveOK ==
  pc = "remove" =>
    /\ spawn.qty < 0 /\ i \in 0 .. Len(nodelist)
    /\ \A k \in Ix : spawned_cpus[k] = IF k > i THEN - assigned_cpus[k] ELSE 0
    /\ left = UpTo(spawned_cpus, Len(nodelist)) - spawn.qty
    /\ left = (- spawn.qty) - AssignedFrom(i + 1)
    /\ IF i < Len(nodelist) THEN left + assigned_cpus[i + 1] > 0 ELSE left > 0

(* The nodes from the last one on empty but for what it gives back.         *)
CutOK ==
  /\ i + 1 \in Ix /\ left <= 0 /\ left + assigned_cpus[i + 1] > 0
  /\ \A k \in Ix : spawned_cpus[k] = IF k > i + 1 THEN - assigned_cpus[k]
                                     ELSE IF k = i + 1 THEN (- assigned_cpus[k]) - left ELSE 0
  /\ left = (- spawn.qty) - AssignedFrom(i + 1)

(* The hosts of the sets: each node as often as it has new processes, or    *)
(* not at all.                                                              *)
HostsOK ==
  \E c \in [Ix -> Nat] :
    /\ \A k \in Ix : c[k] <= spawned_cpus[k]
    /\ Placed \in Seq({nodelist[k] : k \in Ix}) /\ Len(Placed) = UpTo(c, Len(nodelist))
    /\ OneEach => \A k \in Ix : Count(nodelist[k], Placed) = c[k]

PlannedOK ==
  pc = "planned" =>
    /\ UpTo(spawned_cpus, Len(nodelist)) = spawn.qty
    /\ spawn.qty > 0 => HostsOK
    /\ spawn.qty < 0 => CutOK

Inv ==
  /\ TypeOK /\ KnownOK /\ RequestOK /\ NodeBounds /\ SpreadOK /\ CompactOK /\ SetsOK
  /\ RemoveOK /\ PlannedOK /\ Distributed /\ HostsComplete

-----------------------------------------------------------------------------
(* Facts of the states.                                                     *)

(* The vectors of mall are as long as the list.                             *)
LEMMA Sizes ==
  ASSUME TypeOK
  PROVE  /\ Len(nodelist) \in Nat /\ Ix = 1 .. Len(nodelist)
         /\ spawned_cpus \in [1 .. Len(nodelist) -> Int]
         /\ assigned_cpus \in [1 .. Len(nodelist) -> Nat] /\ assigned_cpus \in [1 .. Len(nodelist) -> Int]
         /\ max_cpus \in [1 .. Len(nodelist) -> Nat]
         /\ \A k \in Ix : spawned_cpus[k] \in Int /\ assigned_cpus[k] \in Nat /\ max_cpus[k] \in Nat
                          /\ Occupied(k) \in Int /\ k \in Nat /\ nodelist[k] \in 1 .. Nodes
<1>1. nodelist \in Seq(1 .. Nodes)
  BY DEF TypeOK
<1>2. Len(nodelist) \in Nat /\ Ix = 1 .. Len(nodelist) /\ \A k \in Ix : nodelist[k] \in 1 .. Nodes
  BY <1>1, LenProperties, ElementOfSeq DEF Ix
<1>3. max_cpus \in [Ix -> Nat] /\ assigned_cpus \in [Ix -> Nat] /\ spawned_cpus \in [Ix -> Int]
  BY DEF TypeOK
<1>4. \A k \in Ix : spawned_cpus[k] \in Int /\ assigned_cpus[k] \in Nat /\ max_cpus[k] \in Nat
  BY <1>3
<1>5. \A k \in Ix : Occupied(k) \in Int
  BY <1>4 DEF Occupied
<1>6. assigned_cpus \in [1 .. Len(nodelist) -> Int]
  BY <1>2, <1>3
<1> QED BY <1>2, <1>3, <1>4, <1>5, <1>6

(* The nodes with room are finitely many.                                   *)
LEMMA Aheads ==
  ASSUME TypeOK
  PROVE  /\ IsFiniteSet(NotFull) /\ Cardinality(NotFull) \in Nat /\ Ahead(1) = NotFull
         /\ \A m : IsFiniteSet(Ahead(m)) /\ Cardinality(Ahead(m)) \in Nat
<1>1. Len(nodelist) \in Nat /\ Ix = 1 .. Len(nodelist)
  BY Sizes
<1>2. IsFiniteSet(1 .. Len(nodelist))
  BY <1>1, Upward
<1>3. NotFull \subseteq 1 .. Len(nodelist)
  BY <1>1 DEF NotFull
<1>4. IsFiniteSet(NotFull) /\ Cardinality(NotFull) \in Nat
  BY <1>2, <1>3, FS_Subset, FS_CardinalityType
<1>5. Ahead(1) = NotFull
  <2>1. \A k \in NotFull : k >= 1
    BY <1>1, <1>3
  <2> QED BY <2>1 DEF Ahead
<1>6. ASSUME NEW m PROVE IsFiniteSet(Ahead(m)) /\ Cardinality(Ahead(m)) \in Nat
  <2>1. Ahead(m) \subseteq NotFull
    BY DEF Ahead
  <2> QED BY <1>4, <2>1, FS_Subset, FS_CardinalityType
<1> QED BY <1>4, <1>5, <1>6

(* One node is passed.                                                      *)
LEMMA Passed ==
  ASSUME TypeOK, NEW m \in Ix
  PROVE  /\ Ahead(m) = (IF m \in NotFull THEN Ahead(m + 1) \cup {m} ELSE Ahead(m + 1)) /\ m \notin Ahead(m + 1)
         /\ Cardinality(Ahead(m)) = Cardinality(Ahead(m + 1)) + (IF m \in NotFull THEN 1 ELSE 0)
<1>1. Ix = 1 .. Len(nodelist) /\ NotFull \subseteq Ix /\ Len(nodelist) \in Nat
  BY Sizes DEF NotFull
<1>2. /\ Ahead(m) = (IF m \in NotFull THEN Ahead(m + 1) \cup {m} ELSE Ahead(m + 1)) /\ m \notin Ahead(m + 1)
  <2>1. m \in Nat /\ \A k \in NotFull : k \in Nat
    BY <1>1
  <2>2. \A k \in NotFull : (k >= m <=> k = m \/ k >= m + 1) /\ ~(m >= m + 1)
    BY <2>1
  <2> QED BY <2>2 DEF Ahead
<1>3. IsFiniteSet(Ahead(m + 1)) /\ Cardinality(Ahead(m + 1)) \in Nat
  BY Aheads
<1>4. CASE m \in NotFull
  <2>1. Cardinality(Ahead(m + 1) \cup {m}) = Cardinality(Ahead(m + 1)) + 1
    BY <1>2, <1>3, FS_AddElement
  <2> QED BY <1>2, <1>3, <1>4, <2>1
<1>5. CASE m \notin NotFull
  BY <1>2, <1>3, <1>5
<1> QED BY <1>4, <1>5

(* None is ahead of the end.                                                *)
LEMMA NoneAhead ==
  ASSUME TypeOK PROVE Cardinality(Ahead(Len(nodelist) + 1)) = 0
<1>1. Ix = 1 .. Len(nodelist) /\ NotFull \subseteq Ix /\ Len(nodelist) \in Nat
  BY Sizes DEF NotFull
<1>2. Ahead(Len(nodelist) + 1) = {}
  <2>1. \A k \in NotFull : ~(k >= Len(nodelist) + 1)
    BY <1>1
  <2> QED BY <2>1 DEF Ahead
<1> QED BY <1>2, FS_EmptySet

(* Steps that change nothing.                                               *)
LEMMA Same ==
  ASSUME Inv, UNCHANGED vars
  PROVE  Inv'
<1> USE DEF vars
<1>1. TypeOK'
  BY DEF Inv, TypeOK, Ix, Cores
<1>2. KnownOK'
  BY DEF Inv, KnownOK, OneEach, Ix
<1>3. RequestOK'
  BY DEF Inv, RequestOK, Ix
<1>4. NodeBounds'
  BY DEF Inv, NodeBounds, Ix, Occupied
<1>5. SpreadOK'
  BY DEF Inv, SpreadOK, Levels, NotFull, Ahead, Ix, Occupied
<1>6. CompactOK' /\ SetsOK'
  BY DEF Inv, CompactOK, SetsOK, Compacted, Ix, Occupied
<1>7. RemoveOK'
  BY DEF Inv, RemoveOK, AssignedFrom, Ix
<1>8. PlannedOK'
  <2>1. Placed' = Placed /\ OneEach' = OneEach /\ Ix' = Ix
    BY DEF Placed, OneEach, Ix
  <2>2. HostsOK' = HostsOK
    BY <2>1 DEF HostsOK
  <2>3. CutOK' = CutOK
    BY <2>1 DEF CutOK, AssignedFrom
  <2> QED BY <2>2, <2>3 DEF Inv, PlannedOK
<1>9. Distributed'
  BY DEF Inv, Distributed, Ix, Occupied
<1>10. HostsComplete'
  BY DEF Inv, HostsComplete, Complete, Placed, Used, Ix
<1> QED BY <1>1, <1>2, <1>3, <1>4, <1>5, <1>6, <1>7, <1>8, <1>9, <1>10 DEF Inv

(* The vectors are empty before the discovery.                              *)
LEMMA Start ==
  ASSUME Init
  PROVE  Inv
<1>1. pc = "start" /\ nodelist = <<>> /\ DOMAIN nodelist = {} /\ Ix = {}
  BY DEF Init, Ix
<1>2. where \in Seq(1 .. Nodes) /\ where # <<>>
  <2>1. PICK n \in 1 .. Nodes + 1 : where \in [1 .. n -> 1 .. Nodes]
    BY DEF Init, Launches
  <2>2. n \in Nat \ {0}
    BY PlacementAssumption, <2>1
  <2>3. where \in Seq(1 .. Nodes) /\ Len(where) = n
    <3> DEFINE M == 1 .. Nodes
    <3>1. n \in Nat /\ where \in [1 .. n -> M]
      BY <2>1, <2>2
    <3> HIDE DEF M
    <3>2. where \in Seq(M) /\ Len(where) = n
      BY <3>1
    <3> QED BY <3>2 DEF M
  <2>4. where # <<>>
    <3>1. Len(<<>>) = 0
      OBVIOUS
    <3> QED BY <2>2, <2>3, <3>1
  <2> QED BY <2>3, <2>4
<1>3. max_cpus \in [Ix -> Nat] /\ assigned_cpus \in [Ix -> Nat] /\ spawned_cpus \in [Ix -> Int]
  <2>1. <<>> \in [{} -> Nat] /\ <<>> \in [{} -> Int]
    OBVIOUS
  <2> QED BY <1>1, <2>1 DEF Init
<1>4. spawn \in [method : {"merge", "baseline"}, initial : Nat, target : Nat, qty : Int, created : Nat]
  BY DEF Init
<1>5. TypeOK
  BY <1>1, <1>2, <1>3, <1>4 DEF TypeOK, Init
<1>6. KnownOK
  BY <1>1, <1>2 DEF Init, KnownOK
<1>7. RequestOK /\ NodeBounds
  BY <1>1 DEF RequestOK, NodeBounds
<1>8. SpreadOK /\ CompactOK /\ SetsOK /\ RemoveOK /\ PlannedOK /\ Distributed /\ HostsComplete
  BY <1>1 DEF SpreadOK, CompactOK, SetsOK, RemoveOK, PlannedOK, Distributed, HostsComplete
<1> QED BY <1>5, <1>6, <1>7, <1>8 DEF Inv

-----------------------------------------------------------------------------
(* The discovery, and the start of a reconfiguration.                       *)

(* The cores of a machine are a number.                                     *)
LEMMA Counted ==
  ASSUME TypeOK, NEW m \in 1 .. Nodes
  PROVE  Cardinality(cpus[m]) \in Nat /\ GetCPUCount(m) \in Nat
<1>1. cpus[m] \subseteq Cores
  BY DEF TypeOK
<1>2. IsFiniteSet(Cores)
  BY PlacementAssumption, FS_Interval DEF Cores
<1>3. {c \in cpus[m] : 0 .. c \subseteq cpus[m]} \subseteq Cores
  BY <1>1
<1> QED BY <1>1, <1>2, <1>3, FS_Subset, FS_CardinalityType DEF GetCPUCount

(* What the discovery leaves.                                               *)
LEMMA Found ==
  ASSUME Inv, pc = "start", NEW info, info = IF conf.slurm THEN SlurmInfo ELSE HostsInfo
  PROVE  /\ info.list \in Seq(1 .. Nodes) /\ info.cores \in [DOMAIN info.list -> Nat]
         /\ \A r \in DOMAIN where : \E k \in DOMAIN info.list : info.list[k] = where[r]
<1>0. TypeOK /\ where \in Seq(1 .. Nodes) /\ where # <<>>
      /\ Nodes \in Nat
  BY PlacementAssumption DEF Inv, TypeOK, KnownOK
<1>1. DOMAIN where = 1 .. Len(where) /\ \A r \in DOMAIN where : where[r] \in 1 .. Nodes
  BY <1>0, LenProperties, ElementOfSeq
<1>2. CASE conf.slurm
  <2>1. info.list = [n \in 1 .. Nodes |-> n] /\ info.cores = [n \in 1 .. Nodes |-> Cardinality(cpus[n])]
    BY <1>2 DEF SlurmInfo
  <2>2. info.list \in Seq(1 .. Nodes) /\ DOMAIN info.list = 1 .. Nodes
    <3>1. [n \in 1 .. Nodes |-> n] \in [1 .. Nodes -> 1 .. Nodes]
      OBVIOUS
    <3> DEFINE M == 1 .. Nodes
    <3>2. [n \in M |-> n] \in [1 .. Nodes -> M]
      BY <3>1
    <3>3. \A g \in [1 .. Nodes -> M] : g \in Seq(M) /\ DOMAIN g = 1 .. Nodes
      <4> HIDE DEF M
      <4> QED BY <1>0
    <3> QED BY <2>1, <3>1, <3>3
  <2>3. info.cores \in [DOMAIN info.list -> Nat]
    <3>1. \A k \in 1 .. Nodes : Cardinality(cpus[k]) \in Nat
      BY <1>0, Counted
    <3>2. [k \in 1 .. Nodes |-> Cardinality(cpus[k])] \in [1 .. Nodes -> Nat]
      BY <3>1
    <3> QED BY <2>1, <2>2, <3>2
  <2>4. \A k \in 1 .. Nodes : info.list[k] = k
    BY <2>1
  <2>5. \A r \in DOMAIN where : \E k \in DOMAIN info.list : info.list[k] = where[r]
    BY <1>1, <2>2, <2>4
  <2> QED BY <2>2, <2>3, <2>5
<1>3. CASE ~conf.slurm
  <2> DEFINE list == UniqueHosts(where)
  <2>1. info.list = list /\ info.cores = [k \in DOMAIN list |-> GetCPUCount(list[k])]
    BY <1>3 DEF HostsInfo
  <2>2. list \in Seq(1 .. Nodes) /\ \A r \in 1 .. Len(where) : \E j \in 1 .. Len(list) : list[j] = where[r]
    BY <1>0, UniqueIs
  <2> HIDE DEF list
  <2>4. DOMAIN list = 1 .. Len(list) /\ \A k \in DOMAIN list : list[k] \in 1 .. Nodes
    BY <2>2, LenProperties, ElementOfSeq
  <2>5. info.cores \in [DOMAIN list -> Nat]
    BY SMTT(30), <1>0, <2>1, <2>4, Counted
  <2> QED BY ZenonT(60), <1>1, <2>1, <2>2, <2>4, <2>5
<1> QED BY <1>2, <1>3

(* MAM_check_hosts.                                                         *)
LEMMA CheckHostsKeeps ==
  ASSUME Inv, CheckHosts
  PROVE  Inv'
<1> DEFINE info == IF conf.slurm THEN SlurmInfo ELSE HostsInfo
<1>1. /\ pc = "start" /\ nodelist' = info.list /\ max_cpus' = info.cores
      /\ assigned_cpus' = AssignedCpus(info.list) /\ spawned_cpus' = Zeros(info.list) /\ pc' = "idle"
      /\ UNCHANGED <<cpus, where, conf, spawn, plan, reconfs>>
  BY DEF CheckHosts
<1>2. /\ info.list \in Seq(1 .. Nodes) /\ info.cores \in [DOMAIN info.list -> Nat]
      /\ \A r \in DOMAIN where : \E k \in DOMAIN info.list : info.list[k] = where[r]
  <2>1. info = IF conf.slurm THEN SlurmInfo ELSE HostsInfo
    OBVIOUS
  <2> HIDE DEF info
  <2> QED BY <1>1, <2>1, Found
<1> HIDE DEF info
<1>3. TypeOK /\ where \in Seq(1 .. Nodes)
  BY DEF Inv, TypeOK
<1>4. Ix' = DOMAIN info.list /\ DOMAIN info.list = 1 .. Len(info.list) /\ Len(info.list) \in Nat
      /\ DOMAIN where = 1 .. Len(where)
  BY <1>1, <1>2, <1>3, LenProperties DEF Ix
<1>5. /\ spawned_cpus' \in [Ix' -> Int] /\ \A k \in Ix' : spawned_cpus'[k] = 0
  BY <1>1, <1>4 DEF Zeros
<1>6. /\ assigned_cpus' \in [Ix' -> Nat] /\ Len(where) <= UpTo(assigned_cpus', Len(info.list))
  <2> DEFINE list == info.list
             c == [k \in 1 .. Len(list) |-> Count(list[k], where)]
  <2>1. assigned_cpus' = c
    BY <1>1, <1>4 DEF AssignedCpus, RanksOn, Count
  <2>2. c \in [1 .. Len(list) -> Nat] /\ Len(where) <= UpTo(c, Len(list))
    <3>1. \A r \in 1 .. Len(where) : \E j \in 1 .. Len(list) : list[j] = where[r]
      BY <1>2, <1>4
    <3> HIDE DEF list
    <3>2. list \in Seq(1 .. Nodes)
      BY <1>2 DEF list
    <3> QED BY <1>3, <3>1, <3>2, RanksCovered
  <2> QED BY <1>4, <2>1, <2>2
<1>7. TypeOK'
  BY <1>1, <1>2, <1>3, <1>4, <1>5, <1>6 DEF TypeOK, plan, Cores
<1>8. KnownOK'
  BY <1>1, <1>2, <1>4, <1>6 DEF KnownOK, OneEach
<1>9. RequestOK' /\ NodeBounds'
  BY <1>1, <1>4, <1>5, <1>6 DEF RequestOK, NodeBounds
<1>10. SpreadOK' /\ CompactOK' /\ SetsOK' /\ RemoveOK' /\ PlannedOK' /\ Distributed' /\ HostsComplete'
  BY <1>1 DEF SpreadOK, CompactOK, SetsOK, RemoveOK, PlannedOK, Distributed, HostsComplete
<1> QED BY <1>7, <1>8, <1>9, <1>10 DEF Inv

(* set_spawn_configuration.                                                 *)
LEMMA ReconfigureKeeps ==
  ASSUME Inv, NEW method \in {"merge", "baseline"}, NEW target \in 1 .. Nodes * MaxCores, Reconfigure(method, target)
  PROVE  Inv'
<1> DEFINE initial == Len(where)
           created == IF method = "merge" THEN initial ELSE 0
           n == Len(nodelist)
<1>1. /\ pc = "idle" /\ reconfs < MaxReconfs /\ target # initial /\ reconfs' = reconfs + 1
      /\ spawn' = [method |-> method, initial |-> initial, target |-> target,
                   qty |-> target - created, created |-> created]
      /\ UNCHANGED <<known, spawned_cpus, tam_bl>>
  BY DEF Reconfigure
<1>2. \/ /\ target > created /\ pc' = conf.dist
         /\ left' = (IF conf.dist = "spread" THEN target - created ELSE created)
         /\ not_full' = Cardinality({k \in Ix : max_cpus[k] > IF created # 0 THEN assigned_cpus[k] ELSE 0})
         /\ i' = 1
      \/ /\ target < created
         /\ pc' = "remove" /\ left' = initial - target /\ i' = Len(nodelist)
         /\ not_full' = not_full
  BY DEF Reconfigure
<1>3. TypeOK /\ where \in Seq(1 .. Nodes) /\ initial \in Nat /\ created \in Nat /\ target \in Nat \ {0} /\ target # created
  <2>1. where \in Seq(1 .. Nodes)
    BY DEF Inv, TypeOK
  <2>2. Len(where) \in Nat
    BY <2>1, LenProperties
  <2>3. target \in Nat \ {0}
    OBVIOUS
  <2> QED BY <1>1, <2>1, <2>2, <2>3 DEF Inv
<1> HIDE DEF initial
<1>4. /\ spawn'.method = method /\ spawn'.initial = initial /\ spawn'.target = target
      /\ spawn'.qty = target - created /\ spawn'.created = created
      /\ spawn' \in [method : {"merge", "baseline"}, initial : Nat, target : Nat, qty : Int, created : Nat]
  <2> HIDE DEF created
  <2>1. target - created \in Int
    BY <1>3
  <2> QED BY <1>1, <1>3, <2>1
<1>5. /\ n \in Nat /\ Ix = 1 .. n /\ spawned_cpus \in [1 .. n -> Int]
      /\ assigned_cpus \in [1 .. n -> Int]
      /\ \A k \in Ix : spawned_cpus[k] = 0 /\ assigned_cpus[k] \in Nat /\ max_cpus[k] \in Nat
  BY <1>1, <1>3, Sizes DEF Inv, RequestOK
<1>6. UpTo(spawned_cpus, n) = 0
  BY <1>5, UpToZero
<1>7. Ix' = Ix /\ nodelist' = nodelist /\ spawned_cpus' = spawned_cpus /\ assigned_cpus' = assigned_cpus
      /\ max_cpus' = max_cpus /\ where' = where /\ conf' = conf /\ cpus' = cpus
  BY <1>1 DEF Ix, known
<1>8. /\ \A k \in Ix : Occupied(k)' = IF created # 0 THEN assigned_cpus[k] ELSE 0
      /\ NotFull' = {k \in Ix : max_cpus[k] > IF created # 0 THEN assigned_cpus[k] ELSE 0}
  <2>1. \A k \in Ix : Occupied(k)' = IF created # 0 THEN assigned_cpus[k] ELSE 0
    BY <1>4, <1>5, <1>7 DEF Occupied
  <2> HIDE DEF created
  <2> QED BY <1>7, <2>1 DEF NotFull
<1>9. pc' \in {"spread", "compact", "remove"} /\ left' \in Int /\ not_full' \in Int /\ i' \in Nat
  <2>1. conf.dist \in {"spread", "compact"} /\ left \in Int /\ not_full \in Int
    BY <1>3 DEF TypeOK
  <2>2. Cardinality(NotFull') \in Nat
    <3>1. IsFiniteSet(1 .. n)
      BY <1>5, Upward
    <3>2. NotFull' \subseteq 1 .. n
      BY <1>5, <1>8
    <3> QED BY <3>1, <3>2, FS_Subset, FS_CardinalityType
  <2> HIDE DEF created
  <2>3. CASE target > created
    BY <1>2, <1>3, <1>5, <1>8, <2>1, <2>2, <2>3
  <2>4. CASE ~(target > created)
    BY <1>2, <1>3, <1>5, <2>1, <2>4
  <2> QED BY <2>3, <2>4
<1>10. TypeOK'
  <2>1. reconfs' \in Nat /\ tam_bl' = tam_bl
    BY <1>1, <1>3 DEF TypeOK
  <2> QED BY <1>3, <1>4, <1>7, <1>9, <2>1 DEF TypeOK, Cores
<1>11. KnownOK'
  BY <1>1, <1>7, <1>9 DEF Inv, KnownOK, OneEach
<1>12. RequestOK'
  <2>1. \A k \in Ix : spawned_cpus[k] >= 0
    BY <1>5
  <2>2. target - created # 0 /\ (pc' # "remove" => target - created > 0)
    <3>1. pc' # "remove" => target > created
      BY <1>2
    <3> HIDE DEF created
    <3> QED BY <1>3, <3>1
  <2>3. created = (IF method = "merge" THEN Len(where) ELSE 0) /\ initial = Len(where)
    BY DEF initial
  <2> HIDE DEF created
  <2> QED BY <1>3, <1>4, <1>7, <1>9, <2>1, <2>2, <2>3 DEF RequestOK
<1>13. NodeBounds'
  BY <1>5, <1>7 DEF NodeBounds
<1>14. SpreadOK'
  <2>1. CASE pc' # "spread"
    BY <1>9, <2>1 DEF SpreadOK
  <2>2. CASE pc' = "spread"
    <3>1. conf.dist = "spread" /\ left' = target - created /\ target > created
          /\ not_full' = Cardinality(NotFull')
      <4> HIDE DEF created
      <4> QED BY <1>2, <1>8, <2>2
    <3>2. Levels(0, 0, 1)'
      BY <1>5, <1>7 DEF Levels
    <3>3. left' >= 0 /\ left' + UpTo(spawned_cpus, n)' = spawn'.qty
      <4> HIDE DEF created
      <4> QED BY <1>3, <1>4, <1>6, <1>7, <3>1
    <3> QED BY <1>7, <2>2, <3>1, <3>2, <3>3 DEF SpreadOK
  <2> QED BY <2>1, <2>2
<1>15. CompactOK'
  <2>1. CASE pc' # "compact"
    BY <2>1 DEF CompactOK
  <2>2. CASE pc' = "compact"
    <3>1. conf.dist = "compact" /\ left' = created /\ target > created /\ i' = 1
      <4> HIDE DEF created
      <4> QED BY <1>2, <2>2
    <3>2. Compacted'
      BY <1>5, <1>7, <3>1 DEF Compacted
    <3>3. left' <= spawn'.target /\ left' = spawn'.created + UpTo(spawned_cpus, n)'
      <4> HIDE DEF created
      <4> QED BY <1>3, <1>4, <1>6, <1>7, <3>1
    <3>4. \A k \in Ix : ~(k < 1)
      BY <1>5
    <3> QED BY <1>7, <3>1, <3>2, <3>3, <3>4 DEF CompactOK
  <2> QED BY <2>1, <2>2
<1>16. RemoveOK'
  <2>1. CASE pc' # "remove"
    BY <2>1 DEF RemoveOK
  <2>2. CASE pc' = "remove"
    <3>1. left' = initial - target /\ i' = n /\ target < created
      <4> HIDE DEF created
      <4> QED BY <1>2, <1>9, <2>2, Sizes, <1>3 DEF TypeOK
    <3>2. created = initial /\ created \in Nat
      BY <1>3, <3>1
    <3>3. AssignedFrom(i + 1)' = 0
      <4>0. assigned_cpus \in [Ix -> Nat] /\ n \in Nat
        BY <1>5
      <4>1. (n + 1) - 1 = n
        BY <4>0
      <4>3. UpTo(assigned_cpus, n) \in Int
        BY <1>5, UpToIs
      <4>2. AssignedFrom(i + 1)' = UpTo(assigned_cpus, n) - UpTo(assigned_cpus, (n + 1) - 1)
        BY <1>7, <3>1 DEF AssignedFrom
      <4> HIDE DEF created
      <4> QED BY <4>1, <4>2, <4>3
    <3>4. \A k \in Ix : ~(k > n)
      BY <1>5
    <3>5. spawn'.qty < 0 /\ left' = - spawn'.qty /\ left' > 0
      <4> HIDE DEF created
      <4> QED BY <1>3, <1>4, <3>1, <3>2
    <3> DEFINE a == AssignedFrom(i + 1)'
               u == UpTo(spawned_cpus, n)'
    <3>6. u = 0 /\ a = 0
      BY <1>6, <1>7, <3>3
    <3>7. left' = u - spawn'.qty /\ left' = (- spawn'.qty) - a
      <4> HIDE DEF a, u
      <4> QED BY <1>4, <3>5, <3>6
    <3>8. \A k \in Ix : spawned_cpus'[k] = IF k > n THEN - assigned_cpus[k] ELSE 0
      BY <1>5, <1>7, <3>4
    <3>9. i' \in 0 .. n /\ ~(i' < n)
      BY <1>5, <3>1
    <3> HIDE DEF n
    <3> QED BY <1>7, <3>1, <3>5, <3>7, <3>8, <3>9 DEF RemoveOK, n
  <2> QED BY <2>1, <2>2
<1>17. SetsOK' /\ PlannedOK' /\ Distributed' /\ HostsComplete'
  BY <1>9 DEF SetsOK, PlannedOK, Distributed, HostsComplete
<1> QED BY <1>10, <1>11, <1>12, <1>13, <1>14, <1>15, <1>16, <1>17 DEF Inv

-----------------------------------------------------------------------------
(* The distributions.                                                       *)

(* Steps of the loops keep what is known.                                   *)
LEMMA StillKnown ==
  ASSUME Inv, pc \notin {"start", "idle"}, pc' \notin {"start", "idle"},
         UNCHANGED <<known, spawn, reconfs>>, spawned_cpus' \in [Ix -> Int]
  PROVE  /\ KnownOK'
         /\ spawn.initial = Len(where) /\ spawn.target > 0 /\ spawn.qty # 0
         /\ spawn.created = (IF spawn.method = "merge" THEN Len(where) ELSE 0)
         /\ spawn.qty = spawn.target - spawn.created
         /\ spawn.qty \in Int /\ spawn.target \in Nat /\ spawn.created \in Nat
         /\ Ix' = Ix /\ nodelist' = nodelist /\ max_cpus' = max_cpus /\ assigned_cpus' = assigned_cpus
         /\ spawn' = spawn /\ conf' = conf /\ where' = where
         /\ (i' \in Nat /\ left' \in Int /\ not_full' \in Int /\ tam_bl' \in Int
              /\ pc' \in {"spread", "fill", "rest", "compact", "remove", "sets", "planned", "abort", "short"} => TypeOK')
         /\ (spawn.qty > 0 /\ (\A k \in Ix : spawned_cpus'[k] >= 0) => RequestOK')
         /\ (pc' \in {"remove", "planned", "abort", "short"} => RequestOK')
<1>1. /\ TypeOK /\ Ix' = Ix /\ nodelist' = nodelist /\ max_cpus' = max_cpus /\ assigned_cpus' = assigned_cpus
      /\ spawn' = spawn /\ conf' = conf /\ where' = where /\ cpus' = cpus /\ reconfs' = reconfs
  BY DEF known, Ix, Inv
<1>2. /\ spawn.initial = Len(where) /\ spawn.target > 0 /\ spawn.qty # 0
      /\ spawn.created = (IF spawn.method = "merge" THEN Len(where) ELSE 0)
      /\ spawn.qty = spawn.target - spawn.created
  BY DEF Inv, RequestOK
<1>3. KnownOK'
  BY <1>1 DEF Inv, KnownOK, OneEach
<1>4. spawn.qty \in Int /\ spawn.target \in Nat /\ spawn.created \in Nat
  BY <1>1 DEF TypeOK
<1>5. i' \in Nat /\ left' \in Int /\ not_full' \in Int /\ tam_bl' \in Int
        /\ pc' \in {"spread", "fill", "rest", "compact", "remove", "sets", "planned", "abort", "short"} => TypeOK'
  BY <1>1 DEF TypeOK, Cores
<1>6. /\ spawn.qty > 0 /\ (\A k \in Ix : spawned_cpus'[k] >= 0) => RequestOK'
      /\ pc' \in {"remove", "planned", "abort", "short"} => RequestOK'
  BY <1>1, <1>2 DEF RequestOK
<1> QED BY <1>1, <1>2, <1>3, <1>4, <1>5, <1>6

(* What a quotient is.                                                      *)
LEMMA Quotient ==
  ASSUME NEW a \in Nat, NEW b \in Nat \ {0}, a >= b
  PROVE  a \div b \in Nat \ {0} /\ a >= (a \div b) * b
  OBVIOUS

(* A round of spread_dist, or its end.                                      *)
LEMMA SpreadRoundKeeps ==
  ASSUME Inv, SpreadRound
  PROVE  Inv'
<1> DEFINE n == Len(nodelist)
<1>1. /\ pc = "spread" /\ i' = 1 /\ UNCHANGED <<known, spawned_cpus, spawn, left, not_full, sets, reconfs>>
      /\ \/ left > not_full /\ not_full > 0 /\ tam_bl' = left \div not_full /\ pc' = "fill"
         \/ left <= not_full /\ pc' = "rest" /\ tam_bl' = tam_bl
         \/ left > 0 /\ not_full = 0 /\ pc' = "abort" /\ tam_bl' = tam_bl
  BY DEF SpreadRound
<1>2. TypeOK /\ left \in Nat /\ not_full = Cardinality(NotFull) /\ conf.dist = "spread"
      /\ left + UpTo(spawned_cpus, n) = spawn.qty /\ (\E c \in Nat : Levels(c, c, 1))
      /\ spawn.qty > 0 /\ \A k \in Ix : spawned_cpus[k] >= 0
  BY <1>1 DEF Inv, SpreadOK, RequestOK, TypeOK
<1>3. n \in Nat /\ Ix = 1 .. n /\ spawned_cpus \in [Ix -> Int]
  BY <1>2, Sizes
<1>4. not_full \in Nat /\ Cardinality(Ahead(1)) = not_full
  BY <1>2, Aheads
<1>5. spawned_cpus' = spawned_cpus /\ left' = left /\ not_full' = not_full /\ pc' \in {"fill", "rest", "abort"}
  BY <1>1
<1>6. /\ KnownOK' /\ Ix' = Ix /\ nodelist' = nodelist /\ max_cpus' = max_cpus /\ assigned_cpus' = assigned_cpus
      /\ spawn' = spawn /\ conf' = conf
      /\ (i' \in Nat /\ left' \in Int /\ not_full' \in Int /\ tam_bl' \in Int
            /\ pc' \in {"spread", "fill", "rest", "compact", "remove", "sets", "planned", "abort", "short"} => TypeOK')
      /\ (spawn.qty > 0 /\ (\A k \in Ix : spawned_cpus'[k] >= 0) => RequestOK')
  <2>1. spawned_cpus' \in [Ix -> Int] /\ pc \notin {"start", "idle"} /\ pc' \notin {"start", "idle"}
        /\ UNCHANGED <<known, spawn, reconfs>>
    BY <1>1, <1>3, <1>5
  <2> QED BY <2>1, StillKnown
<1>7. tam_bl' \in Int /\ (pc' = "fill" => tam_bl' > 0 /\ left >= tam_bl' * not_full)
  <2>1. tam_bl \in Int
    BY <1>2 DEF TypeOK
  <2>2. CASE pc' = "fill"
    <3>1. left > not_full /\ not_full > 0 /\ tam_bl' = left \div not_full
      BY <1>1, <2>2
    <3>2. not_full \in Nat \ {0} /\ left >= not_full
      BY <1>2, <1>4, <3>1
    <3>3. left \div not_full \in Nat \ {0} /\ left >= (left \div not_full) * not_full
      BY <1>2, <3>2, Quotient
    <3> QED BY <3>1, <3>3
  <2> QED BY <1>1, <1>5, <2>1, <2>2
<1>8. TypeOK' /\ RequestOK'
  BY <1>1, <1>2, <1>4, <1>5, <1>6, <1>7
<1>9. \A k \in Ix : Occupied(k)' = Occupied(k)
  BY <1>5, <1>6 DEF Occupied
<1>10. NotFull' = NotFull
  BY <1>6, <1>9 DEF NotFull
<1>11. \A m : Ahead(m)' = Ahead(m)
  BY <1>10 DEF Ahead
<1>12. NodeBounds'
  BY <1>5, <1>6, <1>9 DEF Inv, NodeBounds
<1>13. SpreadOK'
  <2>1. PICK c \in Nat : Levels(c, c, 1)
    BY <1>2
  <2>2. \A k \in Ix : ~(k < 1) /\ spawned_cpus[k] <= c /\ (k \in NotFull => spawned_cpus[k] >= c)
    BY <1>3, <2>1 DEF Levels
  <2>3. left' >= 0 /\ left' + UpTo(spawned_cpus', n) = spawn.qty
    BY <1>2, <1>5
  <2>4. ASSUME pc' = "fill" PROVE i' \in Ix
    <3>1. NotFull # {}
      <4>1. not_full > 0
        BY <1>1, <2>4
      <4>2. NotFull = {} => Cardinality(NotFull) = 0
        BY FS_EmptySet
      <4> QED BY <1>2, <1>4, <4>1, <4>2
    <3>2. \E k \in Ix : TRUE
      BY <3>1 DEF NotFull
    <3> QED BY <1>1, <1>3, <3>2
  <2>5. ASSUME pc' = "fill" PROVE Levels(c, c + tam_bl, i)'
    BY <1>1, <1>5, <1>6, <1>10, <2>2 DEF Levels
  <2>6. ASSUME pc' = "rest" PROVE /\ i' \in 1 .. n + 1 /\ left <= Cardinality(Ahead(i)')
                                  /\ \A k \in Ix : /\ spawned_cpus'[k] <= IF k < i' THEN c + 1 ELSE c
                                                   /\ k \in NotFull' => spawned_cpus'[k] >= c
    <3>1. left <= not_full
      BY <1>1, <2>6
    <3>2. Ahead(i)' = Ahead(1)
      BY <1>1, <1>10 DEF Ahead
    <3> QED BY <1>1, <1>3, <1>4, <1>5, <1>10, <2>2, <3>1, <3>2
  <2>7. pc' = "fill" => left >= tam_bl' * Cardinality(Ahead(i)')
    <3>2. Ahead(i)' = Ahead(1)
      BY <1>1, <1>10 DEF Ahead
    <3> QED BY <1>4, <1>7, <3>2
  <2>8. not_full' = Cardinality(NotFull')
    BY <1>2, <1>5, <1>10
  <2> QED BY <1>2, <1>5, <1>6, <1>7, <2>3, <2>4, <2>5, <2>6, <2>7, <2>8 DEF SpreadOK
<1>14. CompactOK' /\ SetsOK' /\ RemoveOK' /\ PlannedOK' /\ Distributed' /\ HostsComplete'
  BY <1>5 DEF CompactOK, SetsOK, RemoveOK, PlannedOK, Distributed, HostsComplete
<1> QED BY <1>6, <1>8, <1>12, <1>13, <1>14 DEF Inv


(* One more for a node changes what it runs and nothing else.               *)
LEMMA MoreOnOne ==
  ASSUME TypeOK, NEW m \in Ix, NEW d \in Int, spawned_cpus' = [spawned_cpus EXCEPT ![m] = spawned_cpus[m] + d],
         UNCHANGED <<nodelist, max_cpus, assigned_cpus, spawn>>
  PROVE  /\ spawned_cpus' \in [Ix -> Int] /\ spawned_cpus'[m] = spawned_cpus[m] + d
         /\ \A k \in Ix : k # m => spawned_cpus'[k] = spawned_cpus[k]
         /\ UpTo(spawned_cpus', Len(nodelist)) = UpTo(spawned_cpus, Len(nodelist)) + d
         /\ UpTo(spawned_cpus, Len(nodelist)) \in Int
         /\ Occupied(m)' = Occupied(m) + d /\ Occupied(m) \in Int
         /\ \A k \in Ix : k # m => Occupied(k)' = Occupied(k)
         /\ \A k \in Ix : k # m => (k \in NotFull' <=> k \in NotFull)
         /\ Ahead(m + 1)' = Ahead(m + 1)
<1>1. Len(nodelist) \in Nat /\ Ix = 1 .. Len(nodelist) /\ spawned_cpus \in [1 .. Len(nodelist) -> Int]
      /\ \A k \in Ix : spawned_cpus[k] \in Int /\ assigned_cpus[k] \in Nat /\ k \in Nat
  BY Sizes
<1>2. /\ spawned_cpus' \in [Ix -> Int] /\ spawned_cpus'[m] = spawned_cpus[m] + d
      /\ \A k \in Ix : k # m => spawned_cpus'[k] = spawned_cpus[k]
  BY <1>1
<1>3. UpTo(spawned_cpus', Len(nodelist)) = UpTo(spawned_cpus, Len(nodelist)) + d
  <2> DEFINE f == spawned_cpus
             n == Len(nodelist)
  <2>1. n \in Nat /\ f \in [1 .. n -> Int] /\ m \in 1 .. n
    BY <1>1
  <2> HIDE DEF f, n
  <2>2. UpTo([f EXCEPT ![m] = f[m] + d], n) = UpTo(f, n) + d
    BY <2>1, UpToExcept
  <2> QED BY <2>2 DEF f, n
<1>4. Occupied(m)' = Occupied(m) + d
  BY <1>1, <1>2 DEF Occupied
<1>5. \A k \in Ix : k # m => Occupied(k)' = Occupied(k)
  BY <1>2 DEF Occupied
<1>6. Ix' = Ix
  BY DEF Ix
<1>7. \A k \in Ix : k # m => (k \in NotFull' <=> k \in NotFull)
  BY <1>5, <1>6 DEF NotFull
<1>8. Ahead(m + 1)' = Ahead(m + 1)
  <2>1. \A k \in Ix : k >= m + 1 => k # m
    BY <1>1
  <2>2. NotFull \subseteq Ix /\ NotFull' \subseteq Ix
    BY <1>6 DEF NotFull
  <2> QED BY <1>7, <2>1, <2>2 DEF Ahead
<1>9. UpTo(spawned_cpus, Len(nodelist)) \in Int /\ Occupied(m) \in Int
  BY <1>1, UpToIs, Sizes
<1> QED BY <1>2, <1>3, <1>4, <1>5, <1>7, <1>8, <1>9

(* What a node gets leaves it within its cores.                             *)
LEMMA WithinRoom ==
  ASSUME Inv, NEW m \in Ix, NEW d \in Nat, d # 0 => d <= max_cpus[m] - Occupied(m),
         spawned_cpus' = [spawned_cpus EXCEPT ![m] = spawned_cpus[m] + d],
         UNCHANGED <<nodelist, max_cpus, assigned_cpus, spawn>>
  PROVE  NodeBounds'
<1>1. TypeOK /\ Ix' = Ix
  BY DEF Inv, Ix
<1>2. \A k \in Ix : spawned_cpus[k] \in Int /\ max_cpus[k] \in Nat /\ Occupied(k) \in Int /\ assigned_cpus[k] \in Nat
  BY <1>1, Sizes
<1>3. /\ spawned_cpus'[m] = spawned_cpus[m] + d /\ Occupied(m)' = Occupied(m) + d
      /\ \A k \in Ix : k # m => spawned_cpus'[k] = spawned_cpus[k] /\ Occupied(k)' = Occupied(k)
  <2>1. TypeOK /\ d \in Int
    BY <1>1
  <2>2. /\ spawned_cpus'[m] = spawned_cpus[m] + d /\ Occupied(m)' = Occupied(m) + d
        /\ \A k \in Ix : k # m => spawned_cpus'[k] = spawned_cpus[k]
        /\ \A k \in Ix : k # m => Occupied(k)' = Occupied(k)
    BY <2>1, MoreOnOne
  <2> QED BY <2>2
<1>4. \A k \in Ix : (spawned_cpus[k] > 0 => Occupied(k) <= max_cpus[k]) /\ 0 <= assigned_cpus[k] + spawned_cpus[k]
  BY DEF Inv, NodeBounds
<1>5. (spawned_cpus'[m] > 0 => Occupied(m)' <= max_cpus[m]) /\ 0 <= assigned_cpus[m] + spawned_cpus'[m]
  <2> DEFINE s == spawned_cpus[m]
             o == Occupied(m)
             x == max_cpus[m]
             a == assigned_cpus[m]
  <2>1. s \in Int /\ o \in Int /\ x \in Nat /\ a \in Nat /\ (s > 0 => o <= x) /\ 0 <= a + s
        /\ spawned_cpus'[m] = s + d /\ Occupied(m)' = o + d /\ (d # 0 => d <= x - o)
    BY <1>2, <1>3, <1>4
  <2> HIDE DEF s, o, x, a
  <2>2. (s + d > 0 => o + d <= x) /\ 0 <= a + (s + d)
    BY <2>1
  <2> QED BY <2>1, <2>2 DEF s, o, x, a
<1>6. \A k \in Ix : (spawned_cpus'[k] > 0 => Occupied(k)' <= max_cpus[k]) /\ 0 <= assigned_cpus[k] + spawned_cpus'[k]
  BY <1>3, <1>4, <1>5
<1> QED BY <1>1, <1>6 DEF NodeBounds

(* A node in a round of spread_dist.                                        *)
LEMMA SpreadNodeKeeps ==
  ASSUME Inv, SpreadNode
  PROVE  Inv'
<1>0. TypeOK /\ pc = "fill" /\ i \in Ix
  BY DEF Inv, SpreadOK, SpreadNode
<1> PICK m \in Ix : m = i
  BY <1>0
<1> DEFINE n == Len(nodelist)
           room == max_cpus[m] - Occupied(m)
           share == SpreadShare(room)
<1>1. /\ pc = "fill" /\ spawned_cpus' = [spawned_cpus EXCEPT ![m] = spawned_cpus[m] + share] /\ left' = left - share
      /\ not_full' = (IF FillsUp(room) THEN not_full - 1 ELSE not_full) /\ i' = m + 1
      /\ pc' = (IF m = Len(nodelist) THEN "spread" ELSE "fill")
      /\ UNCHANGED <<known, spawn, tam_bl, sets, reconfs>>
  BY DEF SpreadNode
<1>2. /\ not_full = Cardinality(NotFull) /\ conf.dist = "spread"
      /\ left + UpTo(spawned_cpus, n) = spawn.qty
      /\ tam_bl > 0 /\ left >= 0 /\ left >= tam_bl * Cardinality(Ahead(m))
      /\ (\E c \in Nat : Levels(c, c + tam_bl, m))
  BY <1>1 DEF Inv, SpreadOK
<1>2a. left \in Nat /\ tam_bl \in Nat \ {0}
  <2>1. left \in Int /\ tam_bl \in Int
    BY <1>0 DEF TypeOK
  <2> QED BY <1>2, <2>1
<1>2b. spawn.qty > 0 /\ \A k \in Ix : spawned_cpus[k] >= 0
  BY <1>1 DEF Inv, RequestOK
<1>3. n \in Nat /\ Ix = 1 .. n /\ m \in Nat
      /\ \A k \in Ix : k \in Nat /\ spawned_cpus[k] \in Int /\ max_cpus[k] \in Nat /\ Occupied(k) \in Int
                       /\ assigned_cpus[k] \in Nat
  BY <1>0, Sizes
<1>4a. room \in Int
  BY <1>3
<1>4. /\ share \in Nat /\ share <= tam_bl
      /\ (room > 0 => share <= room) /\ (room > tam_bl => share = tam_bl)
      /\ (room <= 0 => share = 0) /\ (0 < room /\ room <= tam_bl => share = room)
      /\ (FillsUp(room) <=> 0 < room /\ room <= tam_bl)
  <2> HIDE DEF room
  <2> QED BY <1>2a, <1>4a DEF SpreadShare, FillsUp
<1>5. m \in NotFull <=> room > 0
  BY <1>3 DEF NotFull
<1> HIDE DEF share
<1>6a. UNCHANGED <<nodelist, max_cpus, assigned_cpus, spawn>> /\ share \in Int
  BY <1>1, <1>4 DEF known
<1>6. /\ spawned_cpus' \in [Ix -> Int] /\ spawned_cpus'[m] = spawned_cpus[m] + share
      /\ \A k \in Ix : k # m => spawned_cpus'[k] = spawned_cpus[k]
      /\ UpTo(spawned_cpus', n) = UpTo(spawned_cpus, n) + share /\ UpTo(spawned_cpus, n) \in Int
      /\ Occupied(m)' = Occupied(m) + share
      /\ \A k \in Ix : k # m => (k \in NotFull' <=> k \in NotFull)
      /\ Ahead(m + 1)' = Ahead(m + 1)
  BY <1>0, <1>1, <1>6a, MoreOnOne
<1>7. /\ KnownOK' /\ Ix' = Ix /\ nodelist' = nodelist /\ max_cpus' = max_cpus /\ assigned_cpus' = assigned_cpus
      /\ spawn' = spawn /\ conf' = conf
      /\ (i' \in Nat /\ left' \in Int /\ not_full' \in Int /\ tam_bl' \in Int
            /\ pc' \in {"spread", "fill", "rest", "compact", "remove", "sets", "planned", "abort", "short"} => TypeOK')
      /\ (spawn.qty > 0 /\ (\A k \in Ix : spawned_cpus'[k] >= 0) => RequestOK')
  <2>1. pc \notin {"start", "idle"} /\ pc' \notin {"start", "idle"} /\ UNCHANGED <<known, spawn, reconfs>>
    BY <1>1
  <2> QED BY <1>6, <2>1, StillKnown
<1>8. \A k \in Ix : spawned_cpus'[k] >= 0
  <2>1. spawned_cpus'[m] >= 0
    BY <1>2b, <1>3, <1>4, <1>6
  <2> QED BY <1>2b, <1>6, <2>1
<1>9. Cardinality(NotFull) \in Nat /\ IsFiniteSet(NotFull) /\ Cardinality(Ahead(m + 1)) \in Nat
  BY <1>0, Aheads
<1>10. TypeOK' /\ RequestOK'
  <2>1. i' \in Nat /\ left' \in Int /\ not_full' \in Int /\ tam_bl' \in Int /\ pc' \in {"spread", "fill"}
    BY <1>1, <1>2, <1>2a, <1>3, <1>4, <1>9
  <2> QED BY <1>2b, <1>7, <1>8, <2>1
<1>11. m \in NotFull' <=> m \in NotFull /\ ~FillsUp(room)
  <2>1. m \in NotFull' <=> room > share
    BY <1>3, <1>4, <1>6, <1>7 DEF NotFull
  <2>2. room > share <=> room > 0 /\ ~FillsUp(room)
    <3> HIDE DEF room
    <3> QED BY <1>2a, <1>4, <1>4a
  <2> HIDE DEF room
  <2> QED BY <1>5, <2>1, <2>2
<1>11a. NotFull' = IF FillsUp(room) THEN NotFull \ {m} ELSE NotFull
  <2> HIDE DEF room
  <2>1. NotFull \subseteq Ix /\ NotFull' \subseteq Ix
    BY <1>7 DEF NotFull
  <2>2. CASE FillsUp(room)
    <3>1. \A k \in Ix : k \in NotFull' <=> k \in NotFull \ {m}
      BY <1>6, <1>11, <2>2
    <3>2. NotFull' = NotFull \ {m}
      BY <2>1, <3>1
    <3> QED BY <2>2, <3>2
  <2>3. CASE ~FillsUp(room)
    <3>1. \A k \in Ix : k \in NotFull' <=> k \in NotFull
      BY <1>6, <1>11, <2>3
    <3>2. NotFull' = NotFull
      BY <2>1, <3>1
    <3> QED BY <2>3, <3>2
  <2> QED BY <2>2, <2>3
<1>12. NodeBounds'
  <2>1. share # 0 => share <= room
    <3> HIDE DEF room
    <3> QED BY <1>4, <1>4a
  <2> QED BY <1>1, <1>4, <1>6a, <2>1, WithinRoom
<1>13. PICK c \in Nat : Levels(c, c + tam_bl, m)
  BY <1>2
<1>14. ASSUME NEW k \in Ix PROVE
          IF k < m + 1 THEN spawned_cpus'[k] <= c + tam_bl /\ (k \in NotFull' => spawned_cpus'[k] >= c + tam_bl)
                       ELSE spawned_cpus'[k] <= c /\ (k \in NotFull' => spawned_cpus'[k] >= c)
  <2>1. IF k < m THEN spawned_cpus[k] <= c + tam_bl /\ (k \in NotFull => spawned_cpus[k] >= c + tam_bl)
                 ELSE spawned_cpus[k] <= c /\ (k \in NotFull => spawned_cpus[k] >= c)
    BY <1>13 DEF Levels
  <2>2. k \in Nat /\ m \in Nat
    BY <1>3
  <2>3. CASE k # m
    <3>1. spawned_cpus'[k] = spawned_cpus[k] /\ (k \in NotFull' <=> k \in NotFull) /\ (k < m + 1 <=> k < m)
      BY <1>6, <2>2, <2>3
    <3> QED BY <2>1, <3>1
  <2>4. CASE k = m
    <3>1. spawned_cpus[m] <= c /\ (m \in NotFull => spawned_cpus[m] >= c) /\ k < m + 1
      BY <2>1, <2>2, <2>4
    <3>2. m \in NotFull' => m \in NotFull /\ share = tam_bl
      <4> HIDE DEF room
      <4> QED BY <1>2a, <1>4, <1>4a, <1>5, <1>11
    <3> DEFINE s == spawned_cpus[m]
    <3>3. s \in Int /\ spawned_cpus'[k] = s + share /\ s <= c /\ (k \in NotFull' => s >= c /\ share = tam_bl)
      BY <1>3, <1>6, <2>4, <3>1, <3>2
    <3> HIDE DEF s, room
    <3>4. s + share <= c + tam_bl /\ (s >= c /\ share = tam_bl => s + share >= c + tam_bl)
      BY <1>2a, <1>4, <3>3
    <3> QED BY <3>1, <3>3, <3>4
  <2> QED BY <2>3, <2>4
<1>15. not_full' = Cardinality(NotFull')
  <2>1. CASE FillsUp(room)
    <3>1. m \in NotFull
      <4> HIDE DEF room
      <4> QED BY <1>4, <1>5, <2>1
    <3>2. Cardinality(NotFull \ {m}) = Cardinality(NotFull) - 1
      BY <1>9, <3>1, FS_RemoveElement
    <3> QED BY <1>1, <1>2, <1>11a, <2>1, <3>2
  <2>2. CASE ~FillsUp(room)
    BY <1>1, <1>2, <1>11a, <2>2
  <2> QED BY <2>1, <2>2
<1>16. left' >= tam_bl * Cardinality(Ahead(m + 1)) /\ left' >= 0
  <2> DEFINE x == Cardinality(Ahead(m + 1))
             y == Cardinality(Ahead(m))
             e == IF m \in NotFull THEN 1 ELSE 0
  <2>1. x \in Nat /\ y = x + e
    BY <1>0, <1>9, Passed
  <2>2. e \in {0, 1} /\ share <= tam_bl * e
    <3>1. CASE m \in NotFull
      BY <1>2a, <1>4, <3>1
    <3>2. CASE m \notin NotFull
      <4>1. share = 0
        <5> HIDE DEF room
        <5> QED BY <1>4, <1>4a, <1>5, <3>2
      <4> QED BY <1>2a, <3>2, <4>1
    <3> QED BY <3>1, <3>2
  <2>3. left >= tam_bl * y
    BY <1>2
  <2> HIDE DEF x, y, e, room
  <2>4. tam_bl * (x + e) = tam_bl * x + tam_bl * e
    <3>1. CASE e = 0
      BY <1>2a, <2>1, <3>1
    <3>2. CASE e = 1
      <4>1. tam_bl \in Nat /\ x \in Nat
        BY <1>2a, <2>1
      <4>2. \A a, b \in Nat : a * (b + 1) = a * b + a
        OBVIOUS
      <4> QED BY <3>2, <4>1, <4>2
    <3> QED BY <2>2, <3>1, <3>2
  <2> DEFINE p == tam_bl * x
             q == tam_bl * e
  <2>5. p \in Nat /\ q \in Nat
    <3>1. \A a, b \in Nat : a * b \in Nat
      OBVIOUS
    <3> QED BY <1>2a, <2>1, <2>2, <3>1
  <2>6. left >= p + q /\ share <= q /\ left' = left - share
    BY <1>1, <2>1, <2>2, <2>3, <2>4
  <2> HIDE DEF p, q
  <2>7. left' >= p /\ left' >= 0
    BY <1>2a, <1>4, <2>5, <2>6
  <2> QED BY <2>7 DEF p, x
<1>17. left' + UpTo(spawned_cpus', n) = spawn.qty
  <2> DEFINE u == UpTo(spawned_cpus, n)
             v == UpTo(spawned_cpus', n)
  <2>1. v = u + share /\ u \in Int /\ left + u = spawn.qty /\ left' = left - share
    BY <1>1, <1>2, <1>6
  <2> HIDE DEF u, v
  <2>2. left' + v = spawn.qty
    BY <1>2a, <1>4, <2>1
  <2> QED BY <2>2 DEF v
<1>18. SpreadOK'
  <2>0. tam_bl' = tam_bl /\ c + tam_bl \in Nat
    BY <1>1, <1>2a
  <2>1. CASE m = n
    <3>0. \A k \in Ix : k < m + 1 /\ ~(k < 1)
      BY <1>3, <2>1
    <3>1. Levels(c + tam_bl, c + tam_bl, 1)'
      <4>1. \A k \in Ix : ~(k < 1) /\ spawned_cpus'[k] <= c + tam_bl /\ (k \in NotFull' => spawned_cpus'[k] >= c + tam_bl)
        BY <1>14, <3>0
      <4> QED BY <1>7, <2>0, <4>1 DEF Levels
    <3>2. \E d \in Nat : Levels(d, d, 1)'
      <4> DEFINE d == c + tam_bl
      <4>1. d \in Nat /\ d' = d
        BY <2>0
      <4>2. \A k \in Ix : ~(k < 1) /\ spawned_cpus'[k] <= d /\ (k \in NotFull' => spawned_cpus'[k] >= d)
        BY <1>14, <3>0
      <4> HIDE DEF d
      <4> PICK w \in Nat : w = d
        BY <4>1
      <4>3. Levels(w, w, 1)'
        BY <1>7, <4>2 DEF Levels
      <4> QED BY <4>3
    <3>3. pc' = "spread"
      BY <1>1, <2>1
    <3> QED BY <1>1, <1>2, <1>7, <1>15, <1>16, <1>17, <3>2, <3>3 DEF SpreadOK
  <2>2. CASE m # n
    <3>1. pc' = "fill" /\ i' \in Ix /\ tam_bl' = tam_bl /\ i' = m + 1
      BY <1>1, <1>3, <2>2
    <3>2. Ahead(i)' = Ahead(m + 1)
      <4>1. Ahead(i)' = Ahead(m + 1)'
        BY <3>1 DEF Ahead
      <4> QED BY <1>6, <4>1
    <3>3. Levels(c, c + tam_bl, i)'
      BY <1>7, <1>14, <3>1 DEF Levels
    <3> QED BY <1>1, <1>2, <1>2a, <1>7, <1>15, <1>16, <1>17, <3>1, <3>2, <3>3 DEF SpreadOK
  <2> QED BY <2>1, <2>2
<1>19. CompactOK' /\ SetsOK' /\ RemoveOK' /\ PlannedOK' /\ Distributed' /\ HostsComplete'
  BY <1>1 DEF CompactOK, SetsOK, RemoveOK, PlannedOK, Distributed, HostsComplete
<1> QED BY <1>7, <1>10, <1>12, <1>18, <1>19 DEF Inv

(* The rest of spread_dist, one process for each of the first nodes with    *)
(* room.                                                                    *)
LEMMA SpreadRestKeeps ==
  ASSUME Inv, SpreadRest
  PROVE  Inv'
<1> DEFINE n == Len(nodelist)
<1>1. /\ TypeOK /\ pc = "rest" /\ UNCHANGED <<known, spawn, not_full, tam_bl, sets, reconfs>>
      /\ UNCHANGED <<nodelist, max_cpus, assigned_cpus, spawn, conf, not_full, tam_bl>>
  BY DEF SpreadRest, known, Inv
<1>2. /\ conf.dist = "spread" /\ left + UpTo(spawned_cpus, n) = spawn.qty /\ left >= 0
      /\ i \in 1 .. n + 1 /\ left <= Cardinality(Ahead(i))
      /\ \E c \in Nat : \A k \in Ix : /\ spawned_cpus[k] <= IF k < i THEN c + 1 ELSE c
                                      /\ k \in NotFull => spawned_cpus[k] >= c
  BY <1>1 DEF Inv, SpreadOK
<1>3. left \in Nat /\ not_full \in Int /\ tam_bl \in Int
  <2>1. left \in Int /\ not_full \in Int /\ tam_bl \in Int
    BY <1>1 DEF TypeOK
  <2> QED BY <1>2, <2>1
<1>4. spawn.qty > 0 /\ \A k \in Ix : spawned_cpus[k] >= 0
  BY <1>1 DEF Inv, RequestOK
<1>5. n \in Nat /\ Ix = 1 .. n /\ spawned_cpus \in [Ix -> Int]
      /\ \A k \in Ix : k \in Nat /\ spawned_cpus[k] \in Int /\ max_cpus[k] \in Nat /\ Occupied(k) \in Int
                       /\ assigned_cpus[k] \in Nat
  BY <1>1, Sizes
<1>6. PICK c \in Nat : \A k \in Ix : /\ spawned_cpus[k] <= IF k < i THEN c + 1 ELSE c
                                     /\ k \in NotFull => spawned_cpus[k] >= c
  BY <1>2
<1>7. CASE i <= n /\ left > 0
  <2> PICK m \in Ix : m = i
    BY <1>2, <1>5, <1>7
  <2> DEFINE extra == IF max_cpus[m] > Occupied(m) THEN 1 ELSE 0
  <2>1. /\ spawned_cpus' = [spawned_cpus EXCEPT ![m] = spawned_cpus[m] + extra] /\ left' = left - extra
        /\ i' = m + 1 /\ pc' = "rest"
    BY <1>7 DEF SpreadRest
  <2>2. extra \in {0, 1} /\ (extra = 1 <=> m \in NotFull) /\ (extra # 0 => extra <= max_cpus[m] - Occupied(m))
    BY <1>5 DEF NotFull
  <2> HIDE DEF extra
  <2>3. extra \in Int /\ extra \in Nat
    BY <2>2
  <2>4. /\ spawned_cpus' \in [Ix -> Int] /\ spawned_cpus'[m] = spawned_cpus[m] + extra
        /\ \A k \in Ix : k # m => spawned_cpus'[k] = spawned_cpus[k]
        /\ UpTo(spawned_cpus', n) = UpTo(spawned_cpus, n) + extra /\ UpTo(spawned_cpus, n) \in Int
        /\ Occupied(m)' = Occupied(m) + extra
        /\ \A k \in Ix : k # m => (k \in NotFull' <=> k \in NotFull)
        /\ Ahead(m + 1)' = Ahead(m + 1)
    BY <1>1, <2>1, <2>3, MoreOnOne
  <2>5. /\ KnownOK' /\ Ix' = Ix
        /\ (i' \in Nat /\ left' \in Int /\ not_full' \in Int /\ tam_bl' \in Int
              /\ pc' \in {"spread", "fill", "rest", "compact", "remove", "sets", "planned", "abort", "short"} => TypeOK')
        /\ (spawn.qty > 0 /\ (\A k \in Ix : spawned_cpus'[k] >= 0) => RequestOK')
    <3>1. pc \notin {"start", "idle"} /\ pc' \notin {"start", "idle"}
      BY <1>1, <2>1
    <3> QED BY <1>1, <2>4, <3>1, StillKnown
  <2>6. \A k \in Ix : spawned_cpus'[k] >= 0
    <3>1. spawned_cpus'[m] >= 0
      BY <1>4, <1>5, <2>2, <2>4
    <3> QED BY <1>4, <2>4, <3>1
  <2>7. i' \in 1 .. n + 1 /\ left' \in Nat /\ i' \in Nat
    BY <1>3, <1>5, <1>7, <2>1, <2>2
  <2>8. TypeOK' /\ RequestOK'
    BY <1>1, <1>3, <1>4, <2>1, <2>5, <2>6, <2>7
  <2>9. NodeBounds'
    BY <1>1, <2>1, <2>2, <2>3, WithinRoom
  <2>10. left' + UpTo(spawned_cpus', n) = spawn.qty
    <3> DEFINE u == UpTo(spawned_cpus, n)
               v == UpTo(spawned_cpus', n)
    <3>1. v = u + extra /\ u \in Int /\ left + u = spawn.qty /\ left' = left - extra
      BY <1>2, <2>1, <2>4
    <3> HIDE DEF u, v
    <3>2. left' + v = spawn.qty
      BY <1>3, <2>3, <3>1
    <3> QED BY <3>2 DEF v
  <2>11. left' <= Cardinality(Ahead(i)')
    <3> DEFINE x == Cardinality(Ahead(m + 1))
               y == Cardinality(Ahead(m))
    <3>1. x \in Nat /\ y = x + (IF m \in NotFull THEN 1 ELSE 0)
      BY <1>1, Passed, Aheads
    <3>2. left <= y
      BY <1>2
    <3> HIDE DEF x, y
    <3>3. left' <= x
      BY <1>3, <2>1, <2>2, <3>1, <3>2
    <3>4. Ahead(i)' = Ahead(m + 1)
      <4>1. Ahead(i)' = Ahead(m + 1)'
        BY <2>1 DEF Ahead
      <4> QED BY <2>4, <4>1
    <3> QED BY <3>3, <3>4 DEF x
  <2>12. ASSUME NEW k \in Ix PROVE /\ spawned_cpus'[k] <= IF k < m + 1 THEN c + 1 ELSE c
                                   /\ k \in NotFull' => spawned_cpus'[k] >= c
    <3>1. /\ spawned_cpus[k] <= IF k < m THEN c + 1 ELSE c
          /\ k \in NotFull => spawned_cpus[k] >= c
      BY <1>6
    <3>2. k \in Nat /\ m \in Nat
      BY <1>5
    <3>3. CASE k # m
      <4>1. spawned_cpus'[k] = spawned_cpus[k] /\ (k \in NotFull' <=> k \in NotFull) /\ (k < m + 1 <=> k < m)
        BY <2>4, <3>2, <3>3
      <4> QED BY <3>1, <4>1
    <3>4. CASE k = m
      <4> DEFINE s == spawned_cpus[m]
      <4>1. s \in Int /\ spawned_cpus'[k] = s + extra /\ s <= c /\ (m \in NotFull => s >= c)
        BY <1>5, <2>4, <3>1, <3>2, <3>4
      <4>2. m \in NotFull' => m \in NotFull
        <5>1. m \in NotFull' => max_cpus[m] > Occupied(m) + extra
          BY <1>1, <2>4 DEF NotFull
        <5>2. max_cpus[m] \in Nat /\ Occupied(m) \in Int
          BY <1>5
        <5>3. max_cpus[m] > Occupied(m) + extra => max_cpus[m] > Occupied(m)
          BY <2>2, <5>2
        <5> QED BY <5>1, <5>3 DEF NotFull
      <4> HIDE DEF s
      <4>3. s + extra <= c + 1 /\ (s >= c => s + extra >= c)
        BY <2>2, <4>1
      <4>4. k < m + 1
        BY <3>2, <3>4
      <4> QED BY <3>4, <4>1, <4>2, <4>3, <4>4
    <3> QED BY <3>3, <3>4
  <2>13. SpreadOK'
    <3>1. \A k \in Ix' : /\ spawned_cpus'[k] <= IF k < i' THEN c + 1 ELSE c
                         /\ k \in NotFull' => spawned_cpus'[k] >= c
      BY <2>1, <2>5, <2>12
    <3>2. left' >= 0
      BY <2>7
    <3> QED BY <1>1, <1>2, <2>1, <2>7, <2>10, <2>11, <3>1, <3>2 DEF SpreadOK
  <2>14. CompactOK' /\ SetsOK' /\ RemoveOK' /\ PlannedOK' /\ Distributed' /\ HostsComplete'
    BY <2>1 DEF CompactOK, SetsOK, RemoveOK, PlannedOK, Distributed, HostsComplete
  <2> QED BY <2>5, <2>8, <2>9, <2>13, <2>14 DEF Inv
<1>8. CASE ~(i <= n /\ left > 0)
  <2>1. pc' = "sets" /\ spawned_cpus' = spawned_cpus /\ left' = left /\ i' = i
    BY <1>8 DEF SpreadRest
  <2>2. left = 0
    <3>1. CASE i <= n
      BY <1>3, <1>8, <3>1
    <3>2. CASE ~(i <= n)
      <4>1. i = n + 1
        BY <1>2, <1>5, <3>2
      <4>2. left <= 0
        BY <1>1, <1>2, <4>1, NoneAhead
      <4> QED BY <1>3, <4>2
    <3> QED BY <3>1, <3>2
  <2>3. UpTo(spawned_cpus', n) = spawn.qty
    <3>1. UpTo(spawned_cpus, n) \in Int
      BY <1>5, UpToIs
    <3> QED BY <1>2, <2>1, <2>2, <3>1
  <2>4. /\ KnownOK' /\ Ix' = Ix
        /\ (i' \in Nat /\ left' \in Int /\ not_full' \in Int /\ tam_bl' \in Int
              /\ pc' \in {"spread", "fill", "rest", "compact", "remove", "sets", "planned", "abort", "short"} => TypeOK')
        /\ (spawn.qty > 0 /\ (\A k \in Ix : spawned_cpus'[k] >= 0) => RequestOK')
    <3>1. pc \notin {"start", "idle"} /\ pc' \notin {"start", "idle"} /\ spawned_cpus' \in [Ix -> Int]
      BY <1>1, <1>5, <2>1
    <3> QED BY <1>1, <3>1, StillKnown
  <2>5. TypeOK' /\ RequestOK'
    <3>1. i' \in Nat
      BY <1>2, <1>5, <2>1
    <3> QED BY <1>1, <1>3, <1>4, <2>1, <2>4, <3>1
  <2>6. \A k \in Ix : Occupied(k)' = Occupied(k)
    BY <1>1, <2>1 DEF Occupied
  <2>7. NodeBounds'
    BY <1>1, <2>1, <2>4, <2>6 DEF Inv, NodeBounds
  <2>8. SetsOK'
    BY <1>1, <1>2, <2>1, <2>3 DEF SetsOK
  <2>9. Distributed'
    <3>1. ASSUME NEW a \in Ix, NEW b \in Ix, spawned_cpus[a] > spawned_cpus[b] + 1, ~(Occupied(b) >= max_cpus[b])
          PROVE  FALSE
      <4>1. b \in NotFull
        BY <1>5, <3>1 DEF NotFull
      <4>2. spawned_cpus[b] >= c /\ spawned_cpus[a] <= c + 1
        <5>1. spawned_cpus[a] <= IF a < i THEN c + 1 ELSE c
          BY <1>6
        <5>2. spawned_cpus[a] <= c + 1
          BY <1>5, <5>1
        <5> QED BY <1>6, <4>1, <5>2
      <4>3. spawned_cpus[b] \in Int /\ spawned_cpus[a] \in Int
        BY <1>5
      <4> QED BY <3>1, <4>2, <4>3
    <3> QED BY <1>1, <1>2, <2>1, <2>4, <2>6, <3>1 DEF Distributed
  <2>10. SpreadOK' /\ CompactOK' /\ RemoveOK' /\ PlannedOK' /\ HostsComplete'
    BY <2>1 DEF SpreadOK, CompactOK, RemoveOK, PlannedOK, HostsComplete
  <2> QED BY <2>4, <2>5, <2>7, <2>8, <2>9, <2>10 DEF Inv
<1> QED BY <1>7, <1>8

(* A node of compact_dist, or the end of its loop.                          *)
LEMMA CompactNodeKeeps ==
  ASSUME Inv, CompactNode
  PROVE  Inv'
<1> DEFINE n == Len(nodelist)
<1>1. /\ TypeOK /\ pc = "compact" /\ UNCHANGED <<known, spawn, not_full, tam_bl, sets, reconfs>>
      /\ UNCHANGED <<nodelist, max_cpus, assigned_cpus, spawn, conf, not_full, tam_bl>>
  BY DEF CompactNode, known, Inv
<1>2. /\ conf.dist = "compact" /\ i \in 1 .. n + 1
      /\ \A k \in Ix : k >= i => spawned_cpus[k] = 0
      /\ \A k \in Ix : k < i - 1 => Occupied(k) >= max_cpus[k]
      /\ left <= spawn.target /\ left = spawn.created + UpTo(spawned_cpus, n)
      /\ left < spawn.target => \A k \in Ix : k < i => Occupied(k) >= max_cpus[k]
  BY <1>1 DEF Inv, CompactOK, Compacted
<1>3. left \in Int /\ not_full \in Int /\ tam_bl \in Int /\ spawn.created \in Nat /\ spawn.target \in Nat
  BY <1>1 DEF TypeOK
<1>4. spawn.qty > 0 /\ spawn.qty = spawn.target - spawn.created /\ \A k \in Ix : spawned_cpus[k] >= 0
  BY <1>1 DEF Inv, RequestOK
<1>5. n \in Nat /\ Ix = 1 .. n /\ spawned_cpus \in [Ix -> Int]
      /\ \A k \in Ix : k \in Nat /\ spawned_cpus[k] \in Int /\ max_cpus[k] \in Nat /\ Occupied(k) \in Int
                       /\ assigned_cpus[k] \in Nat
  BY <1>1, Sizes
<1>6. UpTo(spawned_cpus, n) \in Int
  BY <1>5, UpToIs
<1>7. CASE i <= n /\ left < spawn.target
  <2> PICK m \in Ix : m = i
    BY <1>2, <1>5, <1>7
  <2> DEFINE room == Room(m)
             diff == IF left + room > spawn.target THEN spawn.target - left ELSE room
             d == IF 0 < room THEN diff ELSE 0
  <2>1. /\ IF 0 < room THEN spawned_cpus' = [spawned_cpus EXCEPT ![m] = diff] /\ left' = left + diff
                       ELSE spawned_cpus' = spawned_cpus /\ left' = left
        /\ i' = m + 1 /\ pc' = "compact"
    BY <1>7 DEF CompactNode
  <2>2. spawned_cpus[m] = 0 /\ room = max_cpus[m] - Occupied(m) /\ room \in Int
    <3>1. spawned_cpus[m] = 0
      BY <1>2, <1>5
    <3>2. assigned_cpus[m] \in Nat /\ max_cpus[m] \in Nat
      BY <1>5
    <3> QED BY <3>1, <3>2 DEF Room, Occupied
  <2> HIDE DEF room
  <2>3. d \in Nat /\ (d # 0 => d <= room) /\ left + d <= spawn.target
        /\ (left + d < spawn.target => d >= room) /\ left' = left + d
    BY <1>3, <1>7, <2>1, <2>2
  <2>4. spawned_cpus' = [spawned_cpus EXCEPT ![m] = spawned_cpus[m] + d]
    <3>1. CASE 0 < room
      <4>1. spawned_cpus[m] + d = diff
        BY <1>3, <2>2, <3>1
      <4> QED BY <2>1, <3>1, <4>1
    <3>2. CASE ~(0 < room)
      <4>1. spawned_cpus[m] + d = spawned_cpus[m]
        BY <2>2, <3>2
      <4>2. spawned_cpus = [spawned_cpus EXCEPT ![m] = spawned_cpus[m]]
        BY <1>5
      <4> QED BY <2>1, <3>2, <4>1, <4>2
    <3> QED BY <3>1, <3>2
  <2> HIDE DEF d, diff
  <2>5. /\ spawned_cpus' \in [Ix -> Int] /\ spawned_cpus'[m] = spawned_cpus[m] + d
        /\ \A k \in Ix : k # m => spawned_cpus'[k] = spawned_cpus[k]
        /\ UpTo(spawned_cpus', n) = UpTo(spawned_cpus, n) + d
        /\ Occupied(m)' = Occupied(m) + d
        /\ \A k \in Ix : k # m => Occupied(k)' = Occupied(k)
    <3>1. d \in Int
      BY <2>3
    <3> QED BY <1>1, <2>4, <3>1, MoreOnOne
  <2>6. /\ KnownOK' /\ Ix' = Ix
        /\ (i' \in Nat /\ left' \in Int /\ not_full' \in Int /\ tam_bl' \in Int
              /\ pc' \in {"spread", "fill", "rest", "compact", "remove", "sets", "planned", "abort", "short"} => TypeOK')
        /\ (spawn.qty > 0 /\ (\A k \in Ix : spawned_cpus'[k] >= 0) => RequestOK')
    <3>1. pc \notin {"start", "idle"} /\ pc' \notin {"start", "idle"}
      BY <1>1, <2>1
    <3> QED BY <1>1, <2>5, <3>1, StillKnown
  <2>7. \A k \in Ix : spawned_cpus'[k] >= 0
    <3>1. spawned_cpus'[m] >= 0
      BY <2>2, <2>3, <2>5
    <3> QED BY <1>4, <2>5, <3>1
  <2>8. i' \in 1 .. n + 1 /\ left' \in Int /\ i' \in Nat
    BY <1>3, <1>5, <1>7, <2>1, <2>3
  <2>9. TypeOK' /\ RequestOK'
    BY <1>1, <1>3, <1>4, <2>1, <2>6, <2>7, <2>8
  <2>10. NodeBounds'
    <3>1. d # 0 => d <= max_cpus[m] - Occupied(m)
      BY <2>2, <2>3
    <3> QED BY <1>1, <2>3, <2>4, <3>1, WithinRoom
  <2>11. left' = spawn.created + UpTo(spawned_cpus', n)
    <3> DEFINE u == UpTo(spawned_cpus, n)
               v == UpTo(spawned_cpus', n)
    <3>1. v = u + d /\ u \in Int /\ left = spawn.created + u
      BY <1>2, <1>6, <2>5
    <3> HIDE DEF u, v
    <3>2. left' = spawn.created + v
      BY <1>3, <2>3, <3>1
    <3> QED BY <3>2 DEF v
  <2>12. \A k \in Ix : k >= m + 1 => spawned_cpus'[k] = 0
    <3>1. \A k \in Ix : k >= m + 1 => k # m /\ k >= i
      BY <1>5
    <3> QED BY <1>2, <2>5, <3>1
  <2>13. \A k \in Ix : k < m => Occupied(k)' >= max_cpus[k]
    <3>1. \A k \in Ix : k < m => k # m
      BY <1>5
    <3> QED BY <1>2, <1>7, <2>5, <3>1
  <2>14. left' < spawn.target => \A k \in Ix : k < m + 1 => Occupied(k)' >= max_cpus[k]
    <3>1. left' < spawn.target => Occupied(m) + d >= max_cpus[m]
      <4> DEFINE o == Occupied(m)
                 x == max_cpus[m]
      <4>1. o \in Int /\ x \in Nat /\ room = x - o
        BY <1>5, <2>2
      <4> HIDE DEF o, x
      <4>2. left' < spawn.target => o + d >= x
        BY <2>3, <4>1
      <4> QED BY <4>2 DEF o, x
    <3>2. \A k \in Ix : k < m + 1 => k < m \/ k = m
      BY <1>5
    <3> QED BY <2>5, <2>13, <3>1, <3>2
  <2>15. Compacted'
    <3>1. \A k \in Ix : k < i' - 1 <=> k < m
      BY <1>5, <2>1
    <3> QED BY <1>1, <2>1, <2>6, <2>8, <2>12, <2>13, <3>1 DEF Compacted
  <2>16. CompactOK'
    <3>1. left' <= spawn.target
      BY <2>3
    <3> QED BY <1>1, <1>2, <2>1, <2>6, <2>11, <2>14, <2>15, <3>1 DEF CompactOK
  <2>17. SpreadOK' /\ SetsOK' /\ RemoveOK' /\ PlannedOK' /\ Distributed' /\ HostsComplete'
    BY <2>1 DEF SpreadOK, SetsOK, RemoveOK, PlannedOK, Distributed, HostsComplete
  <2> QED BY <2>6, <2>9, <2>10, <2>16, <2>17 DEF Inv
<1>8. CASE ~(i <= n /\ left < spawn.target)
  <2>1. pc' = (IF left < spawn.target THEN "abort" ELSE "sets") /\ spawned_cpus' = spawned_cpus /\ left' = left /\ i' = i
    BY <1>8 DEF CompactNode
  <2>2. /\ KnownOK' /\ Ix' = Ix
        /\ (i' \in Nat /\ left' \in Int /\ not_full' \in Int /\ tam_bl' \in Int
              /\ pc' \in {"spread", "fill", "rest", "compact", "remove", "sets", "planned", "abort", "short"} => TypeOK')
        /\ (spawn.qty > 0 /\ (\A k \in Ix : spawned_cpus'[k] >= 0) => RequestOK')
    <3>1. pc \notin {"start", "idle"} /\ pc' \notin {"start", "idle"} /\ spawned_cpus' \in [Ix -> Int]
      BY <1>1, <1>5, <2>1
    <3> QED BY <1>1, <3>1, StillKnown
  <2>3. TypeOK' /\ RequestOK'
    <3>1. i' \in Nat
      BY <1>2, <1>5, <2>1
    <3> QED BY <1>1, <1>3, <1>4, <2>1, <2>2, <3>1
  <2>4. \A k \in Ix : Occupied(k)' = Occupied(k)
    BY <1>1, <2>1 DEF Occupied
  <2>5. NodeBounds'
    BY <1>1, <2>1, <2>2, <2>4 DEF Inv, NodeBounds
  <2>6. SetsOK'
    <3>1. pc' = "sets" => UpTo(spawned_cpus, n) = spawn.qty
      <4> DEFINE u == UpTo(spawned_cpus, n)
      <4>1. u \in Int /\ left = spawn.created + u /\ left <= spawn.target /\ (pc' = "sets" => ~(left < spawn.target))
            /\ spawn.qty = spawn.target - spawn.created
        BY <1>2, <1>4, <1>6, <2>1
      <4> HIDE DEF u
      <4>2. pc' = "sets" => u = spawn.qty
        BY <1>3, <4>1
      <4> QED BY <4>2 DEF u
    <3>2. Compacted'
      BY <1>1, <1>2, <2>1, <2>2, <2>4 DEF Compacted
    <3> QED BY <1>1, <1>2, <2>1, <3>1, <3>2 DEF SetsOK
  <2>7. Distributed'
    <3>1. ASSUME NEW a \in Ix, NEW b \in Ix, a < b, spawned_cpus[b] > 0
          PROVE  Occupied(a) >= max_cpus[a]
      <4>1. b < i
        BY <1>2, <1>5, <3>1
      <4>2. a < i - 1
        BY <1>2, <1>5, <3>1, <4>1
      <4> QED BY <1>2, <4>2
    <3> QED BY <1>1, <1>2, <2>1, <2>2, <2>4, <3>1 DEF Distributed
  <2>8. SpreadOK' /\ CompactOK' /\ RemoveOK' /\ PlannedOK' /\ HostsComplete'
    BY <2>1 DEF SpreadOK, CompactOK, RemoveOK, PlannedOK, HostsComplete
  <2> QED BY <2>2, <2>3, <2>5, <2>6, <2>7, <2>8 DEF Inv
<1> QED BY <1>7, <1>8

(* A node of remove_dist, or the end of its loop: there are always ranks    *)
(* enough to remove.                                                        *)
LEMMA RemoveNodeKeeps ==
  ASSUME Inv, RemoveNode
  PROVE  Inv'
<1> DEFINE n == Len(nodelist)
           A(k) == UpTo(assigned_cpus, k)
<1>1. /\ TypeOK /\ pc = "remove" /\ UNCHANGED <<known, spawn, not_full, tam_bl, sets, reconfs>>
      /\ UNCHANGED <<nodelist, max_cpus, assigned_cpus, spawn, conf, not_full, tam_bl>>
  BY DEF RemoveNode, known, Inv
<1>2. /\ spawn.qty < 0 /\ i \in 0 .. n
      /\ \A k \in Ix : spawned_cpus[k] = IF k > i THEN - assigned_cpus[k] ELSE 0
      /\ left = UpTo(spawned_cpus, n) - spawn.qty
      /\ left = (- spawn.qty) - AssignedFrom(i + 1)
      /\ IF i < n THEN left + assigned_cpus[i + 1] > 0 ELSE left > 0
  BY <1>1 DEF Inv, RemoveOK
<1>3. left \in Int /\ not_full \in Int /\ tam_bl \in Int /\ spawn.qty \in Int /\ i \in Nat
  BY <1>1 DEF TypeOK
<1>4. n \in Nat /\ Ix = 1 .. n /\ spawned_cpus \in [Ix -> Int] /\ assigned_cpus \in [1 .. n -> Nat]
      /\ \A k \in Ix : k \in Nat /\ spawned_cpus[k] \in Int /\ max_cpus[k] \in Nat /\ assigned_cpus[k] \in Nat
  BY <1>1, Sizes
<1>5. UpTo(spawned_cpus, n) \in Int /\ A(0) = 0 /\ (\A k \in Nat : A(k) \in Int)
      /\ \A k \in 1 .. n : A(k) = A(k - 1) + assigned_cpus[k]
  <2>1. assigned_cpus \in [1 .. n -> Int]
    BY <1>4
  <2> QED BY <1>4, <2>1, UpToIs
<1>6. CASE i > 0 /\ left > 0
  <2> PICK m \in Ix : m = i
    BY <1>2, <1>4, <1>6
  <2> DEFINE a == assigned_cpus[m]
             d == - a
  <2>1. a \in Nat /\ d \in Int /\ spawned_cpus[m] = 0 /\ m \in Nat
    BY <1>2, <1>4
  <2>2. /\ spawned_cpus' = [spawned_cpus EXCEPT ![m] = spawned_cpus[m] - a] /\ left' = left - a
        /\ i' = m - 1 /\ pc' = "remove"
    BY <1>6 DEF RemoveNode
  <2>3. spawned_cpus[m] - a = spawned_cpus[m] + d
    BY <2>1
  <2>4. /\ spawned_cpus' \in [Ix -> Int] /\ spawned_cpus'[m] = spawned_cpus[m] + d
        /\ \A k \in Ix : k # m => spawned_cpus'[k] = spawned_cpus[k]
        /\ UpTo(spawned_cpus', n) = UpTo(spawned_cpus, n) + d
    BY <1>1, <2>1, <2>2, <2>3, MoreOnOne
  <2>5. /\ KnownOK' /\ Ix' = Ix
        /\ (i' \in Nat /\ left' \in Int /\ not_full' \in Int /\ tam_bl' \in Int
              /\ pc' \in {"spread", "fill", "rest", "compact", "remove", "sets", "planned", "abort", "short"} => TypeOK')
        /\ (pc' \in {"remove", "planned", "abort", "short"} => RequestOK')
    <3>1. pc \notin {"start", "idle"} /\ pc' \notin {"start", "idle"}
      BY <1>1, <2>2
    <3> QED BY <1>1, <2>4, <3>1, StillKnown
  <2>6. i' \in 0 .. n /\ i' \in Nat /\ left' \in Int
    BY SMTT(30), <1>2, <1>3, <1>4, <1>6, <2>1, <2>2
  <2>7. TypeOK' /\ RequestOK'
    BY <1>1, <1>3, <2>2, <2>5, <2>6
  <2>8. \A k \in Ix : spawned_cpus'[k] = IF k > m - 1 THEN - assigned_cpus[k] ELSE 0
    <3>1. ASSUME NEW k \in Ix PROVE spawned_cpus'[k] = IF k > m - 1 THEN - assigned_cpus[k] ELSE 0
      <4>1. k \in Nat /\ spawned_cpus[k] = (IF k > m THEN - assigned_cpus[k] ELSE 0)
        BY <1>2, <1>4
      <4>2. CASE k = m
        <5>1. spawned_cpus'[m] = d /\ k > m - 1
          BY <2>1, <2>4, <4>1, <4>2
        <5> QED BY <4>2, <5>1
      <4>3. CASE k # m
        <5>1. k > m - 1 <=> k > m
          BY <2>1, <4>1, <4>3
        <5> QED BY <2>4, <4>1, <4>3, <5>1
      <4> QED BY <4>2, <4>3
    <3> QED BY <3>1
  <2>9. NodeBounds'
    <3>1. ASSUME NEW k \in Ix PROVE ~(spawned_cpus'[k] > 0) /\ 0 <= assigned_cpus[k] + spawned_cpus'[k]
      <4>1. assigned_cpus[k] \in Nat /\ spawned_cpus'[k] \in {- assigned_cpus[k], 0}
        BY <1>4, <2>8
      <4> QED BY <4>1
    <3> QED BY <1>1, <2>5, <3>1 DEF NodeBounds
  <2>10. left' = UpTo(spawned_cpus', n) - spawn.qty
    <3> DEFINE u == UpTo(spawned_cpus, n)
               v == UpTo(spawned_cpus', n)
    <3>1. v = u + d /\ u \in Int /\ left = u - spawn.qty /\ left' = left - a
      BY <1>2, <1>5, <2>2, <2>4
    <3> HIDE DEF u, v
    <3>2. left' = v - spawn.qty
      BY <1>3, <2>1, <3>1
    <3> QED BY <3>2 DEF v
  <2>11. left' = (- spawn.qty) - (A(n) - A(m - 1))
    <3>1. A(n) \in Int /\ A(m - 1) \in Int /\ A(m) \in Int /\ A(m) = A(m - 1) + a
      <4>1. m \in 1 .. n /\ m - 1 \in Nat
        BY <1>4
      <4> QED BY <1>4, <1>5, <2>1, <4>1
    <3>2. left = (- spawn.qty) - (A(n) - A(m))
      <4>1. i + 1 - 1 = m
        BY <2>1
      <4> QED BY <1>2, <4>1 DEF AssignedFrom
    <3> DEFINE x == A(n)
               y == A(m - 1)
               z == A(m)
    <3>3. x \in Int /\ y \in Int /\ z = y + a /\ left = (- spawn.qty) - (x - z) /\ left' = left - a
      BY <2>2, <3>1, <3>2
    <3> HIDE DEF x, y, z, a, d
    <3>4. left' = (- spawn.qty) - (x - y)
      BY <1>3, <2>1, <3>3
    <3> QED BY <3>4 DEF x, y
  <2>12. RemoveOK'
    <3>1. UpTo(assigned_cpus', Len(nodelist')) - UpTo(assigned_cpus', (i + 1)' - 1) = A(n) - A(m - 1)
      <4>1. (i + 1)' - 1 = m - 1
        BY <2>1, <2>2
      <4>2. UpTo(assigned_cpus', (i + 1)' - 1) = A(m - 1) /\ UpTo(assigned_cpus', Len(nodelist')) = A(n)
        BY <1>1, <4>1
      <4> QED BY <4>2
    <3>2. i' < n /\ left' + assigned_cpus'[i' + 1] > 0
      <4>1. i' + 1 = m /\ i' < n
        BY <1>4, <2>1, <2>2
      <4>2. left' + a > 0
        BY <1>3, <1>6, <2>1, <2>2
      <4> QED BY <1>1, <4>1, <4>2
    <3>3. left' = (- spawn.qty) - AssignedFrom(i + 1)'
      BY <2>11, <3>1 DEF AssignedFrom
    <3>4. \A k \in Ix' : spawned_cpus'[k] = IF k > i' THEN - assigned_cpus'[k] ELSE 0
      BY <1>1, <2>2, <2>5, <2>8
    <3> QED BY <1>1, <1>2, <2>2, <2>5, <2>6, <2>10, <3>2, <3>3, <3>4 DEF RemoveOK
  <2>13. SpreadOK' /\ CompactOK' /\ SetsOK' /\ PlannedOK' /\ Distributed' /\ HostsComplete'
    BY <2>2 DEF SpreadOK, CompactOK, SetsOK, PlannedOK, Distributed, HostsComplete
  <2> QED BY <2>5, <2>7, <2>9, <2>12, <2>13 DEF Inv
<1>7. CASE ~(i > 0 /\ left > 0)
  <2>1. /\ spawned_cpus' = [spawned_cpus EXCEPT ![i + 1] = spawned_cpus[i + 1] - left]
        /\ pc' = (IF left > 0 THEN "abort" ELSE "planned") /\ left' = left /\ i' = i
    BY <1>7 DEF RemoveNode, Excess
  <2>2. left <= 0
    <3>1. ASSUME left > 0 PROVE FALSE
      <4>1. i = 0
        BY <1>3, <1>7, <3>1
      <4>2. left = (- spawn.qty) - A(n)
        <5>1. AssignedFrom(1) = A(n) - A(0) /\ i + 1 = 1
          BY <4>1 DEF AssignedFrom
        <5>2. A(n) \in Int /\ A(0) = 0 /\ A(n) - A(0) = A(n)
          BY <1>4, <1>5
        <5> HIDE DEF A
        <5> QED BY <1>2, <5>1, <5>2
      <4>3. Len(where) <= A(n) /\ Len(where) \in Nat
        <5>1. where \in Seq(1 .. Nodes)
          BY <1>1 DEF TypeOK
        <5>2. Len(where) \in Nat
          BY <5>1, LenProperties
        <5> QED BY <1>1, <5>2 DEF Inv, KnownOK
      <4>4. spawn.created \in {0, Len(where)} /\ spawn.qty = spawn.target - spawn.created /\ spawn.target > 0
            /\ spawn.target \in Nat
        BY <1>1 DEF Inv, RequestOK, TypeOK
      <4>5. A(n) \in Int
        BY <1>4, <1>5
      <4> HIDE DEF A
      <4> QED BY <1>3, <3>1, <4>2, <4>3, <4>4, <4>5
    <3> QED BY <1>3, <3>1
  <2> DEFINE m == i + 1
             d == - left
  <2>3. m \in Ix /\ d \in Nat /\ d \in Int /\ i < n
    BY <1>2, <1>3, <1>4, <2>2
  <2>4. spawned_cpus[m] = - assigned_cpus[m] /\ assigned_cpus[m] \in Nat /\ left + assigned_cpus[m] > 0
    BY <1>2, <1>3, <1>4, <2>3
  <2>5. /\ spawned_cpus' \in [Ix -> Int] /\ spawned_cpus'[m] = spawned_cpus[m] + d
        /\ \A k \in Ix : k # m => spawned_cpus'[k] = spawned_cpus[k]
        /\ UpTo(spawned_cpus', n) = UpTo(spawned_cpus, n) + d
    <3> HIDE DEF m
    <3>1. spawned_cpus[m] - left = spawned_cpus[m] + d
      BY <1>3, <1>4, <2>3
    <3>2. spawned_cpus' = [spawned_cpus EXCEPT ![m] = spawned_cpus[m] + d]
      <4>1. spawned_cpus' = [spawned_cpus EXCEPT ![m] = spawned_cpus[m] - left]
        BY <2>1 DEF m
      <4> QED BY <3>1, <4>1
    <3> PICK z \in Ix : z = m
      BY <2>3
    <3> PICK y \in Int : y = d
      BY <2>3
    <3> HIDE DEF d
    <3>3. spawned_cpus' = [spawned_cpus EXCEPT ![z] = spawned_cpus[z] + y]
      BY <3>2
    <3> QED BY <1>1, <3>3, MoreOnOne
  <2>6. pc' = "planned"
    BY <1>3, <2>1, <2>2
  <2>7. /\ KnownOK' /\ Ix' = Ix
        /\ (i' \in Nat /\ left' \in Int /\ not_full' \in Int /\ tam_bl' \in Int
              /\ pc' \in {"spread", "fill", "rest", "compact", "remove", "sets", "planned", "abort", "short"} => TypeOK')
        /\ (pc' \in {"remove", "planned", "abort", "short"} => RequestOK')
    <3>1. pc \notin {"start", "idle"} /\ pc' \notin {"start", "idle"}
      BY <1>1, <2>6
    <3> QED BY <1>1, <2>5, <3>1, StillKnown
  <2>8. TypeOK' /\ RequestOK'
    BY <1>1, <1>3, <2>1, <2>6, <2>7
  <2>9. spawned_cpus'[m] = (- assigned_cpus[m]) - left
    BY <1>3, <2>4, <2>5
  <2>10. \A k \in Ix : spawned_cpus'[k] = IF k > m THEN - assigned_cpus[k]
                                          ELSE IF k = m THEN (- assigned_cpus[k]) - left ELSE 0
    <3>1. ASSUME NEW k \in Ix, k # m
          PROVE spawned_cpus'[k] = IF k > m THEN - assigned_cpus[k] ELSE 0
      <4>1. spawned_cpus'[k] = (IF k > i THEN - assigned_cpus[k] ELSE 0)
        BY <1>2, <2>5, <3>1
      <4>2. k > i <=> k > m
        BY <1>3, <1>4, <3>1
      <4> QED BY <4>1, <4>2
    <3>2. ~(m > m)
      BY <1>3
    <3> HIDE DEF m
    <3> QED BY <2>9, <3>1, <3>2
  <2>11. NodeBounds'
    <3>1. ASSUME NEW k \in Ix PROVE ~(spawned_cpus'[k] > 0) /\ 0 <= assigned_cpus[k] + spawned_cpus'[k]
      <4>1. CASE k = m
        BY <1>3, <2>2, <2>4, <2>9, <4>1
      <4>2. CASE k # m
        <5>1. assigned_cpus[k] \in Nat /\ spawned_cpus'[k] \in {- assigned_cpus[k], 0}
          BY <1>4, <2>10, <4>2
        <5> QED BY <5>1
      <4> QED BY <4>1, <4>2
    <3> QED BY <1>1, <2>7, <3>1 DEF NodeBounds
  <2>12. UpTo(spawned_cpus', n) = spawn.qty
    <3> DEFINE u == UpTo(spawned_cpus, n)
               v == UpTo(spawned_cpus', n)
    <3>1. v = u + d /\ u \in Int /\ left = u - spawn.qty
      BY <1>2, <1>5, <2>5
    <3> HIDE DEF u, v
    <3>2. v = spawn.qty
      BY <1>3, <3>1
    <3> QED BY <3>2 DEF v
  <2>13. CutOK'
    <3>1. AssignedFrom(i + 1)' = AssignedFrom(i + 1)
      BY <1>1, <2>1 DEF AssignedFrom
    <3> QED BY <1>1, <1>2, <2>1, <2>2, <2>3, <2>4, <2>7, <2>10, <3>1 DEF CutOK
  <2>14. PlannedOK' /\ HostsComplete'
    <3>1. ~(spawn.qty > 0)
      BY <1>2, <1>3
    <3> QED BY <1>1, <2>6, <2>12, <2>13, <3>1 DEF PlannedOK, HostsComplete
  <2>15. SpreadOK' /\ CompactOK' /\ SetsOK' /\ RemoveOK' /\ Distributed'
    BY <2>6 DEF SpreadOK, CompactOK, SetsOK, RemoveOK, Distributed
  <2> QED BY <2>7, <2>8, <2>11, <2>14, <2>15 DEF Inv
<1> QED BY <1>6, <1>7

-----------------------------------------------------------------------------
(* The spawn sets.                                                          *)

(* The hosts of the nodes chosen: each as often as it has new processes.    *)
LEMMA Chosen ==
  ASSUME TypeOK, \A k \in Ix : spawned_cpus[k] >= 0, NEW P,
         NEW c, c = [k \in Ix |-> IF k \in P THEN spawned_cpus[k] ELSE 0],
         NEW F, F = FlattenSeq([k \in Ix |-> IF k \in P THEN HostString(k) ELSE <<>>])
  PROVE  /\ c \in [Ix -> Nat] /\ \A k \in Ix : c[k] <= spawned_cpus[k]
         /\ F \in Seq({nodelist[k] : k \in Ix}) /\ Len(F) = UpTo(c, Len(nodelist))
         /\ OneEach => \A k \in Ix : Count(nodelist[k], F) = c[k]
         /\ (\A k \in Used : k \in P) => Len(F) = UpTo(spawned_cpus, Len(nodelist))
<1> DEFINE n == Len(nodelist)
           M == 1 .. Nodes
<1>1. n \in Nat /\ Ix = 1 .. n /\ spawned_cpus \in [1 .. n -> Int]
      /\ \A k \in Ix : spawned_cpus[k] \in Int /\ nodelist[k] \in M
  BY Sizes
<1>2. nodelist \in [1 .. n -> M]
  <2>1. nodelist \in Seq(M)
    BY DEF TypeOK
  <2> HIDE DEF M
  <2> QED BY <2>1, LenProperties
<1> HIDE DEF M
<1>3. c \in [1 .. n -> Nat] /\ \A k \in Ix : c[k] = IF k \in P THEN spawned_cpus[k] ELSE 0
  BY <1>1
<1>4. \A k \in Ix : c[k] <= spawned_cpus[k]
  BY <1>1, <1>3
<1>5. [k \in Ix |-> IF k \in P THEN HostString(k) ELSE <<>>] = Blocks(c, nodelist, n)
  <2>1. ASSUME NEW k \in Ix
        PROVE  (IF k \in P THEN HostString(k) ELSE <<>>) = [p \in 1 .. c[k] |-> nodelist[k]]
    <3>1. CASE k \in P
      BY <1>3, <3>1 DEF HostString
    <3>2. CASE k \notin P
      <4>1. c[k] = 0 /\ 1 .. 0 = {}
        BY <1>3, <3>2
      <4>2. [p \in {} |-> nodelist[k]] = <<>>
        OBVIOUS
      <4> QED BY <3>2, <4>1, <4>2
    <3> QED BY <3>1, <3>2
  <2> QED BY <1>1, <2>1 DEF Blocks
<1>6. F = FlattenSeq(Blocks(c, nodelist, n))
  BY <1>5
<1>7. /\ F \in Seq({nodelist[k] : k \in 1 .. n}) /\ Len(F) = UpTo(c, n)
      /\ \A m \in 1 .. n : (\A k \in 1 .. n : nodelist[k] = nodelist[m] => k = m) => Count(nodelist[m], F) = c[m]
  <2> DEFINE v == nodelist
  <2>1. n \in Nat /\ c \in [1 .. n -> Nat] /\ v \in [1 .. n -> M] /\ F = FlattenSeq(Blocks(c, v, n))
    BY <1>1, <1>2, <1>3, <1>6
  <2> HIDE DEF n, v
  <2> DEFINE G == FlattenSeq(Blocks(c, v, n))
  <2>2. /\ G \in Seq(Values(v, n)) /\ Len(G) = UpTo(c, n)
        /\ \A m \in 1 .. n : (\A k \in 1 .. n : v[k] = v[m] => k = m) => Count(v[m], G) = c[m]
    BY <2>1, BlocksFlat
  <2>3. F = G
    BY <2>1
  <2> HIDE DEF G
  <2> QED BY <2>2, <2>3 DEF v, Values
<1>8. OneEach => \A k \in Ix : Count(nodelist[k], F) = c[k]
  BY <1>1, <1>7 DEF OneEach
<1>9. (\A k \in Used : k \in P) => Len(F) = UpTo(spawned_cpus, n)
  <2>1. ASSUME \A k \in Used : k \in P PROVE UpTo(c, n) = UpTo(spawned_cpus, n)
    <3>1. \A k \in 1 .. n : c[k] = spawned_cpus[k]
      BY <1>1, <1>3, <2>1 DEF Used
    <3>2. c \in [1 .. n -> Int] /\ n \in 0 .. n
      BY <1>1, <1>3
    <3> QED BY <1>1, <3>1, <3>2, UpToSame
  <2> QED BY <1>7, <2>1
<1> QED BY <1>1, <1>3, <1>4, <1>7, <1>8, <1>9

(* A set for each of them.                                                  *)
LEMMA ChosenSets ==
  ASSUME TypeOK, \A k \in Ix : spawned_cpus[k] >= 0, NEW P,
         NEW st, st = FlattenSeq([k \in Ix |-> IF k \in P THEN <<Set(spawned_cpus[k], HostString(k))>> ELSE <<>>])
  PROVE  /\ FlattenSeq([j \in DOMAIN st |-> st[j].hosts]) = FlattenSeq([k \in Ix |-> IF k \in P THEN HostString(k) ELSE <<>>])
         /\ \A j \in DOMAIN st : st[j].qty = Len(st[j].hosts)
<1> DEFINE n == Len(nodelist)
           M == 1 .. Nodes
           hs == [k \in 1 .. n |-> HostString(k)]
           q == spawned_cpus
<1>1. n \in Nat /\ Ix = 1 .. n /\ q \in [1 .. n -> Int]
      /\ \A k \in Ix : spawned_cpus[k] \in Nat /\ nodelist[k] \in M
  <2>1. \A k \in Ix : spawned_cpus[k] \in Int /\ spawned_cpus[k] >= 0
    BY Sizes
  <2> QED BY <2>1, Sizes
<1> HIDE DEF M
<1>2. \A k \in 1 .. n : HostString(k) \in Seq(M) /\ Len(HostString(k)) = spawned_cpus[k]
  BY <1>1 DEF HostString
<1>3. hs \in [1 .. n -> Seq(M)] /\ \A k \in 1 .. n : hs[k] = HostString(k)
  BY <1>2
<1>4. st = FlattenSeq([k \in 1 .. n |-> IF k \in P THEN <<[qty |-> q[k], hosts |-> hs[k]]>> ELSE <<>>])
  <2>1. \A k \in 1 .. n : Set(spawned_cpus[k], HostString(k)) = [qty |-> q[k], hosts |-> hs[k]]
    BY <1>3 DEF Set
  <2>2. [k \in Ix |-> IF k \in P THEN <<Set(spawned_cpus[k], HostString(k))>> ELSE <<>>]
          = [k \in 1 .. n |-> IF k \in P THEN <<[qty |-> q[k], hosts |-> hs[k]]>> ELSE <<>>]
    <3> HIDE DEF q, hs
    <3> QED BY <1>1, <2>1
  <2> HIDE DEF q, hs
  <2> QED BY <2>2
<1>5. [k \in Ix |-> IF k \in P THEN HostString(k) ELSE <<>>] = [k \in 1 .. n |-> IF k \in P THEN hs[k] ELSE <<>>]
  <2> HIDE DEF hs
  <2> QED BY <1>1, <1>3
<1> HIDE DEF hs, q
<1>6. /\ FlattenSeq(HostsIn(st)) = FlattenSeq([k \in 1 .. n |-> IF k \in P THEN hs[k] ELSE <<>>])
      /\ \A j \in DOMAIN st : \E k \in 1 .. n : st[j].qty = q[k] /\ st[j].hosts = hs[k]
  <2>1. n \in Nat /\ Fits(hs, q, n, M)
    BY <1>1, <1>3 DEF Fits
  <2>2. st = FlattenSeq(KeptSets(P, q, hs, n))
    BY <1>4 DEF KeptSets
  <2> HIDE DEF n
  <2>3. /\ FlattenSeq(HostsIn(st)) = FlattenSeq(KeptHosts(P, hs, n))
        /\ \A j \in DOMAIN st : \E k \in 1 .. n : st[j].qty = q[k] /\ st[j].hosts = hs[k]
    <3>1. FlattenSeq(HostsIn(st)) = FlattenSeq(KeptHosts(P, hs, n))
      BY <2>1, <2>2, SetsFlat
    <3>2. FromPlaces(st, hs, q, n)
      BY <2>1, <2>2, SetsFlat
    <3> QED BY <3>1, <3>2 DEF FromPlaces
  <2> QED BY <2>3 DEF KeptHosts
<1>7. \A k \in 1 .. n : Len(hs[k]) = q[k]
  BY <1>2, <1>3 DEF q
<1> QED BY <1>5, <1>6, <1>7 DEF HostsIn

(* One set for them all.                                                    *)
LEMMA OneSet ==
  ASSUME NEW S, NEW F \in Seq(S), NEW q, NEW st, st = <<Set(q, F)>>
  PROVE  /\ FlattenSeq([j \in DOMAIN st |-> st[j].hosts]) = F
         /\ \A j \in DOMAIN st : st[j].qty = q /\ st[j].hosts = F
<1>1. DOMAIN st = 1 .. 1 /\ st[1].qty = q /\ st[1].hosts = F /\ \A j \in 1 .. 1 : j = 1
  BY DEF Set
<1> DEFINE ss == [j \in DOMAIN st |-> st[j].hosts]
<1>2. ss \in [1 .. 1 -> Seq(S)] /\ ss[1] = F
  BY <1>1
<1> HIDE DEF ss
<1>3. PICK f \in [Nat -> Seq(S)] : Flattens(f, ss, 1) /\ FlattenSeq(ss) = f[1]
  <2>1. 1 \in Nat
    OBVIOUS
  <2> QED BY <1>2, <2>1, FlattenIs
<1>4. f[0] = <<>> /\ f[1] = f[1 - 1] \o ss[1]
  <2>1. 1 \in 1 .. 1
    OBVIOUS
  <2> QED BY <1>3, <2>1 DEF Flattens
<1>5. f[1] = <<>> \o F
  <2>1. 1 - 1 = 0
    OBVIOUS
  <2> QED BY <1>2, <1>4, <2>1
<1>6. <<>> \o F = F
  OBVIOUS
<1> QED BY <1>1, <1>3, <1>5, <1>6 DEF ss

(* The nodes the distribution says it uses are those with new processes.    *)
LEMMA AllUsed ==
  ASSUME TypeOK, conf.dist = "compact" => Compacted,
         conf.dist = "compact" \/ Used = 1 .. Cardinality(Used)
  PROVE  \A k \in Used : k <= UsedNodes /\ Nth(k) <= UsedNodes /\ (conf.many => Nth(k) <= TotalSpawns)
<1> DEFINE n == Len(nodelist)
<1>1. n \in Nat /\ Ix = 1 .. n /\ IsFiniteSet(1 .. n)
  BY Sizes, Upward
<1>2. Used \subseteq 1 .. n /\ IsFiniteSet(Used) /\ Cardinality(Used) \in Nat
  <2>1. Used \subseteq 1 .. n
    BY <1>1 DEF Used
  <2> QED BY <1>1, <2>1, FS_Subset, FS_CardinalityType
<1>3. \A k \in Used : Nth(k) \in Nat /\ Nth(k) <= k /\ Nth(k) <= Cardinality(Used)
  <2>1. ASSUME NEW k \in Used PROVE Nth(k) \in Nat /\ Nth(k) <= k /\ Nth(k) <= Cardinality(Used)
    <3> DEFINE E == {l \in Used : l <= k}
    <3>1. k \in Nat /\ IsFiniteSet(1 .. k) /\ Cardinality(1 .. k) = k
      <4>1. k \in Nat
        BY <1>1, <1>2
      <4> QED BY <4>1, Upward
    <3>2. E \subseteq Used
      OBVIOUS
    <3>3. E \subseteq 1 .. k
      <4>1. \A l \in E : l \in Nat /\ 1 <= l /\ l <= k
        BY <1>1, <1>2
      <4> HIDE DEF E
      <4> QED BY <3>1, <4>1
    <3> HIDE DEF E
    <3>4. IsFiniteSet(E) /\ Cardinality(E) <= Cardinality(Used)
      BY <1>2, <3>2, FS_Subset
    <3>5. Cardinality(E) <= k
      BY ZenonT(60), <3>1, <3>3, FS_Subset
    <3>6. Cardinality(E) \in Nat
      BY <3>4, FS_CardinalityType
    <3> QED BY <3>4, <3>5, <3>6 DEF Nth, E
  <2> QED BY <2>1
<1>4. \A k \in Used : k <= UsedNodes /\ Nth(k) <= UsedNodes
  <2>1. CASE conf.dist = "compact"
    <3>1. UsedNodes = i - 1 /\ i \in Nat /\ \A k \in Ix : k >= i => spawned_cpus[k] = 0
      BY <1>1, <2>1 DEF UsedNodes, Compacted
    <3>2. \A k \in Used : k \in Nat /\ k <= i - 1
      BY <1>1, <1>2, <3>1 DEF Used
    <3>3. \A k \in Used : Nth(k) <= i - 1
      BY <1>3, <3>1, <3>2
    <3> QED BY <3>1, <3>2, <3>3
  <2>2. CASE conf.dist # "compact"
    <3>1. UsedNodes = Cardinality(Used) /\ Used = 1 .. Cardinality(Used)
      BY <2>2 DEF UsedNodes, TypeOK
    <3>2. \A k \in Used : k <= Cardinality(Used)
      BY <1>2, <3>1
    <3> QED BY <1>3, <3>1, <3>2
  <2> QED BY <2>1, <2>2
<1>5. \A k \in Used : conf.many => Nth(k) <= TotalSpawns
  <2>1. {k \in Used : k <= UsedNodes} = Used
    BY <1>4
  <2> QED BY <1>3, <2>1 DEF TotalSpawns
<1> QED BY <1>4, <1>5

(* The hosts of some of the nodes.                                          *)
HostsOf(P) == FlattenSeq([k \in Ix |-> IF k \in P THEN HostString(k) ELSE <<>>])

(* The sets are those of the nodes of P, apart or together.                 *)
SetsOf(st, P) ==
  /\ FlattenSeq([j \in DOMAIN st |-> st[j].hosts]) = HostsOf(P)
  /\ \A j \in DOMAIN st : IF conf.many THEN st[j].qty = Len(st[j].hosts)
                          ELSE st[j].qty = spawn.qty /\ Len(st[j].hosts) = Len(HostsOf(P))

(* Every way of making the sets chooses nodes in their order, and all those *)
(* used when they are among the first UsedNodes.                            *)
LEMMA SetsMade ==
  ASSUME TypeOK, \A k \in Ix : spawned_cpus[k] >= 0,
         NEW st, st = IF conf.slurm THEN HostfileSets ELSE IF conf.many THEN StringSets ELSE StringSet
  PROVE  \E P : /\ SetsOf(st, P)
                /\ (\A k \in Used : k <= UsedNodes /\ Nth(k) <= UsedNodes /\ (conf.many => Nth(k) <= TotalSpawns))
                     => \A k \in Used : k \in P
<1>1. \A k \in Ix : HostsOfLine(HostLine(k)) = HostString(k)
  BY DEF HostsOfLine, HostLine, HostString
<1>2. Used \subseteq Ix /\ conf.slurm \in BOOLEAN /\ conf.many \in BOOLEAN
  BY DEF Used, TypeOK
<1>3. CASE conf.slurm /\ conf.many
  <2> DEFINE P == {k \in Used : Nth(k) <= TotalSpawns}
  <2>1. st = FlattenSeq([k \in Ix |-> IF k \in Used /\ Nth(k) <= TotalSpawns
                                        THEN <<Set(spawned_cpus[k], HostsOfLine(HostLine(k)))>> ELSE <<>>])
    BY <1>3 DEF HostfileSets, MultipleHostfileSets
  <2>2. st = FlattenSeq([k \in Ix |-> IF k \in P THEN <<Set(spawned_cpus[k], HostString(k))>> ELSE <<>>])
    <3>1. \A k \in Ix : (IF k \in Used /\ Nth(k) <= TotalSpawns
                           THEN <<Set(spawned_cpus[k], HostsOfLine(HostLine(k)))>> ELSE <<>>)
                         = IF k \in P THEN <<Set(spawned_cpus[k], HostString(k))>> ELSE <<>>
      BY <1>1
    <3> HIDE DEF P
    <3>2. [k \in Ix |-> IF k \in Used /\ Nth(k) <= TotalSpawns
                          THEN <<Set(spawned_cpus[k], HostsOfLine(HostLine(k)))>> ELSE <<>>]
           = [k \in Ix |-> IF k \in P THEN <<Set(spawned_cpus[k], HostString(k))>> ELSE <<>>]
      BY <3>1
    <3> QED BY <2>1, <3>2
  <2>3. (\A k \in Used : conf.many => Nth(k) <= TotalSpawns) => \A k \in Used : k \in P
    BY <1>3
  <2> HIDE DEF P
  <2>4. SetsOf(st, P)
    BY <1>3, <2>2, ChosenSets DEF SetsOf, HostsOf
  <2> QED BY <2>3, <2>4
<1>4. CASE ~conf.slurm /\ conf.many
  <2> DEFINE P == {k \in Used : k <= UsedNodes}
  <2>1. st = FlattenSeq([k \in Ix |-> IF k \in Used /\ k <= UsedNodes
                                        THEN <<Set(spawned_cpus[k], HostString(k))>> ELSE <<>>])
    BY <1>4 DEF StringSets
  <2>2. st = FlattenSeq([k \in Ix |-> IF k \in P THEN <<Set(spawned_cpus[k], HostString(k))>> ELSE <<>>])
    <3>1. \A k \in Ix : k \in Used /\ k <= UsedNodes <=> k \in P
      OBVIOUS
    <3> HIDE DEF P
    <3>2. [k \in Ix |-> IF k \in Used /\ k <= UsedNodes THEN <<Set(spawned_cpus[k], HostString(k))>> ELSE <<>>]
           = [k \in Ix |-> IF k \in P THEN <<Set(spawned_cpus[k], HostString(k))>> ELSE <<>>]
      BY <3>1
    <3> QED BY <2>1, <3>2
  <2>3. (\A k \in Used : k <= UsedNodes) => \A k \in Used : k \in P
    OBVIOUS
  <2> HIDE DEF P
  <2>4. SetsOf(st, P)
    BY <1>4, <2>2, ChosenSets DEF SetsOf, HostsOf
  <2> QED BY <2>3, <2>4
<1>5. CASE ~conf.many
  <2>1. \E P : /\ st = <<Set(spawn.qty, HostsOf(P))>>
               /\ (\A k \in Used : k <= UsedNodes /\ Nth(k) <= UsedNodes) => \A k \in Used : k \in P
    <3>1. CASE conf.slurm
      <4> DEFINE P == {k \in Used : Nth(k) <= UsedNodes}
      <4>1. st = <<Set(spawn.qty, HostfileHosts)>>
        BY <1>5, <3>1 DEF HostfileSets
      <4>2. HostfileHosts = HostsOf(P)
        <5>1. \A k \in Ix : (IF k \in Used /\ Nth(k) <= UsedNodes THEN HostsOfLine(HostLine(k)) ELSE <<>>)
                            = IF k \in P THEN HostString(k) ELSE <<>>
          BY <1>1
        <5> HIDE DEF P
        <5>2. [k \in Ix |-> IF k \in Used /\ Nth(k) <= UsedNodes THEN HostsOfLine(HostLine(k)) ELSE <<>>]
               = [k \in Ix |-> IF k \in P THEN HostString(k) ELSE <<>>]
          BY <5>1
        <5> QED BY <5>2 DEF HostfileHosts, HostsOf
      <4>3. (\A k \in Used : Nth(k) <= UsedNodes) => \A k \in Used : k \in P
        OBVIOUS
      <4> HIDE DEF P
      <4> QED BY <4>1, <4>2, <4>3
    <3>2. CASE ~conf.slurm
      <4> DEFINE P == {k \in Ix : k <= UsedNodes}
      <4>1. st = <<Set(spawn.qty, StringHosts)>>
        BY <1>5, <3>2 DEF StringSet
      <4>2. StringHosts = HostsOf(P)
        <5>1. \A k \in Ix : k <= UsedNodes <=> k \in P
          OBVIOUS
        <5> HIDE DEF P
        <5>2. [k \in Ix |-> IF k <= UsedNodes THEN HostString(k) ELSE <<>>]
               = [k \in Ix |-> IF k \in P THEN HostString(k) ELSE <<>>]
          BY <5>1
        <5> QED BY <5>2 DEF StringHosts, HostsOf
      <4>3. (\A k \in Used : k <= UsedNodes) => \A k \in Used : k \in P
        BY <1>2
      <4> HIDE DEF P
      <4> QED BY <4>1, <4>2, <4>3
    <3> QED BY <3>1, <3>2
  <2>2. PICK P : /\ st = <<Set(spawn.qty, HostsOf(P))>>
                 /\ (\A k \in Used : k <= UsedNodes /\ Nth(k) <= UsedNodes) => \A k \in Used : k \in P
    BY <2>1
  <2>3. SetsOf(st, P)
    <3> DEFINE c == [k \in Ix |-> IF k \in P THEN spawned_cpus[k] ELSE 0]
               S == {nodelist[k] : k \in Ix}
               F == HostsOf(P)
               q == spawn.qty
    <3>1. F \in Seq(S)
      BY Chosen DEF HostsOf
    <3>2. st = <<Set(q, F)>>
      BY <2>2
    <3> HIDE DEF S, F, q
    <3>3. /\ FlattenSeq([j \in DOMAIN st |-> st[j].hosts]) = F
          /\ \A j \in DOMAIN st : st[j].qty = q /\ st[j].hosts = F
      BY <3>1, <3>2, OneSet
    <3> QED BY <1>5, <3>3 DEF SetsOf, F, q
  <2> QED BY <2>2, <2>3
<1> QED BY <1>2, <1>3, <1>4, <1>5

(* The sets and their hosts.                                                *)
LEMMA FillSetsKeeps ==
  ASSUME Inv, FillSets
  PROVE  Inv'
<1> DEFINE n == Len(nodelist)
<1>1. /\ TypeOK /\ pc = "sets" /\ pc' = "planned" /\ UNCHANGED <<known, spawned_cpus, spawn, i, left, not_full, tam_bl, reconfs>>
      /\ UNCHANGED <<nodelist, max_cpus, assigned_cpus, spawned_cpus, spawn, conf, i, left, not_full, tam_bl>>
      /\ sets' = IF conf.slurm THEN HostfileSets ELSE IF conf.many THEN StringSets ELSE StringSet
  BY DEF FillSets, known, Inv
<1>2. UpTo(spawned_cpus, n) = spawn.qty /\ (conf.dist = "compact" => Compacted)
  BY <1>1 DEF Inv, SetsOK
<1>3. spawn.qty > 0 /\ \A k \in Ix : spawned_cpus[k] >= 0
  BY <1>1 DEF Inv, RequestOK
<1>4. n \in Nat /\ Ix = 1 .. n /\ spawned_cpus \in [Ix -> Int] /\ spawn.qty \in Int
  BY <1>1, Sizes DEF TypeOK
<1>5. PICK P : /\ SetsOf(sets', P)
               /\ (\A k \in Used : k <= UsedNodes /\ Nth(k) <= UsedNodes /\ (conf.many => Nth(k) <= TotalSpawns))
                    => \A k \in Used : k \in P
  <2> PICK st : st = sets'
    OBVIOUS
  <2>1. \E P : /\ SetsOf(st, P)
               /\ (\A k \in Used : k <= UsedNodes /\ Nth(k) <= UsedNodes /\ (conf.many => Nth(k) <= TotalSpawns))
                    => \A k \in Used : k \in P
    BY <1>1, <1>3, SetsMade
  <2> QED BY <2>1
<1>6. /\ Placed' = HostsOf(P)
      /\ \A j \in DOMAIN sets' : IF conf.many THEN sets'[j].qty = Len(sets'[j].hosts)
                                 ELSE sets'[j].qty = spawn.qty /\ Len(sets'[j].hosts) = Len(HostsOf(P))
  BY <1>5 DEF SetsOf, Placed
<1> DEFINE c == [k \in Ix |-> IF k \in P THEN spawned_cpus[k] ELSE 0]
<1>7. /\ c \in [Ix -> Nat] /\ \A k \in Ix : c[k] <= spawned_cpus[k]
      /\ HostsOf(P) \in Seq({nodelist[k] : k \in Ix}) /\ Len(HostsOf(P)) = UpTo(c, Len(nodelist))
      /\ OneEach => \A k \in Ix : Count(nodelist[k], HostsOf(P)) = c[k]
      /\ (\A k \in Used : k \in P) => Len(HostsOf(P)) = UpTo(spawned_cpus, Len(nodelist))
  BY <1>1, <1>3, Chosen DEF HostsOf
<1>8. /\ KnownOK' /\ Ix' = Ix
      /\ (i' \in Nat /\ left' \in Int /\ not_full' \in Int /\ tam_bl' \in Int
            /\ pc' \in {"spread", "fill", "rest", "compact", "remove", "sets", "planned", "abort", "short"} => TypeOK')
      /\ (pc' \in {"remove", "planned", "abort", "short"} => RequestOK')
  <2>1. pc \notin {"start", "idle"} /\ pc' \notin {"start", "idle"} /\ spawned_cpus' \in [Ix -> Int]
    BY <1>1, <1>4
  <2> QED BY <1>1, <2>1, StillKnown
<1>9. TypeOK' /\ RequestOK'
  <2>1. i \in Nat /\ left \in Int /\ not_full \in Int /\ tam_bl \in Int
    BY <1>1 DEF TypeOK
  <2> QED BY <1>1, <1>8, <2>1
<1>10. \A k \in Ix : Occupied(k)' = Occupied(k)
  BY <1>1 DEF Occupied
<1>11. NodeBounds'
  BY <1>1, <1>8, <1>10 DEF Inv, NodeBounds
<1>12. PlannedOK'
  <2> HIDE DEF c
  <2>1. OneEach' = OneEach
    BY <1>1, <1>8 DEF OneEach
  <2>2. /\ c \in [Ix' -> Nat] /\ \A k \in Ix' : c[k] <= spawned_cpus'[k]
        /\ Placed' \in Seq({nodelist'[k] : k \in Ix'}) /\ Len(Placed') = UpTo(c, Len(nodelist'))
        /\ OneEach' => \A k \in Ix' : Count(nodelist'[k], Placed') = c[k]
    BY <1>1, <1>6, <1>7, <1>8, <2>1
  <2>3. HostsOK'
    BY <2>2 DEF HostsOK
  <2> QED BY <1>1, <1>2, <1>3, <1>4, <2>3 DEF PlannedOK
<1>13. HostsComplete'
  <2>1. ASSUME conf.dist = "compact" \/ Used = 1 .. Cardinality(Used)
        PROVE  Complete' /\ \A j \in DOMAIN sets' : sets'[j].qty = Len(sets'[j].hosts)
    <3>1. \A k \in Used : k <= UsedNodes /\ Nth(k) <= UsedNodes /\ (conf.many => Nth(k) <= TotalSpawns)
      BY <1>1, <1>2, <2>1, AllUsed
    <3>2. Len(HostsOf(P)) = spawn.qty
      BY <1>2, <1>5, <1>7, <3>1
    <3> QED BY <1>1, <1>6, <3>2 DEF Complete
  <2>2. Used' = Used
    BY <1>1, <1>8 DEF Used
  <2> QED BY <1>1, <2>1, <2>2 DEF HostsComplete
<1>14. SpreadOK' /\ CompactOK' /\ SetsOK' /\ RemoveOK' /\ Distributed'
  BY <1>1 DEF SpreadOK, CompactOK, SetsOK, RemoveOK, Distributed
<1> QED BY <1>8, <1>9, <1>11, <1>12, <1>13, <1>14 DEF Inv

-----------------------------------------------------------------------------
(* The commit.                                                              *)

(* Ranks on machines of the list.                                           *)
LEMMA OnList ==
  ASSUME TypeOK, pc # "start", KnownOK
  PROVE  where \in Seq({nodelist[k] : k \in Ix})
<1> DEFINE S == {nodelist[k] : k \in Ix}
           L == Len(where)
<1>1. where \in Seq(1 .. Nodes)
  BY DEF TypeOK
<1>2. L \in Nat /\ DOMAIN where = 1 .. L /\ where = [r \in 1 .. L |-> where[r]]
  <2> DEFINE M == 1 .. Nodes
  <2>1. where \in Seq(M)
    BY <1>1
  <2> HIDE DEF M
  <2>2. L \in Nat /\ where \in [1 .. L -> M] /\ DOMAIN where = 1 .. L
    BY <2>1, LenProperties
  <2> QED BY <2>2
<1>3. \A r \in 1 .. L : where[r] \in S
  BY <1>2 DEF KnownOK
<1> HIDE DEF S, L
<1>4. where \in Seq(S)
  BY <1>2, <1>3
<1> QED BY <1>4 DEF S

(* Machines of the list.                                                    *)
LEMMA ListNodes ==
  ASSUME TypeOK, NEW s \in Seq({nodelist[k] : k \in Ix})
  PROVE  /\ s \in Seq(1 .. Nodes) /\ DOMAIN s = 1 .. Len(s) /\ Len(s) \in Nat
         /\ \A r \in DOMAIN s : \E k \in Ix : nodelist[k] = s[r]
<1> DEFINE S == {nodelist[k] : k \in Ix}
           M == 1 .. Nodes
<1>1. S \subseteq M
  BY Sizes
<1>2. \A x \in S : \E k \in Ix : nodelist[k] = x
  OBVIOUS
<1> HIDE DEF S, M
<1>3. s \in Seq(S)
  BY DEF S
<1>4. s \in Seq(M)
  BY <1>1, <1>3, SeqMonotonic
<1>5. DOMAIN s = 1 .. Len(s) /\ Len(s) \in Nat /\ \A r \in 1 .. Len(s) : s[r] \in S
  BY <1>3, LenProperties, ElementOfSeq
<1> QED BY <1>2, <1>4, <1>5 DEF M

(* A complete spawn places each process that was planned.                   *)
LEMMA AllPlaced ==
  ASSUME TypeOK, HostsOK, Complete, UpTo(spawned_cpus, Len(nodelist)) = spawn.qty
  PROVE  /\ Placed \in Seq({nodelist[k] : k \in Ix}) /\ Len(Placed) = UpTo(spawned_cpus, Len(nodelist))
         /\ \A k \in Ix : spawned_cpus[k] >= 0
         /\ OneEach => \A k \in Ix : Count(nodelist[k], Placed) = spawned_cpus[k]
<1> DEFINE n == Len(nodelist)
<1>1. n \in Nat /\ Ix = 1 .. n /\ spawned_cpus \in [1 .. n -> Int]
  BY Sizes
<1>2. PICK c \in [Ix -> Nat] :
        /\ \A k \in Ix : c[k] <= spawned_cpus[k]
        /\ Placed \in Seq({nodelist[k] : k \in Ix}) /\ Len(Placed) = UpTo(c, Len(nodelist))
        /\ OneEach => \A k \in Ix : Count(nodelist[k], Placed) = c[k]
  BY DEF HostsOK
<1>3. UpTo(c, n) = UpTo(spawned_cpus, n)
  BY <1>2 DEF Complete
<1>4. \A k \in Ix : c[k] = spawned_cpus[k] /\ c[k] \in Nat
  <2> DEFINE s == spawned_cpus
  <2>1. n \in Nat /\ c \in [1 .. n -> Int] /\ s \in [1 .. n -> Int] /\ (\A k \in 1 .. n : c[k] <= s[k])
        /\ UpTo(c, n) = UpTo(s, n)
    BY <1>1, <1>2, <1>3
  <2> HIDE DEF s, n
  <2>2. \A k \in 1 .. n : c[k] = s[k]
    BY <2>1, UpToLeq
  <2> QED BY <1>1, <1>2, <2>2 DEF s
<1> QED BY <1>2, <1>3, <1>4

(* The commit, or a group that does not start.                              *)
LEMMA CommitKeeps ==
  ASSUME Inv, Commit
  PROVE  Inv'
<1> DEFINE n == Len(nodelist)
           S == {nodelist[k] : k \in Ix}
<1>1. TypeOK /\ pc = "planned" /\ UNCHANGED <<cpus, nodelist, max_cpus, conf, spawn, i, left, not_full, tam_bl, reconfs>>
      /\ Ix' = Ix
  BY DEF Inv, Commit, plan, Ix
<1>2. /\ UpTo(spawned_cpus, n) = spawn.qty /\ (spawn.qty > 0 => HostsOK) /\ (spawn.qty < 0 => CutOK)
  BY <1>1 DEF Inv, PlannedOK
<1>3. /\ spawn.initial = Len(where) /\ spawn.target > 0 /\ spawn.qty # 0
      /\ spawn.created = (IF spawn.method = "merge" THEN Len(where) ELSE 0)
      /\ spawn.qty = spawn.target - spawn.created
  BY <1>1 DEF Inv, RequestOK
<1>4. n \in Nat /\ Ix = 1 .. n /\ spawned_cpus \in [1 .. n -> Int] /\ assigned_cpus \in [1 .. n -> Nat]
      /\ (\A k \in Ix : spawned_cpus[k] \in Int /\ assigned_cpus[k] \in Nat)
      /\ spawn.qty \in Int /\ spawn.target \in Nat /\ spawn.method \in {"merge", "baseline"}
  BY <1>1, Sizes DEF TypeOK
<1>5. KnownOK /\ where \in Seq(S) /\ Len(where) \in Nat /\ Len(where) <= UpTo(assigned_cpus, n)
  <2>1. KnownOK /\ where \in Seq(S)
    BY <1>1, OnList DEF Inv
  <2>2. Len(where) <= UpTo(assigned_cpus, n)
    BY <1>1, <2>1 DEF KnownOK
  <2> QED BY <1>1, <2>1, <2>2, ListNodes
<1>6. CASE pc' = "short" /\ UNCHANGED <<where, assigned_cpus, spawned_cpus>>
  <2>1. TypeOK'
    BY <1>1, <1>6 DEF TypeOK, Cores
  <2>2. KnownOK'
    BY <1>1, <1>5, <1>6 DEF KnownOK, OneEach
  <2>3. RequestOK'
    BY <1>1, <1>3, <1>6 DEF RequestOK
  <2>4. \A k \in Ix : Occupied(k)' = Occupied(k)
    BY <1>1, <1>6 DEF Occupied
  <2>5. NodeBounds'
    BY <1>1, <1>6, <2>4 DEF Inv, NodeBounds
  <2>6. SpreadOK' /\ CompactOK' /\ SetsOK' /\ RemoveOK' /\ PlannedOK' /\ Distributed' /\ HostsComplete'
    BY <1>6 DEF SpreadOK, CompactOK, SetsOK, RemoveOK, PlannedOK, Distributed, HostsComplete
  <2> QED BY <2>1, <2>2, <2>3, <2>5, <2>6 DEF Inv
<1>7. CASE /\ (spawn.qty > 0 => Complete) /\ pc' = "idle" /\ spawned_cpus' = Zeros(nodelist) /\ assigned_cpus' = NewCounts
           /\ where' = (IF spawn.method = "baseline" THEN Placed
                        ELSE IF spawn.qty > 0 THEN where \o Placed
                        ELSE SubSeq(where, 1, spawn.target))
  <2>1. spawn.qty > 0 => /\ Placed \in Seq(S) /\ Len(Placed) = spawn.qty /\ \A k \in Ix : spawned_cpus[k] >= 0
    BY <1>1, <1>2, <1>7, AllPlaced
  <2>2. spawn.method = "baseline" => spawn.qty > 0
    BY <1>3, <1>4
  <2>3. assigned_cpus' \in [Ix -> Nat]
    <3>1. CASE spawn.method = "baseline"
      BY <1>4, <1>7, <2>1, <2>2, <3>1 DEF NewCounts
    <3>2. CASE spawn.method # "baseline"
      <4>1. \A k \in Ix : assigned_cpus[k] + spawned_cpus[k] \in Nat
        BY <1>4 DEF Inv, NodeBounds
      <4> QED BY <1>7, <3>2, <4>1 DEF NewCounts
    <3> QED BY <3>1, <3>2
  <2>4. spawned_cpus' \in [Ix -> Int] /\ \A k \in Ix : spawned_cpus'[k] = 0
    BY <1>7 DEF Zeros, Ix
  <2>5. /\ where' \in Seq(S)
        /\ Len(where') = IF spawn.method = "baseline" THEN spawn.qty ELSE Len(where) + spawn.qty
    <3> HIDE DEF S
    <3>1. CASE spawn.method = "baseline"
      BY <1>7, <2>1, <2>2, <3>1
    <3>2. CASE spawn.method # "baseline" /\ spawn.qty > 0
      BY <1>5, <1>7, <2>1, <3>2, ConcatProperties
    <3>3. CASE spawn.method # "baseline" /\ ~(spawn.qty > 0)
      <4>1. spawn.target = Len(where) + spawn.qty /\ 1 <= spawn.target /\ spawn.target <= Len(where)
        BY <1>3, <1>4, <1>5, <3>3
      <4>2. SubSeq(where, 1, spawn.target) \in Seq(S) /\ Len(SubSeq(where, 1, spawn.target)) = spawn.target
        BY <1>4, <1>5, <4>1
      <4> QED BY <1>7, <3>3, <4>1, <4>2
    <3> QED BY <3>1, <3>2, <3>3
  <2>6. where' \in Seq(1 .. Nodes) /\ \A r \in DOMAIN where' : \E k \in Ix : nodelist[k] = where'[r]
    <3> PICK s \in Seq(S) : s = where'
      BY <2>5
    <3>1. s \in Seq(1 .. Nodes) /\ \A r \in DOMAIN s : \E k \in Ix : nodelist[k] = s[r]
      BY <1>1, ListNodes
    <3> QED BY <3>1
  <2>7. Len(where') <= UpTo(assigned_cpus', n)
    <3>1. CASE spawn.method = "baseline"
      BY <1>2, <1>4, <1>7, <2>5, <3>1 DEF NewCounts
    <3>2. CASE spawn.method # "baseline"
      <4> DEFINE f == assigned_cpus
                 g == spawned_cpus
      <4> PICK h \in [Ix -> Nat] : h = assigned_cpus'
        BY <2>3
      <4>1. \A k \in 1 .. n : h[k] = f[k] + g[k]
        BY <1>4, <1>7, <3>2 DEF NewCounts
      <4>2. n \in Nat /\ f \in [1 .. n -> Int] /\ g \in [1 .. n -> Int] /\ h \in [1 .. n -> Int]
        BY <1>4
      <4> HIDE DEF f, g, n
      <4>3. UpTo(h, n) = UpTo(f, n) + UpTo(g, n)
        BY <4>1, <4>2, UpToPlus
      <4>4. UpTo(f, n) \in Int
        BY <4>2, UpToIs
      <4>5. Len(where) <= UpTo(f, n) /\ UpTo(g, n) = spawn.qty
        BY <1>2, <1>5 DEF f, g
      <4> DEFINE x == UpTo(f, n)
      <4> HIDE DEF x
      <4>6. Len(where) + spawn.qty <= x + spawn.qty
        BY <1>4, <1>5, <4>4, <4>5 DEF x
      <4> QED BY <2>5, <3>2, <4>3, <4>5, <4>6 DEF x
    <3> QED BY <3>1, <3>2
  <2>8. TypeOK'
    BY <1>1, <1>7, <2>3, <2>4, <2>6 DEF TypeOK, Cores
  <2>9. KnownOK'
    BY <1>1, <1>7, <2>6, <2>7 DEF KnownOK
  <2>10. RequestOK'
    BY <1>1, <1>7, <2>4 DEF RequestOK
  <2>11. NodeBounds'
    <3>1. \A k \in Ix : ~(spawned_cpus'[k] > 0) /\ 0 <= assigned_cpus'[k] + spawned_cpus'[k]
      <4>1. \A k \in Ix : assigned_cpus'[k] \in Nat
        BY <2>3
      <4> QED BY <2>4, <4>1
    <3> QED BY <1>1, <3>1 DEF NodeBounds
  <2>12. SpreadOK' /\ CompactOK' /\ SetsOK' /\ RemoveOK' /\ PlannedOK' /\ Distributed' /\ HostsComplete'
    BY <1>7 DEF SpreadOK, CompactOK, SetsOK, RemoveOK, PlannedOK, Distributed, HostsComplete
  <2> QED BY <2>8, <2>9, <2>10, <2>11, <2>12 DEF Inv
<1> QED BY <1>6, <1>7 DEF Commit

-----------------------------------------------------------------------------
(* The counts after a commit.                                               *)

(* A set of positions with everything below it is an initial interval.      *)
LEMMA DownClosed ==
  ASSUME NEW L \in Nat, NEW T \in SUBSET (1 .. L), \A x \in T : 1 .. x \subseteq T
  PROVE  IsFiniteSet(T) /\ Cardinality(T) \in Nat /\ T = 1 .. Cardinality(T)
<1> DEFINE c == Cardinality(T)
<1>1. IsFiniteSet(T) /\ c \in Nat
  <2>1. IsFiniteSet(1 .. L)
    BY Upward
  <2> QED BY <2>1, FS_Subset, FS_CardinalityType
<1>2. ASSUME NEW x \in T PROVE x \in 1 .. c
  <2>1. x \in Nat /\ x >= 1 /\ IsFiniteSet(1 .. x) /\ Cardinality(1 .. x) = x
    <3>1. x \in Nat /\ x >= 1
      OBVIOUS
    <3> QED BY <3>1, Upward
  <2>2. Cardinality(1 .. x) <= c
    BY <1>1, FS_Subset
  <2> HIDE DEF c
  <2> QED BY <1>1, <2>1, <2>2
<1>3. IsFiniteSet(1 .. c) /\ Cardinality(1 .. c) = c
  BY <1>1, Upward
<1>4. T \subseteq 1 .. c
  BY <1>2
<1>5. T = 1 .. c
  BY <1>3, <1>4, FS_Subset
<1> QED BY <1>1, <1>5

(* Numbers that do not decrease, the places of one of them, and how many    *)
(* each has.                                                                *)
Rising(g, L) == \A r \in 2 .. L : g[r - 1] <= g[r]
At(g, L, k) == {r \in 1 .. L : g[r] = k}
Fills(g, L, a, n) == Rising(g, L) /\ \A k \in 1 .. n : Cardinality(At(g, L, k)) = a[k]
OneAfterAnother(g, L, a, n) == \A k \in 1 .. n : At(g, L, k) = UpTo(a, k - 1) + 1 .. UpTo(a, k)

(* Ranks in the order of the list take their places one entry after         *)
(* another.                                                                 *)
LEMMA InOrder ==
  ASSUME NEW n \in Nat, NEW L \in Nat, NEW g \in [1 .. L -> 1 .. n], NEW a \in [1 .. n -> Nat],
         Fills(g, L, a, n)
  PROVE  /\ L = UpTo(a, n)
         /\ OneAfterAnother(g, L, a, n)
<1> USE DEF Rising, At, Fills, OneAfterAnother
<1>1. \A r \in 1 .. L : g[r] \in Nat /\ 1 <= g[r] /\ g[r] <= n /\ r \in Nat
  OBVIOUS
<1>2. \A r \in 1 .. L : \A q \in 1 .. r : g[q] <= g[r]
  <2> DEFINE T == {r \in Nat : r <= L => \A q \in 1 .. r : g[q] <= g[r]}
  <2>1. T \in SUBSET Nat /\ 0 \in T
    OBVIOUS
  <2>2. ASSUME NEW r \in 1 .. L, r - 1 \in T PROVE r \in T
    <3>1. ASSUME NEW q \in 1 .. r PROVE g[q] <= g[r]
      <4>1. CASE q = r
        BY <1>1, <4>1
      <4>2. CASE q # r
        <5>1. q \in 1 .. r - 1 /\ r \in 2 .. L /\ r - 1 \in 1 .. L /\ q \in 1 .. L
          BY <4>2
        <5>2. g[q] <= g[r - 1] /\ g[r - 1] <= g[r]
          BY <2>2, <5>1
        <5> QED BY <1>1, <5>1, <5>2
      <4> QED BY <4>1, <4>2
    <3> QED BY <3>1
  <2> HIDE DEF T
  <2>3. \A r \in 0 .. L : r \in T
    BY <2>1, <2>2, InductTo
  <2>4. \A r \in 1 .. L : r \in 0 .. L /\ r \in Nat /\ r <= L
    OBVIOUS
  <2> QED BY <2>3, <2>4 DEF T
<1> DEFINE S(k) == {r \in 1 .. L : g[r] <= k}
           E(k) == {r \in 1 .. L : g[r] = k}
           A(k) == UpTo(a, k)
<1>3. \A k \in Nat : IsFiniteSet(S(k)) /\ Cardinality(S(k)) \in Nat /\ S(k) = 1 .. Cardinality(S(k))
  <2>1. ASSUME NEW k \in Nat PROVE IsFiniteSet(S(k)) /\ Cardinality(S(k)) \in Nat /\ S(k) = 1 .. Cardinality(S(k))
    <3> DEFINE T == S(k)
    <3>1. T \in SUBSET (1 .. L)
      OBVIOUS
    <3>2. ASSUME NEW x \in T, NEW q \in 1 .. x PROVE q \in T
      <4>1. x \in 1 .. L /\ g[x] <= k /\ q \in 1 .. L
        OBVIOUS
      <4>2. g[q] <= g[x]
        BY <1>2, <4>1
      <4> QED BY <1>1, <4>1, <4>2
    <3> HIDE DEF T
    <3>3. \A x \in T : 1 .. x \subseteq T
      BY <3>2
    <3>4. IsFiniteSet(T) /\ Cardinality(T) \in Nat /\ T = 1 .. Cardinality(T)
      BY <3>1, <3>3, DownClosed
    <3> QED BY <3>4 DEF T
  <2> QED BY <2>1
<1>4. A(0) = 0 /\ (\A k \in Nat : A(k) \in Int) /\ \A k \in 1 .. n : A(k) = A(k - 1) + a[k]
  <2>1. a \in [1 .. n -> Int]
    OBVIOUS
  <2> QED BY <2>1, UpToIs
<1>5. \A k \in 0 .. n : Cardinality(S(k)) = A(k)
  <2> DEFINE T == {k \in Nat : Cardinality(S(k)) = A(k)}
  <2>1. T \in SUBSET Nat /\ 0 \in T
    <3>1. S(0) = {}
      BY <1>1
    <3>2. Cardinality(S(0)) = 0
      BY <3>1, FS_EmptySet
    <3> HIDE DEF S, A
    <3> QED BY <1>4, <3>2
  <2>2. ASSUME NEW k \in 1 .. n, k - 1 \in T PROVE k \in T
    <3>0. k \in Nat /\ k - 1 \in Nat
      OBVIOUS
    <3>1. S(k) = S(k - 1) \cup E(k) /\ S(k - 1) \cap E(k) = {}
      <4>1. \A r \in 1 .. L : (g[r] <= k <=> g[r] <= k - 1 \/ g[r] = k) /\ ~(g[r] <= k - 1 /\ g[r] = k)
        BY <1>1, <3>0
      <4> QED BY <4>1
    <3>2. IsFiniteSet(S(k - 1)) /\ IsFiniteSet(S(k)) /\ Cardinality(S(k - 1)) = A(k - 1)
      <4> HIDE DEF S, A
      <4> QED BY <1>3, <2>2, <3>0
    <3>3. Cardinality(E(k)) = a[k]
      OBVIOUS
    <3> DEFINE x == S(k - 1)
               y == E(k)
    <3>4. IsFiniteSet(x) /\ IsFiniteSet(y) /\ x \cap y = {} /\ S(k) = x \cup y
      <4>1. E(k) \subseteq S(k)
        BY <3>1
      <4> HIDE DEF S, E
      <4>2. IsFiniteSet(E(k))
        BY <3>2, <4>1, FS_Subset
      <4> QED BY <3>1, <3>2, <4>2
    <3> HIDE DEF x, y
    <3>5. Cardinality(x \cup y) = Cardinality(x) + Cardinality(y)
      <4>1. Cardinality(x \cup y) = Cardinality(x) + Cardinality(y) - Cardinality(x \cap y)
        BY <3>4, FS_Union
      <4>2. Cardinality(x \cap y) = 0
        BY <3>4, FS_EmptySet
      <4>3. Cardinality(x) \in Nat /\ Cardinality(y) \in Nat
        BY <3>4, FS_CardinalityType
      <4> QED BY <4>1, <4>2, <4>3
    <3>6. Cardinality(S(k)) = A(k - 1) + a[k]
      <4> HIDE DEF S, E, A
      <4> QED BY <3>2, <3>3, <3>4, <3>5 DEF x, y
    <3> HIDE DEF S, A
    <3> QED BY <1>4, <3>0, <3>6
  <2> HIDE DEF T
  <2>3. \A k \in 0 .. n : k \in T
    BY <2>1, <2>2, InductTo
  <2> QED BY <2>3 DEF T
<1>6. \A k \in 0 .. n : S(k) = 1 .. A(k) /\ A(k) \in Nat
  <2> HIDE DEF S, A
  <2>1. \A k \in 0 .. n : k \in Nat
    OBVIOUS
  <2> QED BY <1>3, <1>5, <2>1
<1>7. L = A(n)
  <2>1. S(n) = 1 .. L
    BY <1>1
  <2>2. Cardinality(1 .. L) = L
    BY Upward
  <2>3. n \in 0 .. n
    OBVIOUS
  <2> HIDE DEF S, A
  <2> QED BY <1>5, <2>1, <2>2, <2>3
<1>8. ASSUME NEW k \in 1 .. n PROVE E(k) = A(k - 1) + 1 .. A(k)
  <2>0. k \in 0 .. n /\ k - 1 \in 0 .. n /\ k \in Nat
    OBVIOUS
  <2>1. E(k) = S(k) \ S(k - 1)
    <3>1. \A r \in 1 .. L : g[r] = k <=> g[r] <= k /\ ~(g[r] <= k - 1)
      BY <1>1, <2>0
    <3> QED BY <3>1
  <2> DEFINE x == A(k - 1)
             y == A(k)
  <2>2. S(k) = 1 .. y /\ S(k - 1) = 1 .. x /\ x \in Nat /\ y \in Nat
    <3> HIDE DEF S, A
    <3> QED BY <1>6, <2>0
  <2> HIDE DEF S, E, x, y
  <2>3. E(k) = x + 1 .. y
    BY <2>1, <2>2
  <2> QED BY <2>3 DEF x, y
<1> QED BY <1>7, <1>8

(* The entry of each rank.                                                  *)
LEMMA Entries ==
  ASSUME TypeOK, OneEach, InNodeOrder, where \in Seq({nodelist[k] : k \in Ix})
  PROVE  \E g \in [1 .. Len(where) -> 1 .. Len(nodelist)] :
           /\ \A r \in 1 .. Len(where), k \in Ix : where[r] = nodelist[k] <=> g[r] = k
           /\ \A r \in 2 .. Len(where) : g[r - 1] <= g[r]
<1> DEFINE L == Len(where)
           n == Len(nodelist)
           S == {nodelist[k] : k \in Ix}
           e(x) == CHOOSE k \in Ix : nodelist[k] = x
<1>1. n \in Nat /\ Ix = 1 .. n /\ \A k \in Ix : nodelist[k] \in 1 .. Nodes
  BY Sizes
<1>2. L \in Nat /\ DOMAIN where = 1 .. L /\ \A r \in 1 .. L : where[r] \in S
  <2> HIDE DEF S
  <2>1. where \in Seq(S)
    BY DEF S
  <2> QED BY <2>1, LenProperties, ElementOfSeq
<1>3. ASSUME NEW x \in S PROVE e(x) \in Ix /\ nodelist[e(x)] = x /\ \A k \in Ix : nodelist[k] = x <=> e(x) = k
  <2>1. \E k \in Ix : nodelist[k] = x
    OBVIOUS
  <2>2. e(x) \in Ix /\ nodelist[e(x)] = x
    BY <2>1
  <2> HIDE DEF e
  <2> QED BY <2>2 DEF OneEach
<1>4. PICK rank : /\ rank = [x \in 1 .. Nodes |-> IF \E k \in Ix : nodelist[k] = x THEN e(x) ELSE 0]
                  /\ \A r \in 2 .. L : rank[where[r - 1]] <= rank[where[r]]
  BY DEF InNodeOrder
<1>5. \A x \in S : rank[x] = e(x)
  <2>1. ASSUME NEW x \in S PROVE rank[x] = e(x)
    <3>1. x \in 1 .. Nodes /\ \E k \in Ix : nodelist[k] = x
      BY <1>1
    <3> HIDE DEF e
    <3> QED BY <1>4, <3>1
  <2> QED BY <2>1
<1> DEFINE g == [r \in 1 .. L |-> e(where[r])]
<1> HIDE DEF e
<1>6. g \in [1 .. L -> 1 .. n] /\ \A r \in 1 .. L : g[r] = e(where[r])
  <2> HIDE DEF S
  <2>1. \A r \in 1 .. L : e(where[r]) \in Ix
    BY <1>2, <1>3
  <2> QED BY <1>1, <2>1
<1> HIDE DEF g, S
<1>7. \A r \in 1 .. L, k \in Ix : where[r] = nodelist[k] <=> g[r] = k
  BY <1>2, <1>3, <1>6
<1>8. \A r \in 2 .. L : g[r - 1] <= g[r]
  <2>1. ASSUME NEW r \in 2 .. L PROVE g[r - 1] <= g[r]
    <3>1. r \in 1 .. L /\ r - 1 \in 1 .. L
      BY <1>2
    <3>2. g[r] = rank[where[r]] /\ g[r - 1] = rank[where[r - 1]]
      BY <1>2, <1>5, <1>6, <3>1
    <3> QED BY <1>4, <3>2
  <2> QED BY <2>1
<1> QED BY <1>6, <1>7, <1>8

(* After a growth or a Baseline change.                                     *)
LEMMA GrowthTracks ==
  ASSUME Inv, Commit, OneEach, pc' = "idle", Tracked, spawn.qty > 0
  PROVE  Tracked'
<1> DEFINE S == {nodelist[k] : k \in Ix}
<1>1. TypeOK /\ KnownOK /\ pc = "planned" /\ nodelist' = nodelist /\ Ix' = Ix /\ Complete
      /\ assigned_cpus' = NewCounts
      /\ where' = IF spawn.method = "baseline" THEN Placed ELSE where \o Placed
  BY DEF Inv, Commit, Ix
<1>2. OneEach /\ where \in Seq(S)
  BY <1>1, OnList DEF KnownOK
<1>3. Placed \in Seq(S) /\ \A k \in Ix : Count(nodelist[k], Placed) = spawned_cpus[k]
  BY <1>1, <1>2, AllPlaced DEF Inv, PlannedOK
<1>4. \A k \in Ix : Count(nodelist[k], where) = assigned_cpus[k]
  BY DEF Tracked, RanksOn, Count
<1> HIDE DEF S
<1>5. ASSUME NEW k \in Ix PROVE assigned_cpus'[k] = Count(nodelist[k], where')
  <2>1. CASE spawn.method = "baseline"
    BY <1>1, <1>3, <2>1 DEF NewCounts
  <2>2. CASE spawn.method # "baseline"
    <3>1. Count(nodelist[k], where \o Placed) = Count(nodelist[k], where) + Count(nodelist[k], Placed)
      BY <1>2, <1>3, CountConcat
    <3> QED BY <1>1, <1>3, <1>4, <2>2, <3>1 DEF NewCounts
  <2> QED BY <2>1, <2>2
<1> QED BY <1>1, <1>5 DEF Tracked, RanksOn, Count

(* After a shrink of ranks in the order of the list: the last ones are on   *)
(* the last nodes.                                                          *)
LEMMA ShrinkTracks ==
  ASSUME Inv, Commit, OneEach, pc' = "idle", Tracked, ~(spawn.qty > 0), InNodeOrder
  PROVE  Tracked'
<1> DEFINE n == Len(nodelist)
           L == Len(where)
           a == assigned_cpus
           A(k) == UpTo(a, k)
           t == spawn.target
<1>1. TypeOK /\ KnownOK /\ pc = "planned" /\ nodelist' = nodelist /\ Ix' = Ix
      /\ assigned_cpus' = NewCounts
      /\ where' = IF spawn.method = "baseline" THEN Placed ELSE SubSeq(where, 1, spawn.target)
  BY DEF Inv, Commit, Ix
<1>2. OneEach /\ where \in Seq({nodelist[k] : k \in Ix})
  BY <1>1, OnList DEF KnownOK
<1>3. L \in Nat /\ DOMAIN where = 1 .. L /\ where \in Seq(1 .. Nodes)
  BY <1>1, <1>2, ListNodes
<1>4. /\ spawn.target > 0 /\ spawn.qty # 0 /\ spawn.target \in Nat /\ spawn.qty \in Int
      /\ spawn.created = (IF spawn.method = "merge" THEN Len(where) ELSE 0)
      /\ spawn.qty = spawn.target - spawn.created /\ spawn.method \in {"merge", "baseline"}
  BY <1>1 DEF Inv, RequestOK, TypeOK
<1>5. spawn.qty < 0 /\ spawn.method # "baseline" /\ t \in 1 .. L /\ t = L + spawn.qty
  BY <1>3, <1>4
<1>6. n \in Nat /\ Ix = 1 .. n /\ a \in [1 .. n -> Nat] /\ spawned_cpus \in [1 .. n -> Int]
  BY <1>1, Sizes
<1>7. CutOK
  BY <1>1, <1>5 DEF Inv, PlannedOK
<1>8. PICK g \in [1 .. L -> 1 .. n] :
         /\ \A r \in 1 .. L, k \in Ix : where[r] = nodelist[k] <=> g[r] = k
         /\ \A r \in 2 .. L : g[r - 1] <= g[r]
  BY <1>1, <1>2, Entries
<1>9. \A k \in 1 .. n : {r \in 1 .. L : g[r] = k} = {r \in DOMAIN where : where[r] = nodelist[k]}
  BY <1>3, <1>6, <1>8
<1>10. \A k \in 1 .. n : Cardinality({r \in 1 .. L : g[r] = k}) = a[k]
  BY <1>6, <1>9 DEF Tracked, RanksOn
<1>11. L = A(n) /\ \A k \in 1 .. n : {r \in 1 .. L : g[r] = k} = A(k - 1) + 1 .. A(k)
  <2>1. Fills(g, L, a, n)
    BY <1>8, <1>10 DEF Rising, At, Fills
  <2> HIDE DEF n, L, a
  <2>2. n \in Nat /\ L \in Nat /\ g \in [1 .. L -> 1 .. n] /\ a \in [1 .. n -> Nat]
    BY <1>3, <1>6
  <2>3. L = UpTo(a, n) /\ OneAfterAnother(g, L, a, n)
    BY <2>1, <2>2, InOrder
  <2> QED BY <2>3 DEF At, OneAfterAnother
<1>12. (\A k \in Nat : A(k) \in Int) /\ (\A k \in 1 .. n : A(k) = A(k - 1) + a[k])
  <2>1. a \in [1 .. n -> Int]
    BY <1>6
  <2> HIDE DEF a, n
  <2> QED BY <1>6, <2>1, UpToIs
<1>13. \A k \in 0 .. n, m \in 0 .. n : k <= m => A(k) <= A(m) /\ A(k) \in Nat
  <2>1. ASSUME NEW k \in 0 .. n, NEW m \in 0 .. n, k <= m PROVE A(k) <= A(m) /\ A(k) \in Nat
    <3>1. k \in 0 .. m
      BY <2>1
    <3> HIDE DEF a, n
    <3> QED BY <1>6, <3>1, UpToGrows
  <2> QED BY <2>1
<1> PICK m \in Ix : m = i + 1
  BY <1>7 DEF CutOK
<1>14. /\ left <= 0 /\ left + a[m] > 0 /\ left \in Int
       /\ \A k \in Ix : spawned_cpus[k] = IF k > m THEN - a[k] ELSE IF k = m THEN (- a[k]) - left ELSE 0
       /\ left = (- spawn.qty) - (A(n) - A(m - 1))
  BY <1>1, <1>7 DEF CutOK, AssignedFrom, TypeOK
<1>15. t = A(m - 1) - left
  <2> DEFINE x == A(n)
             y == A(m - 1)
             q == spawn.qty
  <2>1. x \in Int /\ y \in Int /\ q \in Int /\ left = (- q) - (x - y) /\ L = x /\ t = L + q /\ t \in Int
    <3>1. m - 1 \in Nat /\ n \in Nat
      BY <1>6
    <3>2. x \in Int /\ y \in Int /\ L = x
      <4> HIDE DEF A, L, n, a
      <4> QED BY <1>11, <1>12, <3>1
    <3>3. q \in Int /\ t = L + q /\ t \in Int
      BY <1>4, <1>5
    <3>4. left = (- q) - (x - y)
      BY <1>14
    <3> QED BY <3>2, <3>3, <3>4
  <2> HIDE DEF x, y, q, L, t
  <2>2. t = y - left
    BY <1>14, <2>1
  <2> QED BY <2>2 DEF y
<1>16. ASSUME NEW k \in Ix PROVE {r \in DOMAIN where' : where'[r] = nodelist[k]} = {r \in A(k - 1) + 1 .. A(k) : r <= t}
  <2>1. DOMAIN where' = 1 .. t /\ \A r \in 1 .. t : where'[r] = where[r]
    <3> DEFINE M == 1 .. Nodes
               s == SubSeq(where, 1, t)
    <3>1. where' = s /\ where \in Seq(M)
      BY <1>1, <1>3, <1>5
    <3> HIDE DEF M
    <3>2. Len(s) = t /\ s \in Seq(M) /\ \A r \in 1 .. t : s[r] = where[r]
      BY <1>3, <1>5, <3>1
    <3>3. DOMAIN s = 1 .. t
      <4> HIDE DEF s
      <4> QED BY <3>2, LenProperties
    <3> QED BY <3>1, <3>2, <3>3
  <2>2. {r \in DOMAIN where' : where'[r] = nodelist[k]} = {r \in {q \in DOMAIN where : where[q] = nodelist[k]} : r <= t}
    BY <1>3, <1>5, <2>1
  <2>3. {q \in DOMAIN where : where[q] = nodelist[k]} = A(k - 1) + 1 .. A(k)
    <3> HIDE DEF A, n, L
    <3> QED BY <1>6, <1>9, <1>11
  <2> HIDE DEF A
  <2> QED BY <2>2, <2>3
<1>17. ASSUME NEW k \in Ix PROVE Cardinality({r \in A(k - 1) + 1 .. A(k) : r <= t}) = a[k] + spawned_cpus[k]
  <2> DEFINE x == A(k - 1)
             y == A(k)
             p == A(m - 1)
             z == A(m)
  <2>1. /\ x \in Nat /\ y \in Nat /\ p \in Nat /\ z \in Nat /\ y = x + a[k] /\ z = p + a[m] /\ a[k] \in Nat /\ a[m] \in Nat
        /\ (k < m => y <= p) /\ (k > m => z <= x) /\ k \in Nat /\ m \in Nat
    <3>1. k \in 0 .. n /\ m \in 0 .. n /\ k - 1 \in 0 .. n /\ m - 1 \in 0 .. n /\ k \in Nat /\ m \in Nat
          /\ (k < m => k <= m - 1) /\ (k > m => m <= k - 1) /\ k - 1 <= k /\ m - 1 <= m
          /\ k \in 1 .. n /\ m \in 1 .. n /\ k <= k /\ m <= m
      BY <1>6
    <3>2. y = x + a[k] /\ z = p + a[m] /\ a[k] \in Nat /\ a[m] \in Nat
      <4> HIDE DEF a, A
      <4> QED BY <1>6, <1>12, <3>1
    <3> HIDE DEF A, n, a
    <3>3. x \in Nat /\ y \in Nat /\ p \in Nat /\ z \in Nat
      BY <1>13, <3>1
    <3>4. (k < m => y <= p) /\ (k > m => z <= x)
      BY <1>13, <3>1
    <3> QED BY <3>1, <3>2, <3>3, <3>4
  <2>2. t = p - left /\ t \in Nat
    BY <1>4, <1>15
  <2>3. spawned_cpus[k] = IF k > m THEN - a[k] ELSE IF k = m THEN (- a[k]) - left ELSE 0
    BY <1>14
  <2>4. a[m] \in Nat /\ left <= 0 /\ left + a[m] > 0 /\ left \in Int
    BY <1>14, <2>1
  <2> HIDE DEF x, y, p, z, t, A
  <2> DEFINE u == a[k]
             w == a[m]
             s == spawned_cpus[k]
  <2>5. u \in Nat /\ w \in Nat /\ y = x + u /\ z = p + w /\ left + w > 0
        /\ s = IF k > m THEN - u ELSE IF k = m THEN (- u) - left ELSE 0
    BY <2>1, <2>3, <2>4
  <2>6. k = m => x = p /\ u = w
    BY DEF x, p
  <2> HIDE DEF u, w, s
  <2>7. CASE k < m
    <3>1. {r \in x + 1 .. y : r <= t} = x + 1 .. y
      BY SMTT(30), <2>1, <2>2, <2>4, <2>7
    <3>2. Cardinality(x + 1 .. y) = u
      <4>1. x + 1 \in Int /\ y \in Int
        BY <2>1
      <4>2. Cardinality(x + 1 .. y) = IF x + 1 > y THEN 0 ELSE y - (x + 1) + 1
        BY <4>1, FS_Interval
      <4> QED BY SMTT(30), <2>1, <2>5, <4>2
    <3>3. s = 0
      BY <2>1, <2>5, <2>7
    <3>4. u = u + s
      BY <2>5, <3>3
    <3> QED BY <3>1, <3>2, <3>4 DEF x, y, u, s
  <2>8. CASE k > m
    <3>1. {r \in x + 1 .. y : r <= t} = {}
      BY <2>1, <2>2, <2>4, <2>5, <2>8
    <3>2. u + s = 0
      BY <2>5, <2>8
    <3> QED BY <3>1, <3>2, FS_EmptySet DEF x, y, u, s
  <2>9. CASE k = m
    <3>1. {r \in x + 1 .. y : r <= t} = x + 1 .. t
      BY <2>1, <2>2, <2>4, <2>5, <2>6, <2>9
    <3>2. Cardinality(x + 1 .. t) = t - x
      <4>1. x + 1 \in Int /\ t \in Int /\ x <= t
        BY <2>1, <2>2, <2>4, <2>6, <2>9
      <4>2. Cardinality(x + 1 .. t) = IF x + 1 > t THEN 0 ELSE t - (x + 1) + 1
        BY <4>1, FS_Interval
      <4> QED BY <2>1, <2>2, <4>1, <4>2
    <3>3. u + s = t - x
      BY <2>1, <2>2, <2>4, <2>5, <2>6, <2>9
    <3> QED BY <3>1, <3>2, <3>3 DEF x, y, u, s
  <2> QED BY <2>1, <2>7, <2>8, <2>9
<1>18. \A k \in Ix : assigned_cpus'[k] = Cardinality({r \in DOMAIN where' : where'[r] = nodelist[k]})
  <2>1. \A k \in Ix : assigned_cpus'[k] = a[k] + spawned_cpus[k]
    BY <1>1, <1>5 DEF NewCounts
  <2> HIDE DEF a, A, t
  <2> QED BY <1>16, <1>17, <2>1
<1>19. \A k \in Ix' : assigned_cpus'[k] = Cardinality({r \in DOMAIN where' : where'[r] = nodelist'[k]})
  <2>1. ASSUME NEW k \in Ix
        PROVE  {r \in DOMAIN where' : where'[r] = nodelist'[k]} = {r \in DOMAIN where' : where'[r] = nodelist[k]}
    BY <1>1
  <2> QED BY <1>1, <1>18, <2>1
<1> HIDE DEF A, a, t, n, L
<1> QED BY <1>19 DEF Tracked, RanksOn

-----------------------------------------------------------------------------
(* The theorems.                                                            *)

(* Every step keeps the invariant.                                          *)
LEMMA InvStep == Inv /\ [Next]_vars => Inv'
<1> SUFFICES ASSUME Inv, [Next]_vars PROVE Inv'
  OBVIOUS
<1>1. CASE CheckHosts
  BY <1>1, CheckHostsKeeps
<1>2. ASSUME NEW method \in {"merge", "baseline"}, NEW target \in 1 .. Nodes * MaxCores, Reconfigure(method, target)
      PROVE  Inv'
  BY <1>2, ReconfigureKeeps
<1>3. CASE SpreadRound
  BY <1>3, SpreadRoundKeeps
<1>4. CASE SpreadNode
  BY <1>4, SpreadNodeKeeps
<1>5. CASE SpreadRest
  BY <1>5, SpreadRestKeeps
<1>6. CASE CompactNode
  BY <1>6, CompactNodeKeeps
<1>7. CASE RemoveNode
  BY <1>7, RemoveNodeKeeps
<1>8. CASE FillSets
  BY <1>8, FillSetsKeeps
<1>9. CASE Commit
  BY <1>9, CommitKeeps
<1>10. CASE UNCHANGED vars
  BY <1>10, Same
<1> QED BY <1>1, <1>2, <1>3, <1>4, <1>5, <1>6, <1>7, <1>8, <1>9, <1>10 DEF Next, Work, Stopped

(* The plan is well formed in every state.                                  *)
THEOREM PlanInvariant == Spec => []Inv
<1>1. Init => Inv
  BY Start
<1>2. Inv /\ [Next]_vars => Inv'
  BY InvStep
<1> QED BY <1>1, <1>2, PTL DEF Spec

(* Whatever the machines, the ranks on them and the changes asked for, no   *)
(* node is given a process beyond its cores and none loses more than it     *)
(* runs.                                                                    *)
THEOREM NodesBounded == Spec => []NodeBounds
<1>1. Inv => NodeBounds
  BY DEF Inv
<1> QED BY <1>1, PlanInvariant, PTL

(* spread_dist and compact_dist end with the distribution they are named    *)
(* for.                                                                     *)
THEOREM DistributedAsAsked == Spec => []Distributed
<1>1. Inv => Distributed
  BY DEF Inv
<1> QED BY <1>1, PlanInvariant, PTL

(* Each process of a spawn whose nodes are the first of the list has a host *)
(* in the sets, in each of the ways the hosts are written.                  *)
THEOREM EveryHost == Spec => []HostsComplete
<1>1. Inv => HostsComplete
  BY DEF Inv
<1> QED BY <1>1, PlanInvariant, PTL

(* The counts a commit leaves are those of the processes that really run,   *)
(* machine by machine, whenever the list has each machine once: MAM_Commit  *)
(* adds what the sets have, and the ranks that leave are those of the nodes *)
(* that remove_dist empties.  So no machine that receives processes runs    *)
(* more of them than it has cores.                                          *)
THEOREM CountsStayTrue == Spec => CommitTracks
<1> DEFINE StillTrue == /\ Tracked'
                        /\ \A k \in Ix : spawned_cpus[k] > 0 => ~Crowded(k)'
<1>1. Inv /\ [Next]_vars =>
        [pc = "planned" /\ pc' = "idle" /\ OneEach /\ Tracked /\ (spawn.qty > 0 \/ InNodeOrder) => StillTrue]_vars
  <2> SUFFICES ASSUME Inv, Next, pc = "planned", pc' = "idle", OneEach, Tracked, spawn.qty > 0 \/ InNodeOrder
               PROVE  StillTrue
    OBVIOUS
  <2>1. Commit
    BY DEF Next, Work, Stopped, CheckHosts, SpreadRound, SpreadNode, SpreadRest, CompactNode, RemoveNode,
           FillSets, Reconfigure
  <2>2. Tracked'
    <3>1. CASE spawn.qty > 0
      BY <2>1, <3>1, GrowthTracks
    <3>2. CASE ~(spawn.qty > 0)
      BY <2>1, <3>2, ShrinkTracks
    <3> QED BY <3>1, <3>2
  <2>3. ASSUME NEW k \in Ix, spawned_cpus[k] > 0 PROVE ~Crowded(k)'
    <3>1. nodelist' = nodelist /\ max_cpus' = max_cpus /\ assigned_cpus' = NewCounts /\ Ix' = Ix
      BY <2>1 DEF Commit, Ix
    <3>2. assigned_cpus'[k] = RanksOn(nodelist[k])'
      BY <2>2, <3>1 DEF Tracked
    <3>3. Occupied(k) <= max_cpus[k] /\ TypeOK /\ RequestOK /\ pc = "planned"
      BY <2>3 DEF Inv, NodeBounds
    <3>4. NewCounts[k] <= Occupied(k)
      <4>1. CASE spawn.method = "baseline"
        BY <2>3, <3>3, <4>1 DEF NewCounts, Occupied, TypeOK, RequestOK, Ix
      <4>2. CASE spawn.method # "baseline" /\ where # <<>>
        <5>1. Len(where) # 0 /\ spawn.created = Len(where)
          BY <3>3, <4>2 DEF TypeOK, RequestOK
        <5> QED BY <2>3, <3>3, <4>2, <5>1 DEF NewCounts, Occupied, TypeOK, Ix
      <4>3. CASE spawn.method # "baseline" /\ where = <<>>
        <5>1. {r \in DOMAIN where : where[r] = nodelist[k]} = {}
          BY <4>3
        <5>2. assigned_cpus[k] = 0
          BY <5>1, FS_EmptySet DEF Tracked, RanksOn
        <5> QED BY <2>3, <3>3, <4>3, <5>2 DEF NewCounts, Occupied, TypeOK, Ix
      <4> QED BY <4>1, <4>2, <4>3
    <3>5. NewCounts[k] \in Int /\ Occupied(k) \in Int /\ max_cpus[k] \in Int
      BY <3>3 DEF NewCounts, Occupied, TypeOK, Ix
    <3> QED BY <3>1, <3>2, <3>3, <3>4, <3>5 DEF Crowded
  <2> QED BY <2>2, <2>3
<1> QED BY <1>1, PlanInvariant, PTL DEF Spec, CommitTracks

-----------------------------------------------------------------------------
(* The zombie service. *)

\* A function on 1 .. n is a sequence of length n.
LEMMA MadeSeq ==
  ASSUME NEW S, NEW n \in Nat, NEW f \in [1 .. n -> S]
  PROVE  f \in Seq(S) /\ Len(f) = n
<1>1. f \in Seq(S)
  BY SeqDef
<1>2. DOMAIN f = 1 .. Len(f) /\ Len(f) \in Nat
  BY <1>1, LenProperties
<1>. QED
  BY <1>1, <1>2

\* The properties of a sequence with one more element.
LEMMA Appended ==
  ASSUME NEW S, NEW seq \in Seq(S), NEW e \in S, NEW t, t = Append(seq, e)
  PROVE  /\ t \in Seq(S) /\ Len(t) = Len(seq) + 1
         /\ (\A d \in 1 .. Len(seq) : t[d] = seq[d]) /\ t[Len(seq) + 1] = e
  BY AppendProperties

\* The sequence of one element.
LEMMA SingleSeq ==
  ASSUME NEW S, NEW x \in S
  PROVE  <<x>> \in Seq(S) /\ Len(<<x>>) = 1 /\ <<x>>[1] = x
  OBVIOUS

\* The ranks of a world are a sequence of one of the sizes a spawn may have.
LEMMA RowFacts ==
  ASSUME NEW row
  PROVE  row \in Rows <=> /\ row \in [1 .. Len(row) -> Places]
                          /\ Len(row) \in WorldSizes
<1>1. ASSUME row \in Rows PROVE row \in [1 .. Len(row) -> Places] /\ Len(row) \in WorldSizes
  <2>1. PICK n \in WorldSizes : row \in [1 .. n -> Places]
    BY <1>1 DEF Rows
  <2>2. n \in Nat
    BY ZombiesAssumption
  <2>3. Len(row) = n
    BY <2>1, <2>2, MadeSeq
  <2>. QED
    BY <2>1, <2>3
<1>2. ASSUME row \in [1 .. Len(row) -> Places], Len(row) \in WorldSizes PROVE row \in Rows
  BY <1>2 DEF Rows
<1>. QED
  BY <1>1, <1>2

\* What the types say of one world.
LEMMA WorldFacts ==
  ASSUME ZombiesTypeOK, NEW w \in Worlds
  PROVE  /\ at[w] \in Rows /\ at[w] \in [RanksOf(w) -> Places]
         /\ Len(at[w]) \in Nat \ {0} /\ Len(at[w]) \in WorldSizes
         /\ members[w] \in Nat /\ qty[w] \in Nat /\ pids[w] \in Tables
<1>1. at[w] \in Rows
  BY ElementOfSeq DEF ZombiesTypeOK, Worlds
<1>2. members[w] \in Nat /\ qty[w] \in Nat /\ pids[w] \in Tables
  BY ElementOfSeq DEF ZombiesTypeOK, Worlds
<1>. QED
  BY <1>1, <1>2, RowFacts, ZombiesAssumption DEF RanksOf

\* A sequence with one entry per world, from one for each of them.
LEMMA PerWorld ==
  ASSUME ZombiesTypeOK, NEW S, NEW f \in [Worlds -> S]
  PROVE  f \in Seq(S) /\ Len(f) = Len(at)
<1>1. Len(at) \in Nat
  BY LenProperties DEF ZombiesTypeOK
<1>. QED
  BY <1>1, MadeSeq DEF Worlds

-----------------------------------------------------------------------------
(* Collecting the zombies of one world. *)

\* With no zombies yet, the new ones fill the table from its start.
LEMMA CollectFirst ==
  ASSUME ZombiesTypeOK, NEW w \in Worlds, qty[w] = 0, NEW new \in Nat, new <= members[w],
         new <= Slots, NEW d \in 0 .. new - 1
  PROVE  Collect(w, new)[d] = members[w] - new + 1 + d
<1>. DEFINE c == CHOOSE j \in 0 .. new - 1 : d = Displ(qty[w], j)
<1>1. \A j \in 0 .. new - 1 : Displ(qty[w], j) = j
  BY DEF Displ
<1>2. \E j \in 0 .. new - 1 : d = Displ(qty[w], j)
  BY <1>1
<1>3. c \in 0 .. new - 1 /\ d = Displ(qty[w], c)
  BY <1>2
<1>4. c = d
  BY <1>1, <1>3
<1>5. d \in DOMAIN pids[w]
  BY WorldFacts, ZombiesAssumption DEF Tables
<1>6. Collect(w, new)[d] = Pid(members[w] - new + 1 + c)
  BY <1>2, <1>5 DEF Collect
<1>. QED
  BY <1>4, <1>6 DEF Pid

\* One more zombie goes after the others.
LEMMA CollectOne ==
  ASSUME ZombiesTypeOK, NEW w \in Worlds, qty[w] > 0, qty[w] < Slots
  PROVE  /\ Collect(w, 1)[qty[w]] = members[w]
         /\ \A d \in 0 .. qty[w] - 1 : Collect(w, 1)[d] = pids[w][d]
<1>0. qty[w] \in Nat /\ members[w] \in Nat /\ DOMAIN pids[w] = 0 .. Slots - 1
  BY WorldFacts DEF Tables
<1>1. 0 .. 1 - 1 = {0}
  OBVIOUS
<1>2. Displ(qty[w], 0) = qty[w]
  BY <1>0 DEF Displ
<1>3. \A d : (\E j \in 0 .. 1 - 1 : d = Displ(qty[w], j)) <=> d = qty[w]
  BY <1>1, <1>2
<1>. DEFINE c == CHOOSE j \in 0 .. 1 - 1 : qty[w] = Displ(qty[w], j)
<1>4. c = 0
  <2>1. \E j \in 0 .. 1 - 1 : qty[w] = Displ(qty[w], j)
    BY <1>3
  <2>2. c \in 0 .. 1 - 1
    BY <2>1
  <2>. QED
    BY <1>1, <2>2
<1>5. qty[w] \in DOMAIN pids[w] /\ 0 .. qty[w] - 1 \subseteq DOMAIN pids[w]
  BY <1>0, ZombiesAssumption
<1>6. Collect(w, 1)[qty[w]] = Pid(members[w] - 1 + 1 + c)
  BY <1>3, <1>5 DEF Collect
<1>7. \A d \in 0 .. qty[w] - 1 : Collect(w, 1)[d] = pids[w][d]
  BY <1>0, <1>3, <1>5 DEF Collect
<1>8. members[w] - 1 + 1 + c = members[w]
  <2>. HIDE DEF c
  <2>. QED
    BY <1>0, <1>4
<1>9. Collect(w, 1)[qty[w]] = members[w]
  BY <1>6, <1>8 DEF Pid
<1>. QED
  BY <1>7, <1>9

\* With no new zombie the table stays.
LEMMA CollectNone ==
  ASSUME ZombiesTypeOK, NEW w \in Worlds
  PROVE  Collect(w, 0) = pids[w]
<1>1. pids[w] \in Tables
  BY WorldFacts
<1>2. ~\E j \in 0 .. 0 - 1 : TRUE
  OBVIOUS
<1>3. \A d \in DOMAIN pids[w] : Collect(w, 0)[d] = pids[w][d]
  BY <1>2 DEF Collect
<1>. QED
  BY <1>1, <1>3 DEF Collect, Tables

\* The table of a world keeps its type.
LEMMA CollectType ==
  ASSUME ZombiesTypeOK, NEW w \in Worlds, NEW new \in Nat, new <= members[w]
  PROVE  Collect(w, new) \in Tables
<1>1. pids[w] \in Tables /\ members[w] \in Nat
  BY WorldFacts
<1>2. ASSUME NEW d \in DOMAIN pids[w] PROVE Collect(w, new)[d] \in Nat
  <2>. DEFINE c == CHOOSE j \in 0 .. new - 1 : d = Displ(qty[w], j)
  <2>1. CASE \E j \in 0 .. new - 1 : d = Displ(qty[w], j)
    <3>1. c \in 0 .. new - 1
      BY <2>1
    <3>2. Collect(w, new)[d] = Pid(members[w] - new + 1 + c)
      BY <1>2, <2>1 DEF Collect
    <3>. QED
      BY <1>1, <3>1, <3>2 DEF Pid
  <2>2. CASE ~\E j \in 0 .. new - 1 : d = Displ(qty[w], j)
    BY <1>1, <1>2, <2>2 DEF Collect, Tables
  <2>. QED
    BY <2>1, <2>2
<1>. QED
  BY <1>1, <1>2 DEF Collect, Tables

\* The table names the zombies after a reconfiguration as well.
LEMMA TableKept ==
  ASSUME ZombiesTypeOK, NEW w \in Worlds, NEW k \in 1 .. members[w],
         WorldOK(at[w], Len(at[w]), members[w], qty[w], pids[w]),
         \A n \in WorldSizes : n <= Slots,
         qty[w] > 0 => members[w] - k <= 1,
         qty[w] + members[w] - k > 0
  PROVE  {Collect(w, members[w] - k)[d] : d \in 0 .. qty[w] + members[w] - k - 1}
           = {Pid(r) : r \in k + 1 .. Len(at[w])}
<1>. DEFINE n == Len(at[w])
            m == members[w]
            q == qty[w]
            T == Collect(w, m - k)
<1>1. /\ n \in Nat /\ m \in Nat /\ q \in Nat /\ n <= Slots /\ Slots \in Nat
      /\ m <= n /\ q = n - m /\ k \in Nat /\ 0 < k /\ k <= m /\ m - k \in Nat
  BY WorldFacts, ZombiesAssumption DEF WorldOK
<1>2. CASE q = 0
  <2>1. m = n
    BY <1>1, <1>2
  <2>2. \A d \in 0 .. m - k - 1 : T[d] = k + 1 + d
    <3>1. m - k \in Nat /\ m - k <= members[w] /\ m - k <= Slots
      BY <1>1, <2>1
    <3>2. \A d \in 0 .. m - k - 1 : T[d] = m - (m - k) + 1 + d
      BY <1>2, <3>1, CollectFirst
    <3>. QED
      BY <1>1, <3>2
  <2>3. ASSUME NEW x \in {T[d] : d \in 0 .. q + m - k - 1} PROVE x \in {Pid(r) : r \in k + 1 .. n}
    BY <1>1, <1>2, <2>1, <2>2, <2>3 DEF Pid
  <2>4. ASSUME NEW r \in k + 1 .. n PROVE Pid(r) \in {T[d] : d \in 0 .. q + m - k - 1}
    <3>1. r - k - 1 \in 0 .. q + m - k - 1 /\ T[r - k - 1] = r
      BY <1>1, <1>2, <2>1, <2>2
    <3>. QED
      BY <3>1 DEF Pid
  <2>. QED
    BY <2>3, <2>4
<1>3. CASE q > 0 /\ m - k = 1
  <2>1. q < Slots /\ k + 1 = m /\ q + m - k - 1 = q /\ n - q = m
    BY <1>1, <1>3
  <2>2. T[q] = m /\ \A d \in 0 .. q - 1 : T[d] = pids[w][d]
    BY <1>3, <2>1, CollectOne
  <2>3. {pids[w][d] : d \in 0 .. q - 1} = {Pid(r) : r \in n - q + 1 .. n}
    BY <1>3 DEF WorldOK, Names
  <2>4. ASSUME NEW d \in 0 .. q PROVE T[d] \in {Pid(r) : r \in k + 1 .. n}
    <3>1. CASE d = q
      <4>1. m \in k + 1 .. n
        BY <1>1, <2>1
      <4>. QED
        BY <2>2, <3>1, <4>1 DEF Pid
    <3>2. CASE d \in 0 .. q - 1
      <4>1. PICK r \in n - q + 1 .. n : T[d] = Pid(r)
        BY <2>2, <2>3, <3>2
      <4>2. r \in k + 1 .. n
        BY <1>1, <2>1
      <4>. QED
        BY <4>1, <4>2
    <3>. QED
      BY <1>1, <2>4, <3>1, <3>2
  <2>5. ASSUME NEW r \in k + 1 .. n PROVE Pid(r) \in {T[d] : d \in 0 .. q}
    <3>1. CASE r = m
      BY <1>1, <2>2, <3>1 DEF Pid
    <3>2. CASE r \in n - q + 1 .. n
      <4>1. PICK d \in 0 .. q - 1 : pids[w][d] = Pid(r)
        BY <2>3, <3>2
      <4>2. d \in 0 .. q /\ T[d] = Pid(r)
        BY SMTT(30), <1>1, <2>2, <4>1
      <4>. QED
        BY <4>2
    <3>. QED
      BY <1>1, <2>1, <2>5, <3>1, <3>2
  <2>. QED
    BY <2>1, <2>4, <2>5
<1>4. CASE q > 0 /\ m - k = 0
  <2>1. T = pids[w]
    BY <1>4, CollectNone
  <2>2. q + m - k - 1 = q - 1 /\ n - q + 1 = k + 1
    BY <1>1, <1>4
  <2>3. {pids[w][d] : d \in 0 .. q - 1} = {Pid(r) : r \in n - q + 1 .. n}
    BY <1>4 DEF WorldOK, Names
  <2>. QED
    BY <2>1, <2>2, <2>3
<1>5. q = 0 \/ (q > 0 /\ m - k = 1) \/ (q > 0 /\ m - k = 0)
  BY <1>1
<1>. QED
  BY <1>2, <1>3, <1>4, <1>5

-----------------------------------------------------------------------------
(* One world in a reconfiguration. *)

\* A world's ranks stay, wherever they go.
LEMMA FateType ==
  ASSUME ZombiesTypeOK, NEW w \in Worlds, NEW k \in Nat
  PROVE  Fate(w, k) \in Rows /\ Len(Fate(w, k)) = Len(at[w])
<1>1. Fate(w, k) \in [1 .. Len(at[w]) -> Places]
  BY WorldFacts DEF Fate, RanksOf, Places, Sleeping
<1>2. Len(Fate(w, k)) = Len(at[w])
  BY <1>1, WorldFacts, MadeSeq
<1>. QED
  BY <1>1, <1>2, WorldFacts, RowFacts

\* A world with no target ends, and its table waits for rank 0.
LEMMA WorldEnds ==
  ASSUME ZombiesTypeOK, NEW w \in Worlds,
         WorldOK(at[w], Len(at[w]), members[w], qty[w], pids[w])
  PROVE  WorldOK(Fate(w, 0), Len(at[w]), 0, qty[w], pids[w])
<1>. DEFINE n == Len(at[w])
            m == members[w]
            q == qty[w]
            row == at[w]
            new == Fate(w, 0)
<1>1. n \in Nat \ {0} /\ m \in Nat /\ q \in Nat /\ m <= n /\ q < n
  BY WorldFacts DEF WorldOK
<1>2. \A r \in 1 .. n : new[r] = IF r > m THEN row[r] ELSE "ending"
  BY <1>1 DEF Fate, RanksOf
<1>3. q > 0 => Names(pids[w], n, q)
  BY DEF WorldOK
<1>4. CASE m = 0
  <2>1. \A r \in 1 .. n : new[r] = row[r]
    BY <1>1, <1>2, <1>4
  <2>2. 1 \in 1 .. n /\ 1 .. n - q \subseteq 1 .. n /\ n - q + 1 .. n \subseteq 1 .. n
    BY <1>1
  <2>3. new[1] = row[1] /\ (Waiting(row, n, q) => Waiting(new, n, q)) /\ (Going(row, n) => Going(new, n))
    BY <2>1, <2>2 DEF Waiting, Going
  <2>. QED
    BY <1>1, <1>3, <1>4, <2>3 DEF WorldOK
<1>5. CASE m > 0
  <2>1. q = n - m /\ \A r \in m + 1 .. n : row[r] \in Sleeping
    BY <1>5 DEF WorldOK, Working
  <2>2. \A r \in 1 .. n - q : new[r] = "ending"
    BY <1>1, <1>2, <2>1
  <2>3. \A r \in n - q + 1 .. n : new[r] \in Sleeping
    BY <1>1, <1>2, <2>1
  <2>4. new[1] = "ending"
    BY <1>1, <1>5, <2>1, <2>2
  <2>5. q = 0 => \A r \in 1 .. n : new[r] = "ending"
    BY <1>1, <2>2
  <2>6. Waiting(new, n, q) /\ (q = 0 => Going(new, n))
    BY <2>2, <2>3, <2>4, <2>5 DEF Waiting, Going
  <2>. QED
    BY <1>1, <1>3, <2>6 DEF WorldOK
<1>. QED
  BY <1>1, <1>4, <1>5

\* A world that keeps its first k ranks has the others asleep and in its table.
LEMMA WorldLeaves ==
  ASSUME ZombiesTypeOK, NEW w \in Worlds, NEW k \in 0 .. members[w],
         WorldOK(at[w], Len(at[w]), members[w], qty[w], pids[w]),
         \A n \in WorldSizes : n <= Slots,
         qty[w] > 0 => New(w, k) <= 1
  PROVE  WorldOK(Fate(w, k), Len(at[w]), k, qty[w] + New(w, k), Collect(w, New(w, k)))
<1>. DEFINE n == Len(at[w])
            m == members[w]
            q == qty[w]
            row == at[w]
            new == Fate(w, k)
<1>1. n \in Nat \ {0} /\ m \in Nat /\ q \in Nat /\ m <= n /\ q < n /\ k \in Nat /\ k <= m
  BY WorldFacts DEF WorldOK
<1>2. CASE k = 0
  <2>1. New(w, k) = 0 /\ q + 0 = q
    BY <1>1, <1>2 DEF New
  <2>. QED
    BY <1>2, <2>1, CollectNone, WorldEnds
<1>3. CASE k > 0
  <2>1. New(w, k) = m - k
    BY <1>3 DEF New
  <2>0. m > 0
    BY <1>1, <1>3
  <2>2. Working(row, n, m)
    BY <2>0 DEF WorldOK
  <2>3. q + (m - k) = n - k /\ n - k < n /\ n - (q + (m - k)) + 1 = k + 1
    <3>1. q = n - m
      BY <2>0 DEF WorldOK
    <3>. HIDE DEF n, m, q
    <3>. QED
      BY <1>1, <1>3, <3>1
  <2>4. \A r \in 1 .. n : new[r] = IF r > m \/ r <= k THEN row[r] ELSE "leaving"
    BY <1>1, <1>3 DEF Fate, RanksOf
  <2>5. \A r \in 1 .. k : new[r] = "active"
    BY <1>1, <2>2, <2>4 DEF Working
  <2>6. \A r \in k + 1 .. n : new[r] \in Sleeping
    BY <1>1, <2>2, <2>4 DEF Working, Sleeping
  <2>7. q + (m - k) > 0 => Names(Collect(w, m - k), n, q + (m - k))
    <3>. DEFINE p == q + (m - k)
    <3>1. k \in 1 .. members[w] /\ (q > 0 => members[w] - k <= 1)
      BY <1>1, <1>3, <2>1
    <3>2. p > 0 => {Collect(w, m - k)[d] : d \in 0 .. q + m - k - 1} = {Pid(r) : r \in k + 1 .. n}
      BY <3>1, TableKept
    <3>3. 0 .. q + m - k - 1 = 0 .. p - 1 /\ n - p + 1 .. n = k + 1 .. n
      BY <1>1, <2>3
    <3>. HIDE DEF p
    <3>4. p > 0 => {Collect(w, m - k)[d] : d \in 0 .. p - 1} = {Pid(r) : r \in n - p + 1 .. n}
      BY <3>2, <3>3
    <3>5. p > 0 => Names(Collect(w, m - k), n, p)
      BY <3>4 DEF Names
    <3>. QED
      BY <3>5 DEF p
  <2>8. Working(new, n, k)
    BY <2>5, <2>6 DEF Working
  <2>. QED
    BY <1>1, <1>3, <2>1, <2>3, <2>7, <2>8 DEF WorldOK
<1>. QED
  BY <1>1, <1>2, <1>3

\* A world that starts is all at work.
LEMMA WorldStarts ==
  ASSUME NEW n \in WorldSizes
  PROVE  /\ [r \in 1 .. n |-> "active"] \in Rows
         /\ Len([r \in 1 .. n |-> "active"]) = n /\ n \in Nat \ {0}
         /\ NoPids \in Tables
         /\ WorldOK([r \in 1 .. n |-> "active"], n, n, 0, NoPids)
<1>1. n \in Nat \ {0}
  BY ZombiesAssumption
<1>2. [r \in 1 .. n |-> "active"] \in [1 .. n -> Places]
  BY DEF Places
<1>3. NoPids \in Tables
  BY DEF NoPids, Tables
<1>4. Len([r \in 1 .. n |-> "active"]) = n
  BY <1>1, <1>2, MadeSeq
<1>5. WorldOK([r \in 1 .. n |-> "active"], n, n, 0, NoPids)
  BY <1>1 DEF WorldOK, Working
<1>. QED
  BY <1>1, <1>2, <1>3, <1>4, <1>5 DEF Rows

-----------------------------------------------------------------------------
(* Every step keeps the invariant. *)

\* A world is added to worlds that are as they should be.
LEMMA AddedWorld ==
  ASSUME ZombiesTypeOK, NEW n \in WorldSizes, NEW A \in Seq(Rows), NEW M \in Seq(Nat), NEW b \in BOOLEAN,
         Len(A) = Len(at), Len(M) = Len(at),
         at' = Append(A, [r \in 1 .. n |-> "active"]), members' = Append(M, n),
         pids' = Append(pids, NoPids), qty' = Append(qty, 0),
         internode' = Append(internode, b), over' = over, gapped' = gapped,
         \A w \in Whole : WorldOK(A[w], Len(A[w]), M[w], qty[w], pids[w])
  PROVE  ZInv'
<1>. DEFINE L == Len(at)
            row == [r \in 1 .. n |-> "active"]
<1>0. L \in Nat /\ Worlds = 1 .. L
  BY LenProperties DEF ZombiesTypeOK, Worlds
<1>1. /\ at' \in Seq(Rows) /\ Len(at') = L + 1
      /\ (\A w \in 1 .. L : at'[w] = A[w]) /\ at'[L + 1] = row
  <2>1. row \in Rows /\ at' = Append(A, row)
    BY WorldStarts
  <2>. HIDE DEF row
  <2>. QED
    BY <2>1, Appended
<1>2. /\ members' \in Seq(Nat) /\ Len(members') = L + 1
      /\ (\A w \in 1 .. L : members'[w] = M[w]) /\ members'[L + 1] = n
  <2>1. n \in Nat
    BY WorldStarts
  <2>. QED
    BY <2>1, AppendProperties
<1>3. /\ pids' \in Seq(Tables) /\ Len(pids') = L + 1
      /\ (\A w \in 1 .. L : pids'[w] = pids[w]) /\ pids'[L + 1] = NoPids
  <2>1. NoPids \in Tables
    BY WorldStarts
  <2>2. pids \in Seq(Tables) /\ Len(pids) = L /\ pids' = Append(pids, NoPids)
    BY DEF ZombiesTypeOK
  <2>. QED
    BY <2>1, <2>2, Appended
<1>4. /\ qty' \in Seq(Nat) /\ Len(qty') = L + 1
      /\ (\A w \in 1 .. L : qty'[w] = qty[w]) /\ qty'[L + 1] = 0
  BY AppendProperties DEF ZombiesTypeOK
<1>5. internode' \in Seq(BOOLEAN) /\ Len(internode') = L + 1
  BY AppendProperties DEF ZombiesTypeOK
<1>6. ZombiesTypeOK'
  <2>1. gapped' \subseteq Worlds'
    BY <1>0, <1>1 DEF ZombiesTypeOK, Worlds
  <2>. QED
    BY <1>1, <1>2, <1>3, <1>4, <1>5, <2>1 DEF ZombiesTypeOK
<1>7. ASSUME NEW w \in Whole'
      PROVE  WorldOK(at'[w], Len(at'[w]), members'[w], qty'[w], pids'[w])
  <2>1. CASE w \in 1 .. L
    <3>1. w \in Whole
      BY <1>0, <1>7, <2>1 DEF Whole
    <3>. QED
      BY <1>1, <1>2, <1>3, <1>4, <2>1, <3>1
  <2>2. CASE w = L + 1
    <3>1. at'[w] = row /\ members'[w] = n /\ qty'[w] = 0 /\ pids'[w] = NoPids
      BY <1>1, <1>2, <1>3, <1>4, <2>2
    <3>2. WorldOK(row, Len(row), n, 0, NoPids)
      BY WorldStarts
    <3>. QED
      BY <3>1, <3>2
  <2>3. w \in 1 .. L \/ w = L + 1
    BY <1>0, <1>1, <1>7 DEF Worlds, Whole
  <2>. QED
    BY <2>1, <2>2, <2>3
<1>8. WorldsOK'
  BY <1>7 DEF WorldsOK, WorldOK
<1>. QED
  BY <1>6, <1>8 DEF ZInv

\* Expand adds a world and leaves the others alone.
LEMMA ExpandStep ==
  ASSUME ZInv, Expand
  PROVE  ZInv'
<1>1. PICK n \in WorldSizes : NewWorld(n) /\ over' = over /\ gapped' = gapped
  BY DEF Expand
<1>2. PICK b \in BOOLEAN : internode' = Append(internode, b)
  BY <1>1 DEF NewWorld, InternodeGroup
<1>. QED
  BY <1>1, <1>2, AddedWorld DEF NewWorld, ZInv, WorldsOK, ZombiesTypeOK

\* What a reconfiguration without targets leaves of the worlds.
LEMMA AllEnd ==
  ASSUME ZInv, NEW A, A = [w \in Worlds |-> Fate(w, 0)]
  PROVE  /\ A \in Seq(Rows) /\ Len(A) = Len(at)
         /\ \A w \in Whole : WorldOK(A[w], Len(A[w]), 0, qty[w], pids[w])
<1>1. A \in [Worlds -> Rows]
  BY FateType DEF ZInv
<1>2. A \in Seq(Rows) /\ Len(A) = Len(at)
  BY <1>1, PerWorld DEF ZInv
<1>3. ASSUME NEW w \in Whole PROVE WorldOK(A[w], Len(A[w]), 0, qty[w], pids[w])
  <2>1. w \in Worlds /\ A[w] = Fate(w, 0) /\ Len(A[w]) = Len(at[w])
    BY FateType DEF ZInv, Whole
  <2>. QED
    BY <2>1, WorldEnds DEF ZInv, WorldsOK
<1>. QED
  BY <1>2, <1>3

\* No rank of any world is a member.
LEMMA NoMembers ==
  ASSUME ZombiesTypeOK, NEW M, M = [w \in Worlds |-> 0]
  PROVE  M \in Seq(Nat) /\ Len(M) = Len(at) /\ \A w \in Worlds : M[w] = 0
<1>1. M \in [Worlds -> Nat]
  OBVIOUS
<1>. QED
  BY <1>1, PerWorld

\* Replace ends every world and adds one.
LEMMA ReplaceStep ==
  ASSUME ZInv, Replace
  PROVE  ZInv'
<1>. DEFINE A == [w \in Worlds |-> Fate(w, 0)]
            M == [w \in Worlds |-> 0]
<1>1. PICK n \in WorldSizes :
        /\ at' = Append(A, [r \in 1 .. n |-> "active"]) /\ members' = Append(M, n)
        /\ pids' = Append(pids, NoPids) /\ qty' = Append(qty, 0)
        /\ \E b \in InternodeGroup(n) : internode' = Append(internode, b)
        /\ over' = over /\ gapped' = gapped
  BY DEF Replace
<1>2. PICK b \in BOOLEAN : internode' = Append(internode, b)
  BY <1>1 DEF InternodeGroup
<1>3. A \in Seq(Rows) /\ Len(A) = Len(at)
      /\ \A w \in Whole : WorldOK(A[w], Len(A[w]), 0, qty[w], pids[w])
  BY AllEnd
<1>4. M \in Seq(Nat) /\ Len(M) = Len(at) /\ \A w \in Worlds : M[w] = 0
  BY NoMembers DEF ZInv
<1>. HIDE DEF A, M
<1>5. \A w \in Whole : WorldOK(A[w], Len(A[w]), M[w], qty[w], pids[w])
  BY <1>3, <1>4 DEF Whole
<1>. QED
  BY <1>1, <1>2, <1>3, <1>4, <1>5, AddedWorld DEF ZInv

\* Finish ends every world.
LEMMA FinishStep ==
  ASSUME ZInv, Finish
  PROVE  ZInv'
<1>1. /\ at' \in Seq(Rows) /\ Len(at') = Len(at)
      /\ \A w \in Whole : WorldOK(at'[w], Len(at'[w]), 0, qty[w], pids[w])
  BY AllEnd DEF Finish
<1>2. members' \in Seq(Nat) /\ Len(members') = Len(at) /\ \A w \in Worlds : members'[w] = 0
  BY NoMembers DEF Finish, ZInv
<1>3. UNCHANGED <<pids, qty, internode, gapped>> /\ over' \in BOOLEAN
  BY DEF Finish
<1>5. Worlds' = Worlds /\ Whole' = Whole
  BY <1>1, <1>3 DEF Worlds, Whole
<1>4. ZombiesTypeOK'
  BY <1>1, <1>2, <1>3, <1>5 DEF ZInv, ZombiesTypeOK
<1>6. \A w \in Whole : WorldOK(at'[w], Len(at'[w]), members'[w], qty'[w], pids'[w])
  BY <1>1, <1>2, <1>3 DEF Whole
<1>7. WorldsOK'
  BY <1>5, <1>6 DEF WorldsOK, WorldOK
<1>. QED
  BY <1>4, <1>7 DEF ZInv

\* Shrink records the zombies of every world it takes ranks from, or leaves gaps
\* in its table.
LEMMA ShrinkStep ==
  ASSUME ZInv, Shrink, \A n \in WorldSizes : n <= Slots
  PROVE  ZInv'
<1>0. PICK v \in Worlds : \E r \in 1 .. members[v] : Leave(v, r) /\ over' = over
  BY DEF Shrink
<1>1. PICK r \in 1 .. members[v] : Leave(v, r) /\ over' = over
  BY <1>0
<1>. DEFINE k(w) == Kept(w, v, r)
<1>2. \A w \in Worlds : k(w) \in 0 .. members[w] /\ New(w, k(w)) \in Nat /\ New(w, k(w)) <= members[w]
                        /\ members[w] \in Nat /\ qty[w] \in Nat
  <2>. SUFFICES ASSUME NEW w \in Worlds
       PROVE  k(w) \in 0 .. members[w] /\ New(w, k(w)) \in Nat /\ New(w, k(w)) <= members[w]
              /\ members[w] \in Nat /\ qty[w] \in Nat
    OBVIOUS
  <2>1. members[w] \in Nat /\ members[v] \in Nat /\ qty[w] \in Nat
    BY WorldFacts DEF ZInv
  <2>2. k(w) \in 0 .. members[w]
    BY <2>1 DEF Kept
  <2>. QED
    BY <2>1, <2>2 DEF New
<1>3. /\ at' = [w \in Worlds |-> Fate(w, k(w))]
      /\ pids' = [w \in Worlds |-> Collect(w, New(w, k(w)))]
      /\ qty' = [w \in Worlds |-> qty[w] + New(w, k(w))]
      /\ members' = [w \in Worlds |-> k(w)]
      /\ gapped' = gapped \cup {w \in Worlds : qty[w] > 0 /\ New(w, k(w)) > 1}
      /\ internode' = internode
  BY <1>1 DEF Leave
<1>. HIDE DEF k
<1>4. at' \in Seq(Rows) /\ Len(at') = Len(at)
  <2>1. \A w \in Worlds : Fate(w, k(w)) \in Rows
    BY <1>2, FateType DEF ZInv
  <2>2. at' \in [Worlds -> Rows]
    BY <1>3, <2>1
  <2>. QED
    BY <2>2, PerWorld DEF ZInv
<1>5. pids' \in Seq(Tables) /\ Len(pids') = Len(at)
  <2>1. \A w \in Worlds : Collect(w, New(w, k(w))) \in Tables
    BY <1>2, CollectType DEF ZInv
  <2>2. pids' \in [Worlds -> Tables]
    BY <1>3, <2>1
  <2>. QED
    BY <2>2, PerWorld DEF ZInv
<1>6. qty' \in Seq(Nat) /\ Len(qty') = Len(at)
  <2>1. qty' \in [Worlds -> Nat]
    BY <1>2, <1>3
  <2>. QED
    BY <2>1, PerWorld DEF ZInv
<1>7. members' \in Seq(Nat) /\ Len(members') = Len(at)
  <2>1. members' \in [Worlds -> Nat]
    BY <1>2, <1>3
  <2>. QED
    BY <2>1, PerWorld DEF ZInv
<1>8. ZombiesTypeOK'
  <2>1. gapped' \subseteq Worlds'
    BY <1>3, <1>4 DEF ZInv, ZombiesTypeOK, Worlds
  <2>. QED
    BY <1>1, <1>3, <1>4, <1>5, <1>6, <1>7, <2>1 DEF ZInv, ZombiesTypeOK
<1>9. ASSUME NEW w \in Whole'
      PROVE  WorldOK(at'[w], Len(at'[w]), members'[w], qty'[w], pids'[w])
  <2>1. w \in Worlds /\ w \in Whole /\ ~(qty[w] > 0 /\ New(w, k(w)) > 1)
    BY <1>3, <1>4, <1>9 DEF Worlds, Whole
  <2>2. WorldOK(at[w], Len(at[w]), members[w], qty[w], pids[w])
    BY <2>1 DEF ZInv, WorldsOK
  <2>3. WorldOK(Fate(w, k(w)), Len(at[w]), k(w), qty[w] + New(w, k(w)), Collect(w, New(w, k(w))))
    <3>1. k(w) \in 0 .. members[w] /\ (qty[w] > 0 => New(w, k(w)) <= 1)
      BY <1>2, <2>1
    <3>. QED
      BY <2>1, <2>2, <3>1, WorldLeaves DEF ZInv
  <2>4. at'[w] = Fate(w, k(w)) /\ Len(Fate(w, k(w))) = Len(at[w])
    BY <1>2, <1>3, <2>1, FateType DEF ZInv
  <2>5. /\ members'[w] = k(w) /\ qty'[w] = qty[w] + New(w, k(w))
        /\ pids'[w] = Collect(w, New(w, k(w)))
    BY <1>3, <2>1
  <2>. QED
    BY <2>3, <2>4, <2>5
<1>10. WorldsOK'
  BY <1>9 DEF WorldsOK, WorldOK
<1>. QED
  BY <1>8, <1>10 DEF ZInv

\* The ranks of one world change.
LEMMA ChangedWorld ==
  ASSUME ZombiesTypeOK, NEW w \in Worlds, NEW row \in [RanksOf(w) -> Places],
         at' = [at EXCEPT ![w] = row]
  PROVE  /\ at' \in Seq(Rows) /\ Len(at') = Len(at) /\ Worlds' = Worlds
         /\ at'[w] = row /\ Len(row) = Len(at[w])
         /\ \A v \in Worlds : v # w => at'[v] = at[v]
<1>1. Len(row) = Len(at[w]) /\ row \in Rows
  <2>1. Len(row) = Len(at[w])
    BY WorldFacts, MadeSeq DEF RanksOf
  <2>. QED
    BY <2>1, WorldFacts, RowFacts DEF RanksOf
<1>2. at' \in Seq(Rows) /\ Len(at') = Len(at)
      /\ \A v \in 1 .. Len(at) : at'[v] = IF v = w THEN row ELSE at[v]
  BY <1>1, ExceptSeq DEF ZombiesTypeOK, Worlds
<1>. QED
  BY <1>1, <1>2 DEF Worlds

\* A rank of one world moves.
LEMMA MovedRank ==
  ASSUME ZombiesTypeOK, NEW w \in Worlds, NEW r \in RanksOf(w), NEW from, NEW to \in Places,
         Move(w, r, from, to)
  PROVE  /\ at' \in Seq(Rows) /\ Len(at') = Len(at) /\ Worlds' = Worlds
         /\ Len(at'[w]) = Len(at[w]) /\ at[w][r] = from
         /\ \A s \in RanksOf(w) : at'[w][s] = IF s = r THEN to ELSE at[w][s]
         /\ \A v \in Worlds : v # w => at'[v] = at[v]
         /\ ZombiesTypeOK'
<1>. DEFINE row == [at[w] EXCEPT ![r] = to]
<1>1. row \in [RanksOf(w) -> Places] /\ \A s \in RanksOf(w) : row[s] = IF s = r THEN to ELSE at[w][s]
  BY WorldFacts
<1>2. at' = [at EXCEPT ![w] = row] /\ at[w][r] = from /\ UNCHANGED <<members, pids, qty, internode, over, gapped>>
  BY DEF Move
<1>. HIDE DEF row
<1>3. /\ at' \in Seq(Rows) /\ Len(at') = Len(at) /\ Worlds' = Worlds
      /\ at'[w] = row /\ Len(row) = Len(at[w])
      /\ \A v \in Worlds : v # w => at'[v] = at[v]
  BY <1>1, <1>2, ChangedWorld
<1>4. ZombiesTypeOK'
  BY <1>2, <1>3 DEF ZombiesTypeOK
<1>. QED
  BY <1>1, <1>2, <1>3, <1>4

\* The other worlds stay as they were, so one world is left to look at.
LEMMA OneWorld ==
  ASSUME ZInv, ZombiesTypeOK', NEW w \in Worlds, Worlds' = Worlds,
         \A v \in Worlds : v # w => at'[v] = at[v] /\ qty'[v] = qty[v],
         UNCHANGED <<members, pids, gapped>>,
         w \in Whole => WorldOK(at'[w], Len(at'[w]), members[w], qty'[w], pids[w])
  PROVE  ZInv'
<1>1. ASSUME NEW v \in Whole PROVE WorldOK(at'[v], Len(at'[v]), members'[v], qty'[v], pids'[v])
  <2>1. CASE v = w
    BY <2>1
  <2>2. CASE v # w
    BY <2>2 DEF ZInv, WorldsOK, Whole
  <2>. QED
    BY <2>1, <2>2
<1>2. WorldsOK'
  BY <1>1 DEF WorldsOK, WorldOK, Whole
<1>. QED
  BY <1>2 DEF ZInv

\* A sleeper goes on to sleep.
LEMMA SleepStep ==
  ASSUME ZInv, NEW w \in Worlds, NEW r \in RanksOf(w), Arm(w, r) \/ Suspend(w, r)
  PROVE  ZInv'
<1>1. PICK from \in Sleeping, to \in Sleeping : Move(w, r, from, to)
  BY DEF Arm, Suspend, Sleeping
<1>2. /\ Worlds' = Worlds /\ Len(at'[w]) = Len(at[w]) /\ at[w][r] = from
      /\ \A s \in RanksOf(w) : at'[w][s] = IF s = r THEN to ELSE at[w][s]
      /\ \A v \in Worlds : v # w => at'[v] = at[v]
      /\ ZombiesTypeOK'
  BY <1>1, MovedRank DEF ZInv, Places
<1>3. UNCHANGED <<members, pids, qty, gapped>>
  BY <1>1 DEF Move
<1>4. "active" \notin Sleeping /\ "ending" \notin Sleeping /\ "gone" \notin Sleeping /\ "aborted" \notin Sleeping
  BY DEF Sleeping
<1>5. ASSUME w \in Whole PROVE WorldOK(at'[w], Len(at[w]), members[w], qty[w], pids[w])
  <2>. DEFINE n == Len(at[w])
  <2>1. n \in Nat \ {0} /\ members[w] \in Nat /\ qty[w] \in Nat /\ 1 \in RanksOf(w)
    BY WorldFacts DEF ZInv, RanksOf
  <2>2. WorldOK(at[w], n, members[w], qty[w], pids[w])
    BY <1>5 DEF ZInv, WorldsOK
  <2>3. \A s \in RanksOf(w) : \/ at'[w][s] = at[w][s]
                              \/ at[w][s] \in Sleeping /\ at'[w][s] \in Sleeping
    BY <1>1, <1>2
  <2>4. members[w] = 0 /\ qty[w] = 0 => at[w][1] \in {"gone", "aborted"}
    BY <1>1, <1>2, <1>4, <2>2 DEF WorldOK, Going, RanksOf
  <2>5. RanksOf(w) = 1 .. n
    BY DEF RanksOf
  <2>6. \A s \in RanksOf(w) : at[w][s] \notin Sleeping => at'[w][s] = at[w][s]
    BY <2>3
  <2>7. members[w] > 0 /\ members[w] <= n /\ Working(at[w], n, members[w]) => Working(at'[w], n, members[w])
    <3>. SUFFICES ASSUME members[w] > 0, members[w] <= n, Working(at[w], n, members[w])
         PROVE  Working(at'[w], n, members[w])
      OBVIOUS
    <3>0. 1 .. members[w] \subseteq RanksOf(w) /\ members[w] + 1 .. n \subseteq RanksOf(w)
      BY <2>1, <2>5
    <3>1. \A s \in 1 .. members[w] : at'[w][s] = "active"
      BY <1>4, <2>6, <3>0 DEF Working
    <3>2. \A s \in members[w] + 1 .. n : at'[w][s] \in Sleeping
      BY <2>3, <3>0 DEF Working
    <3>. QED
      BY <3>1, <3>2 DEF Working
  <2>8. qty[w] < n /\ Waiting(at[w], n, qty[w]) => Waiting(at'[w], n, qty[w])
    <3>. SUFFICES ASSUME qty[w] < n, Waiting(at[w], n, qty[w]) PROVE Waiting(at'[w], n, qty[w])
      OBVIOUS
    <3>0. 1 .. n - qty[w] \subseteq RanksOf(w) /\ n - qty[w] + 1 .. n \subseteq RanksOf(w)
      BY <2>1, <2>5
    <3>1. at'[w][1] = "ending"
      BY <1>4, <2>1, <2>6 DEF Waiting
    <3>2. \A s \in 1 .. n - qty[w] : at'[w][s] \in {"ending", "gone"}
      BY <1>4, <2>6, <3>0 DEF Waiting
    <3>3. \A s \in n - qty[w] + 1 .. n : at'[w][s] \in Sleeping
      BY <2>3, <3>0 DEF Waiting
    <3>. QED
      BY <3>1, <3>2, <3>3 DEF Waiting
  <2>9. members[w] = 0 /\ qty[w] = 0 => at'[w][1] \in {"gone", "aborted"}
    BY <1>4, <2>1, <2>4, <2>6
  <2>. QED
    BY <2>1, <2>2, <2>7, <2>8, <2>9 DEF WorldOK
<1>. QED
  BY <1>2, <1>3, <1>5, OneWorld

\* A rank ends, rank 0 only when it has nobody to wake.
LEMMA ExitStep ==
  ASSUME ZInv, NEW w \in Worlds, NEW r \in RanksOf(w), Exit(w, r)
  PROVE  ZInv'
<1>1. Move(w, r, "ending", "gone") /\ (r # 1 \/ qty[w] = 0)
  BY DEF Exit
<1>2. /\ Worlds' = Worlds /\ Len(at'[w]) = Len(at[w]) /\ at[w][r] = "ending"
      /\ \A s \in RanksOf(w) : at'[w][s] = IF s = r THEN "gone" ELSE at[w][s]
      /\ \A v \in Worlds : v # w => at'[v] = at[v]
      /\ ZombiesTypeOK'
  BY <1>1, MovedRank DEF ZInv, Places
<1>3. UNCHANGED <<members, pids, qty, gapped>>
  BY <1>1 DEF Move
<1>4. ASSUME w \in Whole PROVE WorldOK(at'[w], Len(at[w]), members[w], qty[w], pids[w])
  <2>. DEFINE n == Len(at[w])
              m == members[w]
              q == qty[w]
  <2>1. n \in Nat \ {0} /\ m \in Nat /\ q \in Nat /\ RanksOf(w) = 1 .. n /\ 1 \in RanksOf(w)
    BY WorldFacts DEF ZInv, RanksOf
  <2>2. WorldOK(at[w], n, m, q, pids[w])
    BY <1>4 DEF ZInv, WorldsOK
  <2>3. m = 0
    BY <1>2, <2>1, <2>2 DEF WorldOK, Working, Sleeping
  <2>4. CASE q > 0
    <3>1. Waiting(at[w], n, q) /\ q < n
      BY <2>2, <2>3, <2>4 DEF WorldOK
    <3>2. r # 1 /\ r \notin n - q + 1 .. n
      BY <1>1, <1>2, <2>4, <3>1 DEF Waiting, Sleeping
    <3>3. Waiting(at'[w], n, q)
      <4>0. 1 .. n - q \subseteq RanksOf(w) /\ n - q + 1 .. n \subseteq RanksOf(w)
        BY <2>1, <3>1
      <4>1. at'[w][1] = "ending"
        BY <1>2, <2>1, <3>1, <3>2 DEF Waiting
      <4>2. \A s \in 1 .. n - q : at'[w][s] \in {"ending", "gone"}
        BY <1>2, <3>1, <4>0 DEF Waiting
      <4>3. \A s \in n - q + 1 .. n : at'[w][s] \in Sleeping
        BY <1>2, <3>1, <3>2, <4>0 DEF Waiting
      <4>. QED
        BY <4>1, <4>2, <4>3 DEF Waiting
    <3>. QED
      BY <2>2, <2>3, <2>4, <3>3 DEF WorldOK
  <2>5. CASE q = 0
    <3>1. at'[w][1] \notin {"gone", "aborted"} => at[w][1] \notin {"gone", "aborted"}
      BY <1>2, <2>1
    <3>2. Going(at[w], n) => Going(at'[w], n)
      BY <1>2, <2>1 DEF Going
    <3>. QED
      BY <2>1, <2>2, <2>3, <2>5, <3>1, <3>2 DEF WorldOK
  <2>. QED
    BY <2>1, <2>4, <2>5
<1>. QED
  BY <1>2, <1>3, <1>4, OneWorld

-----------------------------------------------------------------------------
(* What rank 0 does when it ends. *)

\* The world rank 0 wakes: nobody is at work, and the table has its last q ranks.
LEMMA AwakeWorld ==
  ASSUME ZInv, NEW w \in Whole, Awake(w)
  PROVE  /\ 1 \in RanksOf(w) /\ members[w] = 0 /\ at[w][1] = "ending"
         /\ \A s \in RanksOf(w) : \/ ~Hit(w, s) /\ at[w][s] \in {"ending", "gone"}
                                  \/ Hit(w, s) /\ at[w][s] \in Sleeping
         /\ ~Hit(w, 1)
<1>. DEFINE n == Len(at[w])
            q == qty[w]
<1>1. n \in Nat \ {0} /\ members[w] \in Nat /\ q \in Nat /\ q > 0 /\ RanksOf(w) = 1 .. n
      /\ 1 \in RanksOf(w) /\ at[w][1] = "ending"
  BY WorldFacts DEF ZInv, RanksOf, Awake, Whole
<1>2. WorldOK(at[w], n, members[w], q, pids[w])
  BY DEF ZInv, WorldsOK
<1>3. members[w] = 0
  <2>1. members[w] > 0 => at[w][1] = "active"
    BY <1>1, <1>2 DEF WorldOK, Working
  <2>. QED
    BY <1>1, <2>1
<1>4. Listed(w) = n - q + 1 .. n
  BY <1>1, <1>2 DEF WorldOK, Names, Listed, Pid
<1>5. q < n /\ Waiting(at[w], n, q)
  BY <1>1, <1>2, <1>3 DEF WorldOK
<1>6. \A s \in RanksOf(w) : Hit(w, s) <=> s \in n - q + 1 .. n
  BY <1>1, <1>4, <1>5 DEF Hit, Pid
<1>. QED
  BY <1>1, <1>3, <1>5, <1>6 DEF Waiting

\* Awake changes one world, by its table, and empties the table.
LEMMA AwakeStep ==
  ASSUME ZInv, NEW w \in Worlds, Awake(w)
  PROVE  /\ ZInv' /\ \A v \in Worlds : v # w => at'[v] = at[v]
         /\ \A s \in RanksOf(w) :
              at'[w][s] = IF internode[w] THEN IF at[w][s] = "gone" THEN "gone" ELSE "aborted"
                          ELSE IF Hit(w, s) THEN Signalled(at[w][s])
                          ELSE IF s = 1 THEN "gone" ELSE at[w][s]
<1>. DEFINE row == [r \in RanksOf(w) |->
          CASE internode[w] /\ at[w][r] # "gone" -> "aborted"
            [] ~internode[w] /\ Hit(w, r) -> Signalled(at[w][r])
            [] ~internode[w] /\ ~Hit(w, r) /\ r = 1 -> "gone"
            [] OTHER -> at[w][r]]
<1>1. internode[w] \in BOOLEAN
  BY ElementOfSeq DEF ZInv, ZombiesTypeOK, Worlds
<1>2. \A s \in RanksOf(w) :
        row[s] = IF internode[w] THEN IF at[w][s] = "gone" THEN "gone" ELSE "aborted"
                 ELSE IF Hit(w, s) THEN Signalled(at[w][s])
                 ELSE IF s = 1 THEN "gone" ELSE at[w][s]
  BY <1>1
<1>3. row \in [RanksOf(w) -> Places]
  <2>1. \A s \in RanksOf(w) : at[w][s] \in Places
    BY WorldFacts DEF ZInv
  <2>2. ASSUME NEW s \in RanksOf(w) PROVE row[s] \in Places
    BY <1>2, <2>1 DEF Signalled, Places, Sleeping
  <2>. QED
    BY <2>2
<1>4. at' = [at EXCEPT ![w] = row] /\ qty' = [qty EXCEPT ![w] = 0]
      /\ UNCHANGED <<members, pids, internode, over, gapped>>
  BY DEF Awake
<1>. HIDE DEF row
<1>5. /\ at' \in Seq(Rows) /\ Len(at') = Len(at) /\ Worlds' = Worlds
      /\ at'[w] = row /\ Len(row) = Len(at[w])
      /\ \A v \in Worlds : v # w => at'[v] = at[v]
  BY <1>3, <1>4, ChangedWorld DEF ZInv
<1>6. qty' \in Seq(Nat) /\ Len(qty') = Len(qty)
      /\ \A v \in Worlds : qty'[v] = IF v = w THEN 0 ELSE qty[v]
  BY <1>4, ExceptSeq DEF ZInv, ZombiesTypeOK, Worlds
<1>7. ZombiesTypeOK'
  BY <1>4, <1>5, <1>6 DEF ZInv, ZombiesTypeOK
<1>9. ASSUME w \in Whole PROVE WorldOK(row, Len(row), members[w], 0, pids[w])
  <2>1. Len(row) \in Nat \ {0} /\ members[w] = 0
    BY <1>5, <1>9, WorldFacts, AwakeWorld DEF ZInv
  <2>2. row[1] \in {"gone", "aborted"}
    BY <1>2, <1>9, AwakeWorld
  <2>. QED
    BY <2>1, <2>2 DEF WorldOK
<1>10. ZInv'
  BY <1>4, <1>5, <1>6, <1>7, <1>9, OneWorld
<1>. QED
  BY <1>2, <1>5, <1>10

-----------------------------------------------------------------------------
(* The invariant, and the properties that follow from it. *)

\* The first world is at work.
LEMMA InitInv == ZombiesInit => ZInv
<1>. SUFFICES ASSUME ZombiesInit PROVE ZInv
  OBVIOUS
<1>. DEFINE row(n) == [r \in 1 .. n |-> "active"]
<1>1. PICK n \in WorldSizes, b \in BOOLEAN :
        at = <<row(n)>> /\ members = <<n>> /\ pids = <<NoPids>> /\ qty = <<0>>
        /\ internode = <<b>> /\ over = FALSE /\ gapped = {}
  BY DEF ZombiesInit, InternodeGroup
<1>2. row(n) \in Rows /\ Len(row(n)) = n /\ n \in Nat \ {0} /\ NoPids \in Tables
      /\ WorldOK(row(n), n, n, 0, NoPids)
  BY WorldStarts
<1>. HIDE DEF row
<1>3. ZombiesTypeOK
  <2>1. at \in Seq(Rows) /\ Len(at) = 1
    BY <1>1, <1>2, SingleSeq
  <2>2. members \in Seq(Nat) /\ Len(members) = 1 /\ qty \in Seq(Nat) /\ Len(qty) = 1
    BY <1>1, <1>2, SingleSeq
  <2>3. pids \in Seq(Tables) /\ Len(pids) = 1 /\ internode \in Seq(BOOLEAN) /\ Len(internode) = 1
    BY <1>1, <1>2, SingleSeq
  <2>. QED
    BY <1>1, <2>1, <2>2, <2>3 DEF ZombiesTypeOK
<1>4. WorldsOK
  BY <1>1, <1>2 DEF WorldsOK, Worlds, Whole
<1>. QED
  BY <1>3, <1>4 DEF ZInv

\* No step breaks the invariant.
LEMMA NextInv ==
  ASSUME ZInv, [ZombiesNext]_zombieVars, \A n \in WorldSizes : n <= Slots
  PROVE  ZInv'
<1>1. CASE Expand
  BY <1>1, ExpandStep
<1>2. CASE Shrink
  BY <1>2, ShrinkStep
<1>3. CASE Replace
  BY <1>3, ReplaceStep
<1>4. CASE Finish
  BY <1>4, FinishStep
<1>5. ASSUME NEW w \in Worlds, Step(w) PROVE ZInv'
  BY <1>5, AwakeStep, SleepStep, ExitStep DEF Step
<1>6. CASE UNCHANGED zombieVars
  <2>1. UNCHANGED <<at, members, pids, qty, internode, over, gapped>>
    BY <1>6 DEF zombieVars
  <2>2. ZombiesTypeOK' /\ Whole' = Whole
    BY <2>1 DEF ZInv, ZombiesTypeOK, Worlds, Whole
  <2>3. \A w \in Whole : WorldOK(at'[w], Len(at'[w]), members'[w], qty'[w], pids'[w])
    BY <2>1 DEF ZInv, WorldsOK
  <2>4. WorldsOK'
    BY <2>2, <2>3 DEF WorldsOK, WorldOK
  <2>. QED
    BY <2>2, <2>4 DEF ZInv
<1>. QED
  BY <1>1, <1>2, <1>3, <1>4, <1>5, <1>6 DEF ZombiesNext

(***************************************************************************)
(* ZInv is an invariant: every world without gaps in its table is at work, *)
(* asleep or ending the way the table says.                                *)
(***************************************************************************)
THEOREM WorldsInvariance ==
  ASSUME \A n \in WorldSizes : n <= Slots
  PROVE  ZombiesSpec => []ZInv
<1>1. ZombiesInit => ZInv
  BY InitInv
<1>2. ZInv /\ [ZombiesNext]_zombieVars => ZInv'
  BY NextInv
<1>. QED
  BY <1>1, <1>2, PTL DEF ZombiesSpec

\* While a world has zombies, its sleepers are its last ranks.
LEMMA RecordedInWorld ==
  ASSUME ZInv
  PROVE  ZombiesRecorded
<1>. SUFFICES ASSUME NEW w \in Whole, qty[w] > 0
     PROVE  Listed(w) = {Pid(r) : r \in Asleep(w)}
  BY DEF ZombiesRecorded
<1>. DEFINE n == Len(at[w])
            q == qty[w]
<1>1. n \in Nat \ {0} /\ members[w] \in Nat /\ q \in Nat /\ RanksOf(w) = 1 .. n
  BY WorldFacts DEF ZInv, RanksOf, Whole
<1>2. WorldOK(at[w], n, members[w], q, pids[w])
  BY DEF ZInv, WorldsOK
<1>3. Listed(w) = {Pid(r) : r \in n - q + 1 .. n} /\ q < n
  BY <1>1, <1>2 DEF WorldOK, Names, Listed
<1>4. ASSUME NEW r \in 1 .. n PROVE at[w][r] \in Sleeping <=> r \in n - q + 1 .. n
  <2>1. CASE members[w] > 0
    BY <1>1, <1>2, <1>4, <2>1 DEF WorldOK, Working, Sleeping
  <2>2. CASE members[w] = 0
    BY <1>1, <1>2, <1>4, <2>2 DEF WorldOK, Waiting, Sleeping
  <2>. QED
    BY <1>1, <2>1, <2>2
<1>5. Asleep(w) = n - q + 1 .. n
  <2>1. \A r \in n - q + 1 .. n : r \in 1 .. n
    BY <1>1, <1>3
  <2>. QED
    BY <1>1, <1>4, <2>1 DEF Asleep, Sleeping
<1>. QED
  BY <1>3, <1>5

(***************************************************************************)
(* The table of rank 0 names the zombies of its world, all of them and     *)
(* nobody else, after any sequence of reconfigurations, until one takes    *)
(* several ranks at once from a world that has zombies                     *)
(* (MAM_I_zombies_collect).                                                *)
(***************************************************************************)
THEOREM Recorded ==
  ASSUME \A n \in WorldSizes : n <= Slots
  PROVE  ZombiesSpec => []ZombiesRecorded
BY WorldsInvariance, RecordedInWorld, PTL

\* A reconfiguration never moves a rank to where a signal would.
LEMMA FateUnkilled ==
  ASSUME ZombiesTypeOK, NEW w \in Worlds, NEW k \in Nat, NEW r \in RanksOf(w)
  PROVE  /\ at[w][r] \in {"active", "ending"} => Fate(w, k)[r] # "killed"
         /\ at[w][r] # Fate(w, k)[r] => Fate(w, k)[r] \in {"ending", "leaving"}
BY DEF Fate

\* Of all the steps, only Exit and Awake change a rank into one that has ended.
LEMMA EndingSteps ==
  ASSUME ZInv, ZombiesNext, NEW w \in Worlds, NEW r \in RanksOf(w), at'[w][r] # at[w][r]
  PROVE  \/ at'[w][r] \in {"ending", "leaving", "armed", "suspended"}
         \/ Exit(w, r) \/ Awake(w)
<1>1. Worlds = 1 .. Len(at) /\ Len(at) \in Nat /\ at \in Seq(Rows)
  BY LenProperties DEF ZInv, ZombiesTypeOK, Worlds
<1>2. CASE Expand
  <2>1. PICK n \in WorldSizes : at' = Append(at, [s \in 1 .. n |-> "active"])
    BY <1>2 DEF Expand, NewWorld
  <2>2. [s \in 1 .. n |-> "active"] \in Rows
    BY WorldStarts
  <2>3. at'[w] = at[w]
    BY <1>1, <2>1, <2>2, Appended
  <2>. QED
    BY <2>3
<1>3. CASE Shrink
  <2>0. PICK v \in Worlds : \E x \in 1 .. members[v] : Leave(v, x)
    BY <1>3 DEF Shrink
  <2>1. PICK x \in 1 .. members[v] : Leave(v, x)
    BY <2>0
  <2>2. at'[w] = Fate(w, Kept(w, v, x))
    BY <2>1 DEF Leave
  <2>3. members[w] \in Nat /\ members[v] \in Nat
    BY WorldFacts DEF ZInv
  <2>4. Kept(w, v, x) \in Nat
    BY <2>3 DEF Kept
  <2>. QED
    BY <2>2, <2>4, FateUnkilled DEF ZInv
<1>4. CASE Replace
  <2>. DEFINE A == [u \in Worlds |-> Fate(u, 0)]
  <2>1. PICK n \in WorldSizes : at' = Append(A, [s \in 1 .. n |-> "active"])
    BY <1>4 DEF Replace
  <2>2. [s \in 1 .. n |-> "active"] \in Rows /\ A \in Seq(Rows) /\ Len(A) = Len(at)
    BY WorldStarts, AllEnd
  <2>3. A[w] = Fate(w, 0)
    OBVIOUS
  <2>. HIDE DEF A
  <2>4. at'[w] = Fate(w, 0)
    BY <1>1, <2>1, <2>2, <2>3, Appended
  <2>. QED
    BY <2>4, FateUnkilled DEF ZInv
<1>5. CASE Finish
  <2>1. at'[w] = Fate(w, 0)
    BY <1>5 DEF Finish
  <2>. QED
    BY <2>1, FateUnkilled DEF ZInv
<1>6. ASSUME NEW v \in Worlds, Awake(v)
      PROVE  Awake(w)
  BY <1>6, AwakeStep
<1>7. ASSUME NEW v \in Worlds, NEW s \in RanksOf(v), Arm(v, s) \/ Suspend(v, s)
      PROVE  at'[w][r] \in {"armed", "suspended"}
  <2>1. PICK from \in Sleeping, to \in {"armed", "suspended"} : Move(v, s, from, to)
    BY <1>7 DEF Arm, Suspend, Sleeping
  <2>2. /\ \A x \in RanksOf(v) : at'[v][x] = IF x = s THEN to ELSE at[v][x]
        /\ \A u \in Worlds : u # v => at'[u] = at[u]
    <3>1. to \in Places
      BY DEF Places, Sleeping
    <3>. QED
      BY <2>1, <3>1, MovedRank DEF ZInv
  <2>. QED
    BY <2>2
<1>8. ASSUME NEW v \in Worlds, NEW s \in RanksOf(v), Exit(v, s)
      PROVE  Exit(w, r)
  <2>1. Move(v, s, "ending", "gone") /\ "gone" \in Places
    BY <1>8 DEF Exit, Places
  <2>2. /\ \A x \in RanksOf(v) : at'[v][x] = IF x = s THEN "gone" ELSE at[v][x]
        /\ \A u \in Worlds : u # v => at'[u] = at[u]
    BY <2>1, MovedRank DEF ZInv
  <2>3. v = w /\ s = r
    BY <2>2
  <2>. QED
    BY <1>8, <2>3
<1>. QED
  BY <1>2, <1>3, <1>4, <1>5, <1>6, <1>7, <1>8 DEF ZombiesNext, Step

\* One step never kills a rank that is not a zombie.
LEMMA UnkilledStep ==
  ASSUME ZInv, [ZombiesNext]_zombieVars, NEW w \in Whole, NEW r \in RanksOf(w),
         at[w][r] \in {"active", "ending"}
  PROVE  at'[w][r] # "killed"
<1>0. w \in Worlds
  BY DEF Whole
<1>1. CASE Awake(w)
  <2>1. at'[w][r] = IF internode[w] THEN IF at[w][r] = "gone" THEN "gone" ELSE "aborted"
                    ELSE IF Hit(w, r) THEN Signalled(at[w][r])
                    ELSE IF r = 1 THEN "gone" ELSE at[w][r]
    BY <1>0, <1>1, AwakeStep
  <2>2. ~Hit(w, r)
    BY <1>1, AwakeWorld DEF Sleeping
  <2>. QED
    BY <2>1, <2>2
<1>2. CASE Exit(w, r)
  <2>1. at'[w][r] = "gone"
    BY <1>0, <1>2, MovedRank DEF Exit, Places, ZInv
  <2>. QED
    BY <2>1
<1>3. CASE at'[w][r] = at[w][r]
  BY <1>3
<1>4. CASE at'[w][r] \in {"ending", "leaving", "armed", "suspended"}
  BY <1>4
<1>5. at'[w][r] # at[w][r] => ZombiesNext
  BY DEF zombieVars
<1>. QED
  BY <1>0, <1>1, <1>2, <1>3, <1>4, <1>5, EndingSteps

(***************************************************************************)
(* SIGUSR2 never reaches a rank that is not a zombie: neither a rank at    *)
(* work nor one that is ending, rank 0 itself among them, in any world     *)
(* whose table has no gaps.                                                *)
(***************************************************************************)
THEOREM Unkilled ==
  ASSUME \A n \in WorldSizes : n <= Slots
  PROVE  ZombiesSpec => OnlyZombiesSignalled
<1>1. ZInv /\ [ZombiesNext]_zombieVars =>
        [\A w \in Whole : \A r \in RanksOf(w) :
           at[w][r] \in {"active", "ending"} => at'[w][r] # "killed"]_zombieVars
  BY UnkilledStep
<1>. QED
  BY <1>1, WorldsInvariance, PTL DEF ZombiesSpec, OnlyZombiesSignalled

\* When rank 0 ends, the ranks of its world are not suspended.
LEMMA WokenStep ==
  ASSUME ZInv, [ZombiesNext]_zombieVars, NEW w \in Whole,
         at[w][1] # at'[w][1], at'[w][1] \in {"gone", "killed", "aborted"},
         NEW r \in RanksOf(w)
  PROVE  at'[w][r] # "suspended"
<1>1. 1 \in RanksOf(w) /\ members[w] \in Nat /\ qty[w] \in Nat /\ RanksOf(w) = 1 .. Len(at[w])
      /\ w \in Worlds
  BY WorldFacts DEF ZInv, RanksOf, Whole
<1>2. ZombiesNext
  BY DEF zombieVars
<1>3. CASE Awake(w)
  <2>1. at'[w][r] = IF internode[w] THEN IF at[w][r] = "gone" THEN "gone" ELSE "aborted"
                    ELSE IF Hit(w, r) THEN Signalled(at[w][r])
                    ELSE IF r = 1 THEN "gone" ELSE at[w][r]
    BY <1>1, <1>3, AwakeStep
  <2>2. \/ ~Hit(w, r) /\ at[w][r] \in {"ending", "gone"}
        \/ Hit(w, r) /\ at[w][r] \in Sleeping
    BY <1>3, AwakeWorld
  <2>. QED
    BY <2>1, <2>2 DEF Signalled, Sleeping
<1>4. CASE Exit(w, 1)
  <2>1. /\ at[w][1] = "ending" /\ qty[w] = 0
        /\ \A s \in RanksOf(w) : at'[w][s] = IF s = 1 THEN "gone" ELSE at[w][s]
    BY <1>1, <1>4, MovedRank DEF Exit, Places, ZInv
  <2>2. WorldOK(at[w], Len(at[w]), members[w], qty[w], pids[w])
    BY DEF ZInv, WorldsOK
  <2>3. members[w] = 0
    <3>1. members[w] > 0 => at[w][1] = "active"
      BY <1>1, <2>2 DEF WorldOK, Working
    <3>. QED
      BY <1>1, <2>1, <3>1
  <2>4. Going(at[w], Len(at[w]))
    BY <2>1, <2>2, <2>3 DEF WorldOK
  <2>. QED
    BY <1>1, <2>1, <2>4 DEF Going
<1>. QED
  BY <1>1, <1>2, <1>3, <1>4, EndingSteps

(***************************************************************************)
(* Rank 0 of a world is the last to go: the step by which it ends leaves   *)
(* no zombie of the world suspended, whichever reconfiguration made it, in *)
(* any world whose table has no gaps.                                      *)
(***************************************************************************)
THEOREM Woken ==
  ASSUME \A n \in WorldSizes : n <= Slots
  PROVE  ZombiesSpec => SuspendedWoken
<1>1. ZInv /\ [ZombiesNext]_zombieVars =>
        [\A w \in Whole :
           at[w][1] # at'[w][1] /\ at'[w][1] \in {"gone", "killed", "aborted"} =>
             \A r \in RanksOf(w) : at'[w][r] # "suspended"]_zombieVars
  BY WokenStep
<1>. QED
  BY <1>1, WorldsInvariance, PTL DEF ZombiesSpec, SuspendedWoken
=============================================================================
