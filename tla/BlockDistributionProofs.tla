---------------------- MODULE BlockDistributionProofs ----------------------
(* What get_block_dist promises for every array and every group: the blocks *)
(* are consecutive, start at 0, end at qty, and differ by at most one; and  *)
(* what get_util_ids and prepare_comm_alltoall compute from two layouts:    *)
(* the ranks whose blocks meet, the same on both sides, with the same       *)
(* counts and with displacements that point to the same elements.           *)
EXTENDS BlockDistribution, WellFoundedInduction, TLAPS

-----------------------------------------------------------------------------
(* Induction.                                                               *)

(* A nonempty set of naturals has a least element.                          *)
LEMMA Least ==
  ASSUME NEW T \in SUBSET Nat, T # {}
  PROVE  \E x \in T : \A y \in T : x <= y
<1> DEFINE R == {ss \in Nat \X Nat : ss[1] < ss[2]}
<1>1. IsWellFoundedOn(R, Nat)
  BY NatLessThanWellFounded DEF OpToRel
<1>2. PICK x \in T : \A y \in T : ~ (<<y, x>> \in R)
  BY <1>1, WFMin
<1>3. \A y \in T : ~ (y < x)
  BY <1>2
<1> QED BY <1>3

(* Induction over the naturals.                                             *)
LEMMA Induct ==
  ASSUME NEW T \in SUBSET Nat, 0 \in T, \A n \in T : n + 1 \in T
  PROVE  T = Nat
<1> SUFFICES ASSUME T # Nat PROVE FALSE
  OBVIOUS
<1>1. PICK x \in Nat \ T : \A y \in Nat \ T : x <= y
  BY Least
<1>2. x - 1 \in Nat /\ x - 1 \in T
  BY <1>1
<1>3. (x - 1) + 1 \in T
  BY <1>2
<1> QED BY <1>1, <1>3

-----------------------------------------------------------------------------
(* The blocks.                                                              *)

(* The remainder and the quotient the code computes with.                   *)
LEMMA Division ==
  ASSUME NEW q \in Nat, NEW n \in Nat \ {0}
  PROVE  /\ q \div n \in Nat /\ q % n \in 0 .. n - 1
         /\ q = n * (q \div n) + (q % n)
OBVIOUS

(* The first i blocks hold at most as much as the first j >= i blocks.      *)
LEMMA Grows ==
  ASSUME NEW t \in Nat, NEW i \in Nat, NEW j \in Nat, i <= j
  PROVE  i * t <= j * t /\ i * t \in Nat /\ j * t \in Nat
<1>1. j * t = i * t + (j - i) * t
  OBVIOUS
<1>2. (j - i) * t >= 0
  OBVIOUS
<1> QED BY <1>1, <1>2

(* The clamps at qty of get_block_dist never change a bound of a rank of    *)
(* the group.                                                               *)
LEMMA Bounds ==
  ASSUME NEW q \in Nat, NEW n \in Nat \ {0}, NEW i \in 0 .. n - 1
  PROVE  LET t == q \div n
             r == q % n
         IN /\ Block(q, i, n).ini = i * t + Smaller(i, r)
            /\ Block(q, i, n).fin = (i + 1) * t + Smaller(i + 1, r)
            /\ Block(q, i, n).tamBl = t + (IF i < r THEN 1 ELSE 0)
<1> DEFINE t == q \div n
           r == q % n
<1>1. t \in Nat /\ r \in 0 .. n - 1 /\ q = n * t + r
  BY Division
<1> HIDE DEF t, r
<1>2. (i + 1) * t <= n * t /\ (i + 1) * t \in Nat /\ n * t \in Nat
  BY <1>1, Grows
<1>3. (i + 1) * t = i * t + t /\ i * t \in Nat
  BY <1>1, Grows
<1> DEFINE a == i * t
           b == (i + 1) * t
           c == n * t
<1>4. /\ a \in Nat /\ b \in Nat /\ c \in Nat /\ b = a + t /\ b <= c /\ q = c + r
  BY <1>1, <1>2, <1>3
<1> HIDE DEF a, b, c
<1>5. b + Smaller(i + 1, r) <= q
  BY <1>1, <1>4 DEF Smaller
<1>6. a + Smaller(i, r) <= b + Smaller(i + 1, r)
  BY <1>1, <1>4 DEF Smaller
<1>7. Smaller(b + Smaller(i + 1, r), q) = b + Smaller(i + 1, r)
  BY <1>1, <1>4, <1>5 DEF Smaller
<1>8. Smaller(a + Smaller(i, r), b + Smaller(i + 1, r)) = a + Smaller(i, r)
  BY <1>1, <1>4, <1>6 DEF Smaller
<1> DEFINE fin == Smaller(b + Smaller(i + 1, r), q)
           ini == Smaller(a + Smaller(i, r), fin)
<1>9. /\ fin = b + Smaller(i + 1, r) /\ ini = a + Smaller(i, r)
      /\ Block(q, i, n).ini = ini /\ Block(q, i, n).fin = fin
      /\ Block(q, i, n).tamBl = fin - ini
  <2>1. Block(q, i, n) = [ini |-> ini, fin |-> fin, tamBl |-> fin - ini]
    BY Zenon DEF Block, a, b, t, r
  <2>2. fin = b + Smaller(i + 1, r) /\ ini = a + Smaller(i, r)
    BY <1>7, <1>8, Zenon
  <2> HIDE DEF fin, ini
  <2> QED BY <2>1, <2>2
<1> HIDE DEF fin, ini
<1>10. b + Smaller(i + 1, r) - (a + Smaller(i, r)) = t + (IF i < r THEN 1 ELSE 0)
  BY <1>1, <1>4 DEF Smaller
<1>11. /\ Block(q, i, n).ini = a + Smaller(i, r)
       /\ Block(q, i, n).fin = b + Smaller(i + 1, r)
       /\ Block(q, i, n).tamBl = t + (IF i < r THEN 1 ELSE 0)
  <2>1. Smaller(i, r) \in Nat /\ Smaller(i + 1, r) \in Nat
    BY <1>1 DEF Smaller
  <2>2. fin \in Int /\ ini \in Int
    BY <1>4, <1>9, <2>1
  <2>3. Block(q, i, n).tamBl = t + (IF i < r THEN 1 ELSE 0)
    BY <1>4, <1>9, <1>10, <2>1, <2>2
  <2> QED BY <1>9, <2>3, Zenon
<1> QED BY <1>11, Zenon DEF a, b, t, r

(* get_block_dist cuts the array into consecutive blocks: rank 0 starts at  *)
(* element 0, the last rank ends at qty, and each rank starts where the     *)
(* previous one ended, so that every element has exactly one owner.         *)
THEOREM Consecutive ==
  ASSUME NEW q \in Nat, NEW n \in Nat \ {0}
  PROVE  /\ Block(q, 0, n).ini = 0
         /\ Block(q, n - 1, n).fin = q
         /\ \A i \in 0 .. n - 2 : Block(q, i, n).fin = Block(q, i + 1, n).ini
<1> DEFINE t == q \div n
           r == q % n
<1>1. t \in Nat /\ r \in 0 .. n - 1 /\ q = n * t + r
  BY Division
<1>2. Block(q, 0, n).ini = 0
  <2>1. Block(q, 0, n).ini = 0 * t + Smaller(0, r)
    BY Bounds
  <2> QED BY <1>1, <2>1 DEF Smaller
<1>3. Block(q, n - 1, n).fin = q
  <2>1. Block(q, n - 1, n).fin = (n - 1 + 1) * t + Smaller(n - 1 + 1, r)
    BY Bounds, n - 1 \in 0 .. n - 1
  <2>2. n - 1 + 1 = n
    OBVIOUS
  <2>3. Smaller(n, r) = r
    BY <1>1 DEF Smaller
  <2> QED BY <1>1, <2>1, <2>2, <2>3
<1>4. ASSUME NEW i \in 0 .. n - 2
      PROVE  Block(q, i, n).fin = Block(q, i + 1, n).ini
  <2>1. Block(q, i, n).fin = (i + 1) * t + Smaller(i + 1, r)
    BY Bounds, i \in 0 .. n - 1
  <2>2. Block(q, i + 1, n).ini = (i + 1) * t + Smaller(i + 1, r)
    BY Bounds, i + 1 \in 0 .. n - 1
  <2> QED BY <2>1, <2>2
<1> QED BY <1>2, <1>3, <1>4

(* No two blocks of a layout differ by more than one element.               *)
THEOREM Balanced ==
  ASSUME NEW q \in Nat, NEW n \in Nat \ {0}, NEW i \in 0 .. n - 1, NEW j \in 0 .. n - 1
  PROVE  Block(q, i, n).tamBl <= Block(q, j, n).tamBl + 1
<1>1. q \div n \in Nat
  BY Division
<1>2. /\ Block(q, i, n).tamBl = (q \div n) + (IF i < q % n THEN 1 ELSE 0)
      /\ Block(q, j, n).tamBl = (q \div n) + (IF j < q % n THEN 1 ELSE 0)
  BY Bounds, Zenon
<1> QED BY <1>1, <1>2

(* Both sides of a pair compute the same count (set_interblock_counts run   *)
(* by the source on the target's block and the other way round).            *)
THEOREM OverlapSymmetric ==
  ASSUME NEW q \in Nat, NEW n \in Nat \ {0}, NEW m \in Nat \ {0},
         NEW i \in 0 .. n - 1, NEW j \in 0 .. m - 1
  PROVE  Overlap(Block(q, i, n), Block(q, j, m)) = Overlap(Block(q, j, m), Block(q, i, n))
<1> DEFINE a == Block(q, i, n)
           b == Block(q, j, m)
<1>1. a.ini \in Nat /\ a.fin \in Nat /\ b.ini \in Nat /\ b.fin \in Nat
  <2>1. q \div n \in Nat /\ q \div m \in Nat /\ q % n \in Nat /\ q % m \in Nat
    BY Division
  <2>2. i * (q \div n) \in Nat /\ (i + 1) * (q \div n) \in Nat
    BY <2>1, Grows
  <2>3. j * (q \div m) \in Nat /\ (j + 1) * (q \div m) \in Nat
    BY <2>1, Grows
  <2>4. /\ a.ini = i * (q \div n) + Smaller(i, q % n)
        /\ a.fin = (i + 1) * (q \div n) + Smaller(i + 1, q % n)
        /\ b.ini = j * (q \div m) + Smaller(j, q % m)
        /\ b.fin = (j + 1) * (q \div m) + Smaller(j + 1, q % m)
    BY Bounds, Zenon
  <2>5. /\ Smaller(i, q % n) \in Nat /\ Smaller(i + 1, q % n) \in Nat
        /\ Smaller(j, q % m) \in Nat /\ Smaller(j + 1, q % m) \in Nat
    BY <2>1 DEF Smaller
  <2>6. \A x, y \in Nat : x + y \in Nat
    OBVIOUS
  <2> QED BY <2>2, <2>3, <2>4, <2>5, <2>6, Zenon
<1> HIDE DEF a, b
<1>2. Overlap(a, b) = Overlap(b, a)
  BY <1>1 DEF Overlap, Smaller, Bigger
<1> QED BY <1>2 DEF a, b

------------------------------------------------------------------------------
(* The ranks of the other group that a block meets.                         *)

(* Multiplying by a positive number keeps the order, and the other way.     *)
LEMMA LessTimes ==
  ASSUME NEW u \in Nat, NEW i \in Nat, NEW j \in Nat, i * u < j * u
  PROVE  i < j
<1>1. j <= i => j * u <= i * u
  BY Grows
<1>2. i * u \in Nat /\ j * u \in Nat
  BY Grows
<1> QED BY <1>1, <1>2

(* The quotient a \div u, as the multiples of u that fit into a.            *)
LEMMA Quotient ==
  ASSUME NEW a \in Nat, NEW u \in Nat \ {0}
  PROVE  /\ a \div u \in Nat /\ a % u \in 0 .. u - 1
         /\ (a \div u) * u <= a /\ a < (a \div u + 1) * u
         /\ a = (a \div u) * u + (a % u)
         /\ (a \div u + 1) * u = (a \div u) * u + u
<1> DEFINE d == a \div u
<1>1. d \in Nat /\ a % u \in 0 .. u - 1 /\ a = u * d + (a % u)
  BY Division
<1> HIDE DEF d
<1>2. u * d = d * u /\ (d + 1) * u = d * u + u /\ d * u \in Nat
  BY <1>1
<1>3. d * u <= a /\ a < (d + 1) * u
  BY <1>1, <1>2
<1> QED BY <1>1, <1>2, <1>3 DEF d

(* The blocks of the first q % n ranks are one element longer.              *)
LEMMA LongBlock ==
  ASSUME NEW q \in Nat, NEW n \in Nat \ {0}, NEW j \in 0 .. (q % n) - 1
  PROVE  /\ j \in 0 .. n - 1
         /\ Block(q, j, n).ini = j * (q \div n + 1)
         /\ Block(q, j, n).fin = (j + 1) * (q \div n + 1)
<1> DEFINE t == q \div n
           r == q % n
<1>1. t \in Nat /\ r \in 0 .. n - 1
  BY Division
<1>2. j \in 0 .. n - 1 /\ j \in 0 .. r - 1
  BY <1>1
<1>3. /\ Block(q, j, n).ini = j * t + Smaller(j, r)
      /\ Block(q, j, n).fin = (j + 1) * t + Smaller(j + 1, r)
  BY <1>2, Bounds, Zenon
<1> HIDE DEF t, r
<1>4. Smaller(j, r) = j /\ Smaller(j + 1, r) = j + 1
  BY <1>1, <1>2 DEF Smaller
<1>5. j * t + j = j * (t + 1) /\ (j + 1) * t + (j + 1) = (j + 1) * (t + 1)
  BY <1>1, <1>2
<1> QED BY <1>2, <1>3, <1>4, <1>5 DEF t

(* The others start where the longer ones end.                              *)
LEMMA ShortBlock ==
  ASSUME NEW q \in Nat, NEW n \in Nat \ {0}, NEW j \in q % n .. n - 1
  PROVE  /\ j \in 0 .. n - 1 /\ j - (q % n) \in Nat
         /\ Block(q, j, n).ini = Middle(q, n) + (j - (q % n)) * (q \div n)
         /\ Block(q, j, n).fin = Middle(q, n) + (j - (q % n) + 1) * (q \div n)
<1> DEFINE t == q \div n
           r == q % n
           d == j - r
<1>1. t \in Nat /\ r \in 0 .. n - 1
  BY Division
<1>2. j \in 0 .. n - 1 /\ j \in r .. n - 1 /\ d \in Nat
  BY <1>1
<1>3. /\ Block(q, j, n).ini = j * t + Smaller(j, r)
      /\ Block(q, j, n).fin = (j + 1) * t + Smaller(j + 1, r)
  BY <1>2, Bounds, Zenon
<1>a. Middle(q, n) = (t + 1) * r
  BY DEF Middle
<1> HIDE DEF t, r
<1>4. Smaller(j, r) = r /\ Smaller(j + 1, r) = r
  BY <1>1, <1>2 DEF Smaller
<1>5. j * t + r = (t + 1) * r + d * t /\ (j + 1) * t + r = (t + 1) * r + (d + 1) * t
  BY <1>1, <1>2
<1> QED BY <1>2, <1>3, <1>4, <1>5, <1>a DEF t, r

(* What the layout adds up to.                                              *)
LEMMA Total ==
  ASSUME NEW q \in Nat, NEW n \in Nat \ {0}
  PROVE  /\ Middle(q, n) \in Nat /\ Middle(q, n) = (q % n) * (q \div n + 1)
         /\ n - (q % n) \in Nat
         /\ (n - (q % n)) * (q \div n) \in Nat
         /\ q = Middle(q, n) + (n - (q % n)) * (q \div n)
<1> DEFINE t == q \div n
           r == q % n
<1>1. t \in Nat /\ r \in 0 .. n - 1 /\ q = n * t + r
  BY Division
<1>a. Middle(q, n) = (t + 1) * r
  BY DEF Middle
<1> HIDE DEF t, r
<1>2. (t + 1) * r = r * (t + 1) /\ n * t + r = (t + 1) * r + (n - r) * t /\ (t + 1) * r \in Nat
      /\ n - r \in Nat /\ (n - r) * t \in Nat
  <2>1. n - r \in Nat
    BY <1>1
  <2>2. (n - r) * t \in Nat
    BY <1>1, <2>1, Grows
  <2>3. r * (t + 1) \in Nat
    BY <1>1, Grows
  <2>4. (t + 1) * r = r * (t + 1) /\ n * t + r = (t + 1) * r + (n - r) * t
    BY <1>1
  <2> QED BY <2>1, <2>2, <2>3, <2>4
<1> QED BY <1>1, <1>2, <1>a DEF t, r

(* FirstPeer finds the rank whose block holds the first element of a block. *)
LEMMA FirstOwner ==
  ASSUME NEW q \in Nat, NEW m \in Nat \ {0}, NEW b, b.ini \in Nat, b.ini < q
  PROVE  LET j == FirstPeer(q, b, m)
         IN  /\ j \in 0 .. m - 1
             /\ Block(q, j, m).ini <= b.ini /\ b.ini < Block(q, j, m).fin
<1> DEFINE t == q \div m
           r == q % m
           M == Middle(q, m)
           x == b.ini
<1>1. /\ t \in Nat /\ r \in 0 .. m - 1 /\ M \in Nat /\ M = r * (t + 1) /\ m - r \in Nat
      /\ (m - r) * t \in Nat /\ q = M + (m - r) * t
  BY Division, Total
<1>2. CASE M > x
  <2> DEFINE j == x \div (t + 1)
  <2>1. FirstPeer(q, b, m) = j
    BY <1>2 DEF FirstPeer
  <2>2. j \in Nat /\ j * (t + 1) <= x /\ x < (j + 1) * (t + 1)
    <3>1. x \in Nat /\ t + 1 \in Nat \ {0}
      BY <1>1
    <3> HIDE DEF x, t
    <3> QED BY <3>1, Quotient
  <2>3. j * (t + 1) < r * (t + 1)
    <3>1. j * (t + 1) \in Nat
      BY <1>1, <2>2, Grows
    <3> HIDE DEF j, M
    <3> QED BY <1>1, <1>2, <2>2, <3>1
  <2>4. j < r
    BY <1>1, <2>2, <2>3, LessTimes
  <2>5. j \in 0 .. r - 1
    BY <1>1, <2>2, <2>4
  <2>6. /\ j \in 0 .. m - 1
        /\ Block(q, j, m).ini = j * (t + 1) /\ Block(q, j, m).fin = (j + 1) * (t + 1)
    BY <2>5, LongBlock
  <2> QED BY <2>1, <2>2, <2>6
<1>3. CASE ~(M > x)
  <2> DEFINE y == x - M
             d == y \div t
  <2>1. FirstPeer(q, b, m) = d + r
    BY <1>3 DEF FirstPeer
  <2>2. y \in Nat /\ y < (m - r) * t
    BY <1>1, <1>3
  <2>3. t \in Nat \ {0}
    <3>1. t = 0 => (m - r) * t = 0
      BY <1>1
    <3> QED BY <1>1, <2>2, <3>1
  <2>4. d \in Nat /\ d * t <= y /\ y < (d + 1) * t
    BY <2>2, <2>3, Quotient
  <2>5. d < m - r
    <3>1. d * t < (m - r) * t
      <4>1. d * t \in Nat
        BY <1>1, <2>4, Grows
      <4> HIDE DEF d, y
      <4> QED BY <1>1, <2>2, <2>4, <4>1
    <3> QED BY <1>1, <2>4, <3>1, LessTimes
  <2>6. d + r \in r .. m - 1 /\ (d + r) - r = d
    BY <1>1, <2>4, <2>5
  <2>7. /\ d + r \in 0 .. m - 1
        /\ Block(q, d + r, m).ini = M + d * t /\ Block(q, d + r, m).fin = M + (d + 1) * t
    BY <2>6, ShortBlock
  <2>8. M + d * t <= x /\ x < M + (d + 1) * t
    <3>1. d * t \in Nat /\ (d + 1) * t \in Nat
      BY <1>1, <2>4, Grows
    <3>2. y = x - M
      OBVIOUS
    <3> HIDE DEF d, y, M
    <3> QED BY <1>1, <2>2, <2>4, <3>1, <3>2
  <2> QED BY <2>1, <2>7, <2>8
<1> QED BY <1>2, <1>3

(* The number of unit blocks it takes to reach y, as get_util_ids rounds.   *)
LEMMA Ceiling ==
  ASSUME NEW y \in Nat \ {0}, NEW u \in Nat \ {0}, NEW k \in Nat, y <= k * u
  PROVE  LET d == y \div u
             c == IF y % u > 0 THEN d + 1 ELSE d
         IN  /\ d \in Nat /\ y % u \in Nat /\ (y % u > 0 => d + 1 <= k)
             /\ c \in 1 .. k /\ (c - 1) * u < y /\ y <= c * u
<1> DEFINE d == y \div u
           s == y % u
<1>1. d \in Nat /\ s \in 0 .. u - 1 /\ d * u <= y /\ y < (d + 1) * u /\ y = d * u + s
  BY Quotient
<1> HIDE DEF d, s
<1>2. d * u \in Nat /\ (d + 1) * u = d * u + u /\ (d - 1) * u = d * u - u /\ k * u \in Nat
  BY <1>1, Grows
<1>3. CASE s > 0
  <2>1. d * u < k * u
    BY <1>1, <1>2, <1>3
  <2>2. d < k
    BY <1>1, <2>1, LessTimes
  <2>3. (d + 1) - 1 = d
    BY <1>1
  <2>4. d * u < y
    BY <1>1, <1>2, <1>3
  <2> QED BY <1>1, <1>3, <2>2, <2>3, <2>4 DEF d, s
<1>4. CASE ~(s > 0)
  <2>1. y = d * u
    BY <1>1, <1>2, <1>4
  <2>2. d # 0
    BY <1>1, <2>1
  <2>3. d <= k
    <3>1. CASE k < d
      <4>1. d = k + (d - k) /\ d - k \in Nat \ {0} /\ k + 1 <= d
        BY <1>1, <3>1
      <4>2. (k + 1) * u <= d * u /\ (k + 1) * u = k * u + u
        BY <1>1, <4>1, Grows
      <4> QED BY <1>2, <2>1, <4>2
    <3> QED BY <1>1, <3>1
  <2>4. (d - 1) * u < y
    BY <1>2, <2>1
  <2> QED BY <1>1, <1>4, <2>1, <2>2, <2>3, <2>4 DEF d, s
<1> QED BY <1>1, <1>3, <1>4

(* EndPeer finds the rank whose block holds the last element of a block.    *)
LEMMA EndOwner ==
  ASSUME NEW q \in Nat, NEW m \in Nat \ {0}, NEW b, b.fin \in Nat \ {0}, b.fin <= q
  PROVE  LET E == EndPeer(q, b, m)
         IN  /\ E \in 1 .. m
             /\ Block(q, E - 1, m).ini < b.fin /\ b.fin <= Block(q, E - 1, m).fin
<1> DEFINE t == q \div m
           r == q % m
           M == Middle(q, m)
           y == b.fin
<1>1. /\ t \in Nat /\ r \in 0 .. m - 1 /\ M \in Nat /\ M = r * (t + 1) /\ m - r \in Nat
      /\ (m - r) * t \in Nat /\ q = M + (m - r) * t /\ y \in Nat \ {0} /\ y <= q
  BY Division, Total
<1>2. CASE M >= y
  <2> DEFINE u == t + 1
             d == y \div u
             c == IF y % u > 0 THEN d + 1 ELSE d
  <2>1. EndPeer(q, b, m) = IF y % u > 0 /\ (d + 0) + 1 <= m THEN (d + 0) + 1 ELSE d + 0
    BY <1>2, Zenon DEF EndPeer
  <2>2. y \in Nat \ {0} /\ u \in Nat \ {0} /\ r \in Nat /\ y <= r * u
    BY <1>1, <1>2
  <2>3. /\ d \in Nat /\ (y % u > 0 => d + 1 <= r)
        /\ c \in 1 .. r /\ (c - 1) * u < y /\ y <= c * u
    <3> HIDE DEF y, u, r
    <3> QED BY <2>2, Ceiling
  <2> HIDE DEF d
  <2>4. EndPeer(q, b, m) = c
    BY <1>1, <2>1, <2>3
  <2> HIDE DEF c
  <2>5. c - 1 \in 0 .. r - 1 /\ (c - 1) + 1 = c /\ c \in 1 .. m
    BY <1>1, <2>3
  <2>6. Block(q, c - 1, m).ini = (c - 1) * u /\ Block(q, c - 1, m).fin = ((c - 1) + 1) * u
    BY <2>5, LongBlock
  <2> QED BY <2>3, <2>4, <2>5, <2>6
<1>3. CASE ~(M >= y)
  <2> DEFINE z == y - M
             d == z \div t
             c == IF z % t > 0 THEN d + 1 ELSE d
  <2>1. EndPeer(q, b, m) = IF z % t > 0 /\ (d + r) + 1 <= m THEN (d + r) + 1 ELSE d + r
    BY <1>3, Zenon DEF EndPeer
  <2>2. z \in Nat \ {0} /\ m - r \in Nat /\ z <= (m - r) * t
    BY <1>1, <1>3
  <2>3. t \in Nat \ {0}
    <3>1. t = 0 => (m - r) * t = 0
      BY <1>1
    <3> QED BY <1>1, <2>2, <3>1
  <2>4. /\ d \in Nat /\ (z % t > 0 => d + 1 <= m - r)
        /\ c \in 1 .. (m - r) /\ (c - 1) * t < z /\ z <= c * t
    <3> DEFINE k == m - r
    <3> HIDE DEF z, t, k
    <3>1. k \in Nat /\ z <= k * t
      BY <2>2 DEF k
    <3>2. /\ d \in Nat /\ (z % t > 0 => d + 1 <= k)
          /\ c \in 1 .. k /\ (c - 1) * t < z /\ z <= c * t
      BY <2>2, <2>3, <3>1, Ceiling
    <3> QED BY <3>2 DEF k
  <2> HIDE DEF d
  <2>5. EndPeer(q, b, m) = c + r
    BY <1>1, <2>1, <2>4
  <2> HIDE DEF c
  <2>6. /\ (c + r) - 1 \in r .. m - 1 /\ ((c + r) - 1) - r = c - 1
        /\ (c - 1) + 1 = c /\ c + r \in 1 .. m /\ c \in Nat
    BY <1>1, <2>4
  <2>7. /\ Block(q, (c + r) - 1, m).ini = M + (((c + r) - 1) - r) * t
        /\ Block(q, (c + r) - 1, m).fin = M + (((c + r) - 1) - r + 1) * t
    BY <2>6, ShortBlock
  <2>8. /\ Block(q, (c + r) - 1, m).ini = M + (c - 1) * t
        /\ Block(q, (c + r) - 1, m).fin = M + c * t
    BY <2>6, <2>7
  <2>9. M + (c - 1) * t < y /\ y <= M + c * t
    <3>1. c * t \in Nat /\ (c - 1) * t \in Nat
      BY <1>1, <2>4, Grows
    <3>2. y = M + z
      BY <1>1
    <3> HIDE DEF z, y, M
    <3> QED BY <1>1, <2>2, <2>4, <3>1, <3>2
  <2> QED BY <2>5, <2>6, <2>8, <2>9
<1> QED BY <1>2, <1>3

(* displs is the only function that starts at 0 and grows by the counts.    *)
LEMMA DisplacementsAre ==
  ASSUME NEW lo \in Int, NEW hi \in Int, NEW counts, NEW w,
         w = [i \in lo .. hi |-> IF i = lo THEN 0 ELSE w[i - 1] + counts[i - 1]]
  PROVE  Displacements(lo, lo .. hi, counts) = w
<1> DEFINE G(g) == g = [i \in lo .. hi |-> IF i = lo THEN 0 ELSE g[i - 1] + counts[i - 1]]
           D == Displacements(lo, lo .. hi, counts)
<1>1. D = CHOOSE g : G(g)
  BY DEF Displacements
<1>2. G(w)
  OBVIOUS
<1>3. G(D)
  BY <1>1, <1>2, Zenon
<1> HIDE DEF D
<1> DEFINE T == {n \in Nat : lo + n <= hi => D[lo + n] = w[lo + n]}
<1>4. 0 \in T
  <2>1. lo <= hi => D[lo] = 0 /\ w[lo] = 0
    BY <1>2, <1>3
  <2> QED BY <2>1
<1>5. ASSUME NEW n \in T PROVE n + 1 \in T
  <2>1. SUFFICES ASSUME lo + (n + 1) <= hi PROVE D[lo + (n + 1)] = w[lo + (n + 1)]
    OBVIOUS
  <2>2. D[lo + n] = w[lo + n]
    BY <2>1
  <2> DEFINE k == lo + (n + 1)
  <2>3. k \in lo .. hi /\ k # lo /\ k - 1 = lo + n
    BY <2>1
  <2> HIDE DEF k
  <2>4. D[k] = D[k - 1] + counts[k - 1] /\ w[k] = w[k - 1] + counts[k - 1]
    BY <1>2, <1>3, <2>3
  <2> QED BY <2>2, <2>3, <2>4 DEF k
<1>6. T = Nat
  <2> HIDE DEF T
  <2>1. T \in SUBSET Nat
    BY DEF T
  <2> QED BY <1>4, <1>5, <2>1, Induct
<1>7. \A i \in lo .. hi : D[i] = w[i]
  <2>1. ASSUME NEW i \in lo .. hi PROVE D[i] = w[i]
    <3>1. i - lo \in Nat /\ lo + (i - lo) = i /\ i <= hi
      OBVIOUS
    <3>2. i - lo \in T
      <4> HIDE DEF T
      <4> QED BY <1>6, <3>1
    <3> QED BY <3>1, <3>2
  <2> QED BY <2>1
<1> QED BY <1>2, <1>3, <1>7 DEF D

(* Where the block of a rank lies.                                          *)
LEMMA Within ==
  ASSUME NEW q \in Nat, NEW n \in Nat \ {0}, NEW i \in 0 .. n - 1
  PROVE  LET b == Block(q, i, n)
         IN  /\ b.ini \in Nat /\ b.fin \in Nat /\ b.tamBl \in Nat
             /\ b.ini <= b.fin /\ b.fin <= q /\ b.fin = b.ini + b.tamBl
             /\ b.ini = b.fin => b.ini = q /\ q \div n = 0
<1> DEFINE t == q \div n
           r == q % n
           b == Block(q, i, n)
           x == i * t
           y == (i + 1) * t
           z == n * t
<1>1. t \in Nat /\ r \in 0 .. n - 1 /\ q = z + r
  BY Division
<1>2. b.ini = x + Smaller(i, r) /\ b.fin = y + Smaller(i + 1, r)
      /\ b.tamBl = t + (IF i < r THEN 1 ELSE 0)
  BY Bounds, Zenon
<1> HIDE DEF t, r, b
<1>3. x \in Nat /\ y \in Nat /\ z \in Nat /\ y <= z /\ y = x + t
  BY <1>1, Grows
<1>4. t = 0 => z = 0
  BY <1>1
<1> HIDE DEF x, y, z
<1>5. /\ b.ini \in Nat /\ b.fin \in Nat /\ b.tamBl \in Nat
      /\ b.ini <= b.fin /\ b.fin <= q /\ b.fin = b.ini + b.tamBl
  BY <1>1, <1>2, <1>3 DEF Smaller
<1>6. ASSUME b.ini = b.fin PROVE b.ini = q /\ t = 0
  <2>1. t = 0 /\ ~(i < r)
    BY <1>1, <1>2, <1>5, <1>6
  <2>2. y = 0 /\ x = 0 /\ z = 0
    BY <1>1, <1>3, <1>4, <2>1
  <2>3. Smaller(i, r) = r
    BY <1>1, <2>1 DEF Smaller
  <2> QED BY <1>1, <1>2, <2>1, <2>2, <2>3
<1> QED BY <1>5, <1>6 DEF b, t

(* The blocks come in the order of the ranks.                               *)
LEMMA Ordered ==
  ASSUME NEW q \in Nat, NEW n \in Nat \ {0},
         NEW i \in 0 .. n - 1, NEW j \in 0 .. n - 1, i < j
  PROVE  Block(q, i, n).fin <= Block(q, j, n).ini
<1> DEFINE t == q \div n
           r == q % n
           x == (i + 1) * t
           y == j * t
<1>1. t \in Nat /\ r \in 0 .. n - 1
  BY Division
<1>2. Block(q, i, n).fin = x + Smaller(i + 1, r) /\ Block(q, j, n).ini = y + Smaller(j, r)
  BY Bounds, Zenon
<1> HIDE DEF t, r
<1>3. x \in Nat /\ y \in Nat /\ x <= y
  BY <1>1, Grows
<1> HIDE DEF x, y
<1>4. x + Smaller(i + 1, r) <= y + Smaller(j, r)
  BY <1>1, <1>3 DEF Smaller
<1> QED BY <1>2, <1>4

(* A block that holds an element meets exactly the ranks that get_util_ids  *)
(* gives, and their blocks have elements.                                   *)
LEMMA PeersAre ==
  ASSUME NEW q \in Nat, NEW n \in Nat \ {0}, NEW m \in Nat \ {0}, NEW i \in 0 .. n - 1,
         Block(q, i, n).ini < Block(q, i, n).fin
  PROVE  LET b == Block(q, i, n)
             F == FirstPeer(q, b, m)
             E == EndPeer(q, b, m)
         IN  /\ F \in 0 .. m - 1 /\ E \in 1 .. m /\ F < E
             /\ \A j \in 0 .. m - 1 : j \in F .. E - 1 <=>
                  b.ini < Block(q, j, m).fin /\ Block(q, j, m).ini < b.fin
             /\ Block(q, F, m).ini <= b.ini
<1> DEFINE b == Block(q, i, n)
           F == FirstPeer(q, b, m)
           E == EndPeer(q, b, m)
           c(j) == Block(q, j, m)
<1>1. b.ini \in Nat /\ b.fin \in Nat \ {0} /\ b.ini < b.fin /\ b.fin <= q /\ b.ini < q
  <2>1. b.ini \in Nat /\ b.fin \in Nat /\ b.fin <= q /\ b.ini < b.fin
    BY Within
  <2> HIDE DEF b
  <2> QED BY <2>1
<1> HIDE DEF b
<1>2. F \in 0 .. m - 1 /\ c(F).ini <= b.ini /\ b.ini < c(F).fin
  BY <1>1, FirstOwner
<1>3. E \in 1 .. m /\ c(E - 1).ini < b.fin /\ b.fin <= c(E - 1).fin
  BY <1>1, EndOwner
<1> HIDE DEF F, E
<1>4. \A j \in 0 .. m - 1 : /\ c(j).ini \in Nat /\ c(j).fin \in Nat /\ c(j).ini <= c(j).fin
                             /\ (c(j).ini = c(j).fin => c(j).ini = q)
  BY Within
<1>5. \A j, k \in 0 .. m - 1 : j < k => c(j).fin <= c(k).ini
  BY Ordered
<1> HIDE DEF c
<1>6. E - 1 \in 0 .. m - 1
  BY <1>3
<1>7. F <= E - 1
  <2>1. SUFFICES ASSUME E - 1 < F PROVE FALSE
    BY <1>2, <1>3
  <2>2. c(E - 1).fin <= c(F).ini
    BY <1>2, <1>5, <1>6, <2>1
  <2> QED BY <1>1, <1>2, <1>3, <1>4, <1>6, <2>2
<1>8. ASSUME NEW j \in 0 .. m - 1
      PROVE  j \in F .. E - 1 <=> b.ini < c(j).fin /\ c(j).ini < b.fin
  <2>0. c(j).ini \in Nat /\ c(j).fin \in Nat
    BY <1>4
  <2>a. /\ c(F).ini \in Nat /\ c(F).fin \in Nat
        /\ c(E - 1).ini \in Nat /\ c(E - 1).fin \in Nat
    BY <1>2, <1>4, <1>6
  <2>1. CASE j < F
    <3>1. c(j).fin <= c(F).ini
      BY <1>2, <1>5, <2>1
    <3> QED BY <1>1, <1>2, <2>1, <2>0, <2>a, <3>1
  <2>2. CASE j > E - 1
    <3>1. c(E - 1).fin <= c(j).ini
      BY <1>5, <1>6, <2>2
    <3> QED BY <1>1, <1>3, <2>2, <2>0, <2>a, <3>1
  <2>3. CASE F <= j /\ j <= E - 1
    <3>1. c(F).fin <= c(j).fin
      <4>1. CASE F = j
        BY <2>0, <4>1
      <4>2. CASE F < j
        BY <1>2, <1>4, <1>5, <4>2, <2>0, <2>a
      <4> QED BY <1>2, <2>3, <4>1, <4>2
    <3>2. c(j).ini <= c(E - 1).ini
      <4>1. CASE j = E - 1
        BY <2>0, <4>1
      <4>2. CASE j < E - 1
        BY <1>4, <1>5, <1>6, <4>2, <2>0, <2>a
      <4> QED BY <1>6, <2>3, <4>1, <4>2
    <3>3. j \in F .. E - 1
      BY <1>2, <1>3, <2>3
    <3> QED BY <1>1, <1>2, <1>3, <2>0, <2>a, <3>1, <3>2, <3>3
  <2> QED BY <1>2, <1>3, <2>1, <2>2, <2>3
<1> QED BY <1>2, <1>3, <1>7, <1>8 DEF b, F, E, c

(* An empty block meets no rank, unless get_util_ids divides by zero.       *)
LEMMA NoPeers ==
  ASSUME NEW q \in Nat, NEW n \in Nat \ {0}, NEW m \in Nat \ {0}, NEW i \in 0 .. n - 1,
         Block(q, i, n).ini = Block(q, i, n).fin,
         ~DividesByZero(q, Block(q, i, n), m)
  PROVE  /\ FirstPeer(q, Block(q, i, n), m) = m
         /\ EndPeer(q, Block(q, i, n), m) = m
<1> DEFINE b == Block(q, i, n)
           t == q \div m
           r == q % m
           M == Middle(q, m)
           z == q - M
           k == m - r
<1>1. /\ t \in Nat /\ r \in 0 .. m - 1 /\ M \in Nat /\ M = r * (t + 1) /\ k \in Nat \ {0}
      /\ k * t \in Nat /\ q = M + k * t
  <2>1. t \in Nat /\ r \in 0 .. m - 1
    BY Division
  <2>2. M \in Nat /\ M = r * (t + 1) /\ k * t \in Nat /\ q = M + k * t
    BY Total, Zenon
  <2> HIDE DEF t, r, M
  <2>3. k \in Nat \ {0}
    BY <2>1
  <2> QED BY <2>1, <2>2, <2>3
<1>2. b.ini = q /\ b.fin = q
  BY Within
<1>3. t \in Nat \ {0}
  BY <1>1, <1>2 DEF DividesByZero
<1>4. z = k * t
  BY <1>1
<1>5. z \in Nat \ {0}
  <2>1. k * t >= t
    <3>1. 1 * t <= k * t
      <4> HIDE DEF k, t
      <4> QED BY <1>1, Grows
    <3> QED BY <1>1, <3>1
  <2> HIDE DEF k, t, z
  <2> QED BY <1>1, <1>3, <1>4, <2>1
<1>6. z \div t = k /\ z % t = 0
  <2> HIDE DEF z, t, k
  <2>1. z = t * (z \div t) + (z % t) /\ z \div t \in Nat /\ z % t \in 0 .. t - 1
    BY <1>3, <1>5, Division
  <2> DEFINE d == z \div t
             s == z % t
  <2>2. d * t + s = k * t /\ d \in Nat /\ s \in 0 .. t - 1
    BY <1>1, <1>3, <1>4, <2>1
  <2> HIDE DEF d, s
  <2>3. d * t \in Nat /\ (d + 1) * t = d * t + t /\ k * t \in Nat
    BY <1>1, <2>2, Grows
  <2>4. k < d + 1
    <3>1. k * t < (d + 1) * t
      BY <1>1, <1>3, <2>2, <2>3
    <3> QED BY <1>1, <2>2, <3>1, LessTimes
  <2>5. d <= k
    <3>1. SUFFICES ASSUME k + 1 <= d PROVE FALSE
      BY <1>1, <2>2
    <3>2. (k + 1) * t <= d * t /\ (k + 1) * t = k * t + t
      BY <1>1, <2>2, <3>1, Grows
    <3> QED BY <1>3, <2>2, <2>3, <3>2
  <2>6. d = k
    BY <1>1, <2>2, <2>4, <2>5
  <2>7. s = 0
    BY <2>2, <2>3, <2>6
  <2> QED BY <2>6, <2>7 DEF d, s
<1>7. FirstPeer(q, b, m) = k + r
  <2>1. ~(M > b.ini) /\ b.ini - M = z
    <3> HIDE DEF b, M, k, t
    <3> QED BY <1>1, <1>2 DEF z
  <2>2. FirstPeer(q, b, m) = ((b.ini - M) \div t) + r
    BY <2>1, Zenon DEF FirstPeer
  <2> QED BY <1>6, <2>1, <2>2
<1>8. EndPeer(q, b, m) = k + r
  <2>1. ~(M >= b.fin) /\ b.fin - M = z
    <3> HIDE DEF b, M, k, t
    <3> QED BY <1>1, <1>2, <1>5 DEF z
  <2>2. EndPeer(q, b, m) = IF (b.fin - M) % t > 0 /\ ((b.fin - M) \div t) + r + 1 <= m
                             THEN ((b.fin - M) \div t) + r + 1 ELSE ((b.fin - M) \div t) + r
    BY <2>1, Zenon DEF EndPeer
  <2>3. ~((b.fin - M) % t > 0)
    BY <1>6, <2>1
  <2> QED BY <1>6, <2>1, <2>2, <2>3
<1>9. k + r = m
  BY <1>1
<1> QED BY <1>7, <1>8, <1>9

(* The elements two blocks share, when they meet: get_util_ids and          *)
(* set_interblock_counts agree.                                             *)
LEMMA Meeting ==
  ASSUME NEW q \in Nat, NEW n \in Nat \ {0}, NEW m \in Nat \ {0},
         NEW i \in 0 .. n - 1, NEW j \in 0 .. m - 1
  PROVE  LET b == Block(q, i, n)
             c == Block(q, j, m)
         IN  /\ Overlap(b, c) \in Nat
             /\ Overlap(b, c) > 0 <=>
                  b.ini < b.fin /\ b.ini < c.fin /\ c.ini < b.fin
             /\ Overlap(b, c) > 0 =>
                  Overlap(b, c) = Smaller(b.fin, c.fin) - Bigger(b.ini, c.ini)
<1> DEFINE b == Block(q, i, n)
           c == Block(q, j, m)
<1>1. /\ b.ini \in Nat /\ b.fin \in Nat /\ b.ini <= b.fin /\ b.fin <= q
      /\ (b.ini = b.fin => b.ini = q)
  BY Within
<1>2. /\ c.ini \in Nat /\ c.fin \in Nat /\ c.ini <= c.fin /\ c.fin <= q
      /\ (c.ini = c.fin => c.ini = q)
  BY Within
<1> HIDE DEF b, c
<1>3. /\ Overlap(b, c) \in Nat
      /\ Overlap(b, c) > 0 <=> b.ini < b.fin /\ b.ini < c.fin /\ c.ini < b.fin
      /\ Overlap(b, c) > 0 => Overlap(b, c) = Smaller(b.fin, c.fin) - Bigger(b.ini, c.ini)
  BY <1>1, <1>2 DEF Overlap, Smaller, Bigger
<1> QED BY <1>3 DEF b, c

(* Counts and displacements of a rank with block b toward the m ranks of    *)
(* the other group: its peers are the ranks whose blocks meet its own, each *)
(* count is what the two blocks share, and each displacement is where that  *)
(* share starts in b.                                                       *)
RightCounts(c, b, q, m, off) ==
  /\ DOMAIN c.counts = c.idI .. (c.idE - 1)
  /\ DOMAIN c.displs = c.idI .. (c.idE - 1)
  /\ c.idI = FirstPeer(q, b, m) + off /\ c.idE = EndPeer(q, b, m) + off
  /\ \A j \in 0 .. m - 1 :
       /\ j + off \in c.idI .. (c.idE - 1) <=> Overlap(b, Block(q, j, m)) > 0
       /\ Overlap(b, Block(q, j, m)) > 0 =>
            /\ c.counts[j + off] = Overlap(b, Block(q, j, m))
            /\ c.displs[j + off] = Bigger(b.ini, Block(q, j, m).ini) - b.ini

(* What prepare_comm_alltoall computes for a rank is that, unless           *)
(* get_util_ids divides by zero.                                            *)
THEOREM CountsAre ==
  ASSUME NEW q \in Nat, NEW n \in Nat \ {0}, NEW m \in Nat \ {0},
         NEW i \in 0 .. n - 1, NEW off \in Nat,
         ~DividesByZero(q, Block(q, i, n), m)
  PROVE  RightCounts(Counts(q, i, n, m, off), Block(q, i, n), q, m, off)
<1> DEFINE b == Block(q, i, n)
           F == FirstPeer(q, b, m)
           E == EndPeer(q, b, m)
           c(j) == Block(q, j, m)
           peers == (F + off) .. (E + off - 1)
           counts == [k \in peers |-> Overlap(b, c(k - off))]
           displs == Displacements(F + off, peers, counts)
           C == Counts(q, i, n, m, off)
<1>1. /\ C.idI = F + off /\ C.idE = E + off /\ C.counts = counts /\ C.displs = displs
  BY DEF Counts
<1>2. /\ b.ini \in Nat /\ b.fin \in Nat /\ b.ini <= b.fin
  BY Within
<1> HIDE DEF C
<1>3. CASE b.ini = b.fin
  <2>1. F = m /\ E = m
    BY <1>3, NoPeers
  <2>2. peers = {} /\ peers = C.idI .. (C.idE - 1)
    BY <1>1, <2>1
  <2>3. DOMAIN displs = {}
    <3> DEFINE w == [k \in (F + off) .. (E + off - 1) |-> 0]
    <3>1. F + off \in Int /\ E + off - 1 \in Int
      BY <2>1
    <3>2. w = [k \in (F + off) .. (E + off - 1) |->
                IF k = F + off THEN 0 ELSE w[k - 1] + counts[k - 1]]
      BY <2>2
    <3>3. Displacements(F + off, (F + off) .. (E + off - 1), counts) = w
      <4> DEFINE lo == F + off
                 hi == E + off - 1
      <4>1. w = [k \in lo .. hi |-> IF k = lo THEN 0 ELSE w[k - 1] + counts[k - 1]]
        BY <3>2
      <4>2. lo \in Int /\ hi \in Int
        BY <3>1
      <4> HIDE DEF w, counts, lo, hi
      <4>3. Displacements(lo, lo .. hi, counts) = w
        BY ONLY <4>1, <4>2, DisplacementsAre
      <4> QED BY <4>3, Zenon DEF lo, hi
    <3> QED BY <2>2, <3>3
  <2>4. ASSUME NEW j \in 0 .. m - 1 PROVE ~(Overlap(b, c(j)) > 0)
    <3>1. Overlap(b, c(j)) > 0 => b.ini < b.fin
      BY Meeting
    <3> QED BY <1>2, <1>3, <3>1
  <2>5. DOMAIN counts = {}
    BY <2>2
  <2> HIDE DEF b, c, F, E, peers, counts, displs
  <2>6. ~(b.ini < b.fin)
    BY <1>2, <1>3
  <2>7. DOMAIN C.counts = C.idI .. (C.idE - 1) /\ DOMAIN C.displs = C.idI .. (C.idE - 1)
    BY <1>1, <2>2, <2>3, <2>5
  <2> QED BY <1>1, <2>2, <2>4, <2>6, <2>7 DEF b, c, F, E, C, RightCounts
<1>4. CASE b.ini < b.fin
  <2>1. /\ F \in 0 .. m - 1 /\ E \in 1 .. m /\ F < E /\ c(F).ini <= b.ini
        /\ \A j \in 0 .. m - 1 : j \in F .. E - 1 <=> b.ini < c(j).fin /\ c(j).ini < b.fin
    BY <1>4, PeersAre
  <2>2. \A j \in 0 .. m - 1 :
          /\ Overlap(b, c(j)) \in Nat
          /\ Overlap(b, c(j)) > 0 <=> b.ini < b.fin /\ b.ini < c(j).fin /\ c(j).ini < b.fin
          /\ Overlap(b, c(j)) > 0 =>
               Overlap(b, c(j)) = Smaller(b.fin, c(j).fin) - Bigger(b.ini, c(j).ini)
    BY Meeting
  <2>3. \A j \in 0 .. m - 1 : c(j).ini \in Nat /\ c(j).fin \in Nat
    BY Within
  <2>4. \A j \in 0 .. m - 2 : c(j).fin = c(j + 1).ini
    BY Consecutive
  <2> HIDE DEF F, E
  <2> DEFINE w == [k \in (F + off) .. (E + off - 1) |-> Bigger(b.ini, c(k - off).ini) - b.ini]
  <2>5. w = [k \in (F + off) .. (E + off - 1) |->
              IF k = F + off THEN 0 ELSE w[k - 1] + counts[k - 1]]
    <3>1. ASSUME NEW k \in (F + off) .. (E + off - 1)
          PROVE  w[k] = IF k = F + off THEN 0 ELSE w[k - 1] + counts[k - 1]
      <4>1. w[k] = Bigger(b.ini, c(k - off).ini) - b.ini
        OBVIOUS
      <4>2. CASE k = F + off
        <5>1. k - off = F
          BY <2>1, <4>2
        <5> HIDE DEF w, b, c
        <5> QED BY <1>2, <2>1, <2>3, <4>1, <4>2, <5>1 DEF Bigger
      <4>3. CASE k # F + off
        <5> DEFINE x == k - off
        <5>1. /\ x \in 0 .. m - 1 /\ x - 1 \in 0 .. m - 2 /\ x - 1 \in 0 .. m - 1 /\ (x - 1) + 1 = x
              /\ x \in F .. E - 1 /\ x - 1 \in F .. E - 1
              /\ k - 1 \in (F + off) .. (E + off - 1) /\ (k - 1) - off = x - 1
          BY <2>1, <4>3
        <5>2. w[k - 1] = Bigger(b.ini, c(x - 1).ini) - b.ini /\ counts[k - 1] = Overlap(b, c(x - 1))
          BY <5>1
        <5>3. c(x - 1).fin = c(x).ini
          BY <2>4, <5>1
        <5> HIDE DEF w, b, c, counts
        <5>4. /\ b.ini < c(x).fin /\ c(x).ini < b.fin
              /\ b.ini < c(x - 1).fin /\ c(x - 1).ini < b.fin
          BY <2>1, <5>1
        <5>5. Overlap(b, c(x - 1)) = Smaller(b.fin, c(x - 1).fin) - Bigger(b.ini, c(x - 1).ini)
          BY <1>4, <2>2, <5>1, <5>4
        <5>6. c(x).ini \in Nat /\ c(x - 1).ini \in Nat /\ c(x - 1).fin \in Nat
          BY <2>3, <5>1
        <5> HIDE DEF x
        <5>7. Bigger(b.ini, c(x).ini) - b.ini
                = (Bigger(b.ini, c(x - 1).ini) - b.ini) + Overlap(b, c(x - 1))
          BY <1>2, <5>3, <5>4, <5>5, <5>6 DEF Bigger, Smaller
        <5> QED BY <4>1, <4>3, <5>2, <5>7 DEF x
      <4> QED BY <4>2, <4>3
    <3> QED BY <3>1
  <2>6. displs = w
    <3>1. F + off \in Int /\ E + off - 1 \in Int
      BY <2>1
    <3> DEFINE lo == F + off
               hi == E + off - 1
    <3>2. w = [k \in lo .. hi |-> IF k = lo THEN 0 ELSE w[k - 1] + counts[k - 1]]
      BY <2>5
    <3>3. lo \in Int /\ hi \in Int
      BY <3>1
    <3> HIDE DEF w, counts, lo, hi
    <3>4. Displacements(lo, lo .. hi, counts) = w
      BY ONLY <3>2, <3>3, DisplacementsAre
    <3> QED BY <3>4, Zenon DEF lo, hi
  <2>7. peers = C.idI .. (C.idE - 1)
    BY <1>1, <2>1
  <2>8. DOMAIN C.counts = C.idI .. (C.idE - 1) /\ DOMAIN C.displs = C.idI .. (C.idE - 1)
    BY <1>1, <2>6, <2>7
  <2>10. ASSUME NEW j \in 0 .. m - 1
         PROVE  /\ j + off \in C.idI .. (C.idE - 1) <=> Overlap(b, c(j)) > 0
                /\ Overlap(b, c(j)) > 0 =>
                     /\ C.counts[j + off] = Overlap(b, c(j))
                     /\ C.displs[j + off] = Bigger(b.ini, c(j).ini) - b.ini
    <3>1. j + off \in peers <=> j \in F .. E - 1
      BY <2>1
    <3>2. j \in F .. E - 1 <=> Overlap(b, c(j)) > 0
      BY <1>4, <2>1, <2>2
    <3>3. (j + off) - off = j
      OBVIOUS
    <3>4. j + off \in peers => /\ counts[j + off] = Overlap(b, c(j))
                               /\ w[j + off] = Bigger(b.ini, c(j).ini) - b.ini
      BY <3>3
    <3> HIDE DEF b, c, peers, counts, displs, w
    <3> QED BY <1>1, <2>6, <2>7, <3>1, <3>2, <3>4
  <2> HIDE DEF b, c, peers, counts, displs, w
  <2> QED BY <1>1, <2>8, <2>10, Zenon DEF b, c, F, E, C, RightCounts
<1> QED BY <1>2, <1>3, <1>4

(* Every element of an array has an owner in every group.                   *)
LEMMA Owner ==
  ASSUME NEW q \in Nat, NEW m \in Nat \ {0}, NEW y \in Nat, y < q
  PROVE  \E j \in 0 .. m - 1 : Block(q, j, m).ini <= y /\ y < Block(q, j, m).fin
<1> DEFINE b == [ini |-> y]
<1>1. b.ini = y
  OBVIOUS
<1> HIDE DEF b
<1> QED BY <1>1, FirstOwner

(* In a larger group every rank's block starts earlier.                     *)
LEMMA Earlier ==
  ASSUME NEW q \in Nat, NEW n \in Nat \ {0}, NEW m \in Nat \ {0}, n < m, NEW p \in 0 .. n - 1
  PROVE  Block(q, p, m).ini <= Block(q, p, n).ini
<1> DEFINE t == q \div n
           r == q % n
           u == q \div m
           s == q % m
<1>1. /\ t \in Nat /\ r \in 0 .. n - 1 /\ q = n * t + r
      /\ u \in Nat /\ s \in 0 .. m - 1 /\ q = m * u + s
  BY Division
<1>2. Block(q, p, n).ini = p * t + Smaller(p, r) /\ Block(q, p, m).ini = p * u + Smaller(p, s)
  <2>1. p \in 0 .. n - 1 /\ p \in 0 .. m - 1
    OBVIOUS
  <2> QED BY <2>1, Bounds, Zenon
<1> HIDE DEF t, r, u, s
<1>3. n * u <= m * u /\ n * u \in Nat /\ m * u \in Nat
  BY <1>1, Grows
<1>4. u <= t
  <2>1. SUFFICES ASSUME t + 1 <= u PROVE FALSE
    BY <1>1
  <2>2. (t + 1) * n <= u * n
    BY <1>1, <2>1, Grows
  <2>3. (t + 1) * n = n * t + n /\ u * n = n * u
    BY <1>1
  <2>4. n * t \in Nat
    BY <1>1, Grows
  <2> QED BY <1>1, <1>3, <2>2, <2>3, <2>4
<1>5. CASE u = t
  <2>1. s <= r
    <3>1. n * t \in Nat /\ m * t \in Nat /\ n * t <= m * t /\ n * t + r = m * t + s
      BY <1>1, <1>3, <1>5
    <3> QED BY <1>1, <3>1
  <2>2. p * t \in Nat
    BY <1>1, Grows
  <2>3. Smaller(p, s) <= Smaller(p, r) /\ Smaller(p, s) \in Nat /\ Smaller(p, r) \in Nat
    BY <1>1, <2>1 DEF Smaller
  <2> QED BY <1>2, <1>5, <2>2, <2>3
<1>6. CASE u < t
  <2>1. (u + 1) * p <= t * p /\ (u + 1) * p \in Nat /\ t * p \in Nat
    BY <1>1, <1>6, Grows
  <2>2. (u + 1) * p = p * u + p /\ t * p = p * t
    BY <1>1
  <2>3. p * u \in Nat /\ p * t \in Nat
    BY <1>1, Grows
  <2>4. Smaller(p, s) <= p /\ Smaller(p, s) \in Nat /\ Smaller(p, r) \in Nat
    BY <1>1 DEF Smaller
  <2> QED BY <1>2, <2>1, <2>2, <2>3, <2>4
<1> QED BY <1>1, <1>4, <1>5, <1>6

(* The slice a Merge process keeps goes to the first rank it sends to and   *)
(* comes from the last it receives from when the group grows, and the other *)
(* way round when it shrinks: the two tests of sync_point2point agree.      *)
LEMMA SelfPeer ==
  ASSUME NEW q \in Nat, NEW n \in Nat \ {0}, NEW m \in Nat \ {0}, n < m, NEW p \in 0 .. n - 1,
         Overlap(Block(q, p, n), Block(q, p, m)) > 0
  PROVE  /\ FirstPeer(q, Block(q, p, n), m) = p
         /\ EndPeer(q, Block(q, p, m), n) = p + 1
<1> DEFINE b == Block(q, p, n)
           c == Block(q, p, m)
           F == FirstPeer(q, b, m)
           E == EndPeer(q, c, n)
<1>0. p \in 0 .. m - 1 /\ p \in 0 .. n - 1
  OBVIOUS
<1>1. b.ini < b.fin /\ b.ini < c.fin /\ c.ini < b.fin
  BY <1>0, Meeting
<1>2. /\ b.ini \in Nat /\ b.fin \in Nat /\ c.ini \in Nat /\ c.fin \in Nat
      /\ b.fin <= q /\ (c.ini = c.fin => c.ini = q) /\ c.ini <= c.fin
  BY <1>0, Within
<1>3. c.ini < c.fin
  BY <1>1, <1>2
<1>4. /\ F \in 0 .. m - 1 /\ (p \in F .. EndPeer(q, b, m) - 1)
      /\ (F \in F .. EndPeer(q, b, m) - 1 <=>
            b.ini < Block(q, F, m).fin /\ Block(q, F, m).ini < b.fin)
      /\ EndPeer(q, b, m) \in 1 .. m /\ F < EndPeer(q, b, m)
  BY <1>0, <1>1, PeersAre
<1>5. F <= p /\ b.ini < Block(q, F, m).fin
  <2> HIDE DEF F, b
  <2> QED BY <1>4
<1>6. c.ini <= b.ini
  BY Earlier
<1>7. F = p
  <2>1. SUFFICES ASSUME F < p PROVE FALSE
    BY <1>4, <1>5
  <2>2. Block(q, F, m).fin <= c.ini
    BY <1>0, <1>4, <2>1, Ordered
  <2>3. Block(q, F, m).fin \in Nat
    BY <1>4, Within
  <2> HIDE DEF b, c, F
  <2> QED BY <1>2, <1>5, <1>6, <2>2, <2>3
<1>8. /\ E \in 1 .. n /\ p \in FirstPeer(q, c, n) .. E - 1 /\ FirstPeer(q, c, n) \in 0 .. n - 1
      /\ (E - 1 \in FirstPeer(q, c, n) .. E - 1 <=>
            c.ini < Block(q, E - 1, n).fin /\ Block(q, E - 1, n).ini < c.fin)
  <2>1. /\ E \in 1 .. n /\ FirstPeer(q, c, n) \in 0 .. n - 1
        /\ \A j \in 0 .. n - 1 : j \in FirstPeer(q, c, n) .. E - 1 <=>
             c.ini < Block(q, j, n).fin /\ Block(q, j, n).ini < c.fin
    BY <1>0, <1>3, PeersAre
  <2>2. E - 1 \in 0 .. n - 1
    BY <2>1
  <2> HIDE DEF E, c
  <2> QED BY <1>0, <1>1, <2>1, <2>2 DEF b
<1>9. E - 1 \in 0 .. n - 1 /\ p <= E - 1 /\ Block(q, E - 1, n).ini < c.fin
  <2> HIDE DEF E, c
  <2> QED BY <1>8
<1>10. E - 1 = p
  <2>1. SUFFICES ASSUME p < E - 1 PROVE FALSE
    BY <1>9
  <2>2. p + 1 \in 0 .. n - 1 /\ p \in 0 .. m - 2 /\ p \in 0 .. n - 2
    BY <1>9, <2>1
  <2>3. c.fin = Block(q, p + 1, m).ini /\ Block(q, p + 1, m).ini <= Block(q, p + 1, n).ini
    BY <2>2, Consecutive, Earlier
  <2>4. Block(q, p + 1, n).ini <= Block(q, E - 1, n).ini
    <3>1. CASE E - 1 = p + 1
      <4>1. Block(q, p + 1, n).ini \in Nat
        BY <2>2, Within
      <4> QED BY <3>1, <4>1
    <3>2. CASE p + 1 < E - 1
      <4>1. Block(q, p + 1, n).fin <= Block(q, E - 1, n).ini
        BY <1>9, <2>2, <3>2, Ordered
      <4>2. /\ Block(q, p + 1, n).ini <= Block(q, p + 1, n).fin
            /\ Block(q, p + 1, n).ini \in Nat /\ Block(q, p + 1, n).fin \in Nat
        BY <2>2, Within
      <4>3. Block(q, E - 1, n).ini \in Nat
        BY <1>9, Within
      <4> QED BY <4>1, <4>2, <4>3
    <3> QED BY <1>9, <2>1, <3>1, <3>2
  <2>5. /\ Block(q, p + 1, n).ini \in Nat /\ Block(q, E - 1, n).ini \in Nat
    BY <1>9, <2>2, Within
  <2> HIDE DEF c, E
  <2> QED BY <1>2, <1>9, <2>3, <2>4, <2>5
<1>11. E = p + 1
  <2> HIDE DEF E
  <2> QED BY <1>8, <1>10
<1> QED BY <1>7, <1>11 DEF F, E, b, c

(* The part of it about rank k of the counts, whose block is t.             *)
RightToward(c, b, t, k) ==
  /\ DOMAIN c.counts = c.idI .. (c.idE - 1)
  /\ DOMAIN c.displs = c.idI .. (c.idE - 1)
  /\ k \in c.idI .. (c.idE - 1) <=> Overlap(b, t) > 0
  /\ Overlap(b, t) > 0 => /\ c.counts[k] = Overlap(b, t)
                          /\ c.displs[k] = Bigger(b.ini, t.ini) - b.ini

(* The count and the displacement toward one rank of the other group.       *)
LEMMA CountToward ==
  ASSUME NEW q \in Nat, NEW n \in Nat \ {0}, NEW m \in Nat \ {0},
         NEW i \in 0 .. n - 1, NEW j \in 0 .. m - 1, NEW off \in Nat,
         ~DividesByZero(q, Block(q, i, n), m)
  PROVE  RightToward(Counts(q, i, n, m, off), Block(q, i, n), Block(q, j, m), j + off)
<1> DEFINE c == Counts(q, i, n, m, off)
           S == Block(q, i, n)
           G(k) == Block(q, k, m)
<1>1. RightCounts(c, S, q, m, off)
  BY CountsAre
<1> HIDE DEF c, S, G
<1>2. RightToward(c, S, G(j), j + off)
  BY <1>1, Zenon DEF RightCounts, RightToward, G
<1> QED BY <1>2, Zenon DEF c, S, G

(* The first rank of the other group, and where the exchange with it starts *)
(* in its block: the displacement of the first RMA read.                    *)
LEMMA FirstRead ==
  ASSUME NEW q \in Nat, NEW n \in Nat \ {0}, NEW m \in Nat \ {0},
         NEW i \in 0 .. n - 1, NEW j \in 0 .. m - 1,
         ~DividesByZero(q, Block(q, i, n), m),
         Overlap(Block(q, i, n), Block(q, j, m)) > 0
  PROVE  LET c == Counts(q, i, n, m, 0)
             S == Block(q, i, n)
             T == Block(q, j, m)
         IN  (IF j = c.idI THEN c.first ELSE 0) = Bigger(S.ini, T.ini) - T.ini
<1> DEFINE c == Counts(q, i, n, m, 0)
           S == Block(q, i, n)
           T == Block(q, j, m)
           F == FirstPeer(q, S, m)
           E == EndPeer(q, S, m)
           U == Block(q, F, m)
<1>1. S.ini < S.fin /\ S.ini < T.fin /\ T.ini < S.fin
  BY Meeting
<1>2. /\ F \in 0 .. m - 1 /\ E \in 1 .. m /\ F < E /\ U.ini <= S.ini
      /\ \A k \in 0 .. m - 1 :
           k \in F .. E - 1 <=> S.ini < Block(q, k, m).fin /\ Block(q, k, m).ini < S.fin
  BY <1>1, PeersAre
<1>3. c.idI = F /\ c.first = S.ini - U.ini
  BY <1>2 DEF Counts
<1>4. j \in F .. E - 1
  <2> HIDE DEF S, F, E
  <2> QED BY <1>1, <1>2
<1>5. F \in F .. E - 1
  BY <1>2
<1>6. S.ini < U.fin
  BY <1>2, <1>5
<1>7. /\ S.ini \in Nat /\ T.ini \in Nat /\ U.ini \in Nat /\ U.fin \in Nat
  BY <1>2, Within
<1>8. CASE j = F
  <2>1. T = U
    BY <1>8
  <2> HIDE DEF S, T, U, F, c
  <2> QED BY <1>2, <1>3, <1>7, <1>8, <2>1 DEF Bigger, S, T, c
<1>9. CASE j # F
  <2>1. F < j
    <3> HIDE DEF S, F, E
    <3> QED BY <1>2, <1>4, <1>9
  <2>2. U.fin <= T.ini
    BY <1>2, <2>1, Ordered
  <2> HIDE DEF S, T, U, F, c
  <2>3. Bigger(S.ini, T.ini) = T.ini
    BY <1>6, <1>7, <2>2 DEF Bigger
  <2>4. j # c.idI
    BY <1>3, <1>9
  <2> QED BY <1>7, <2>3, <2>4 DEF S, T, c
<1> QED BY <1>8, <1>9

(* Source i, with block S and counts s, and a target with block T, counts r *)
(* and rank k in s, agree on what they exchange.                            *)
Match(s, r, S, T, k, i) ==
  /\ DOMAIN s.counts = s.idI .. (s.idE - 1)
  /\ DOMAIN s.displs = s.idI .. (s.idE - 1)
  /\ DOMAIN r.counts = r.idI .. (r.idE - 1)
  /\ DOMAIN r.displs = r.idI .. (r.idE - 1)
  /\ k \in s.idI .. (s.idE - 1) <=> Overlap(S, T) > 0
  /\ i \in r.idI .. (r.idE - 1) <=> Overlap(S, T) > 0
  /\ Overlap(S, T) > 0 =>
       /\ S.ini < T.fin /\ T.ini < S.fin /\ S.ini < S.fin /\ T.ini < T.fin
       /\ Overlap(S, T) = Smaller(S.fin, T.fin) - Bigger(S.ini, T.ini)
       /\ s.counts[k] = Overlap(S, T)
       /\ s.displs[k] = Bigger(S.ini, T.ini) - S.ini
       /\ r.counts[i] = Overlap(S, T)
       /\ r.displs[i] = Bigger(S.ini, T.ini) - T.ini
       /\ (IF i = r.idI THEN r.first ELSE 0) = Bigger(S.ini, T.ini) - S.ini

(* Both sides of a pair agree: source i of n lists target j exactly when    *)
(* the target lists the source, with the same count, and the displacements  *)
(* of both point to the first element they share, also the one an RMA read  *)
(* starts from (prepare_comm_alltoall runs apart in each of them).          *)
THEOREM BothSidesAgree ==
  ASSUME NEW q \in Nat, NEW n \in Nat \ {0}, NEW m \in Nat \ {0},
         NEW i \in 0 .. n - 1, NEW j \in 0 .. m - 1, NEW off \in Nat,
         ~DividesByZero(q, Block(q, i, n), m), ~DividesByZero(q, Block(q, j, m), n)
  PROVE  Match(Counts(q, i, n, m, off), Counts(q, j, m, n, 0),
               Block(q, i, n), Block(q, j, m), j + off, i)
<1> DEFINE S == Block(q, i, n)
           T == Block(q, j, m)
           O == Overlap(S, T)
           s == Counts(q, i, n, m, off)
           r == Counts(q, j, m, n, 0)
<1>1. Overlap(T, S) = O
  BY OverlapSymmetric
<1>2. /\ S.ini \in Nat /\ S.fin \in Nat /\ S.ini <= S.fin
      /\ T.ini \in Nat /\ T.fin \in Nat /\ T.ini <= T.fin
      /\ (T.ini = T.fin => T.ini = q) /\ S.fin <= q
  BY Within
<1>3. /\ O \in Nat
      /\ O > 0 <=> S.ini < S.fin /\ S.ini < T.fin /\ T.ini < S.fin
      /\ O > 0 => O = Smaller(S.fin, T.fin) - Bigger(S.ini, T.ini)
  BY Meeting
<1>4. RightToward(s, S, T, j + off)
  BY CountToward
<1>5. RightToward(r, T, S, i)
  <2>1. i + 0 = i /\ 0 \in Nat
    OBVIOUS
  <2>2. RightToward(r, T, S, i + 0)
    BY <2>1, CountToward
  <2> QED BY <2>1, <2>2
<1>6. O > 0 => (IF i = r.idI THEN r.first ELSE 0) = Bigger(T.ini, S.ini) - S.ini
  <2>1. SUFFICES ASSUME Overlap(Block(q, j, m), Block(q, i, n)) > 0
                 PROVE  (IF i = r.idI THEN r.first ELSE 0) = Bigger(T.ini, S.ini) - S.ini
    BY <1>1
  <2>2. LET c == Counts(q, j, m, n, 0)
            D == Block(q, j, m)
            E == Block(q, i, n)
        IN  (IF i = c.idI THEN c.first ELSE 0) = Bigger(D.ini, E.ini) - E.ini
    BY <2>1, FirstRead, ZenonT(60)
  <2> QED BY <2>2
<1> HIDE DEF S, T, O, s, r
<1>7. Bigger(T.ini, S.ini) = Bigger(S.ini, T.ini)
  BY <1>2 DEF Bigger
<1>9. O > 0 => S.ini < T.fin /\ T.ini < S.fin /\ S.ini < S.fin /\ T.ini < T.fin
  BY <1>2, <1>3
<1>8. /\ DOMAIN s.counts = s.idI .. (s.idE - 1)
      /\ DOMAIN s.displs = s.idI .. (s.idE - 1)
      /\ j + off \in s.idI .. (s.idE - 1) <=> O > 0
      /\ O > 0 => s.counts[j + off] = O /\ s.displs[j + off] = Bigger(S.ini, T.ini) - S.ini
  BY <1>4, Zenon DEF RightToward, O
<1>10. /\ DOMAIN r.counts = r.idI .. (r.idE - 1)
       /\ DOMAIN r.displs = r.idI .. (r.idE - 1)
       /\ i \in r.idI .. (r.idE - 1) <=> O > 0
       /\ O > 0 => r.counts[i] = O /\ r.displs[i] = Bigger(S.ini, T.ini) - T.ini
  <2>1. /\ DOMAIN r.counts = r.idI .. (r.idE - 1)
        /\ DOMAIN r.displs = r.idI .. (r.idE - 1)
        /\ i \in r.idI .. (r.idE - 1) <=> O > 0
        /\ O > 0 => r.counts[i] = O /\ r.displs[i] = Bigger(T.ini, S.ini) - T.ini
    BY <1>1, <1>5, Zenon DEF RightToward
  <2> QED BY <1>7, <2>1, Zenon
<1>11. O > 0 => (IF i = r.idI THEN r.first ELSE 0) = Bigger(S.ini, T.ini) - S.ini
  BY <1>6, <1>7
<1>12. Match(s, r, S, T, j + off, i)
  BY <1>3, <1>8, <1>9, <1>10, <1>11, Zenon DEF Match, O
<1> QED BY <1>12, Zenon DEF S, T, s, r

(* get_util_ids divides by zero exactly for the ranks without elements, and *)
(* only when the other group, too, has more ranks than there are elements.  *)
THEOREM DividesByZeroWhen ==
  ASSUME NEW q \in Nat, NEW n \in Nat \ {0}, NEW m \in Nat \ {0}, NEW i \in 0 .. n - 1
  PROVE  DividesByZero(q, Block(q, i, n), m) <=> q <= i /\ q < m
<1> DEFINE b == Block(q, i, n)
           t == q \div n
           r == q % n
           u == q \div m
           s == q % m
           x == i * t
<1>1. /\ t \in Nat /\ r \in 0 .. n - 1 /\ q = n * t + r
      /\ u \in Nat /\ s \in 0 .. m - 1 /\ q = m * u + s
  BY Division
<1>2. /\ b.ini \in Nat /\ b.fin \in Nat /\ b.tamBl \in Nat /\ b.fin = b.ini + b.tamBl
      /\ b.ini <= q /\ b.fin <= q
  <2>1. /\ b.ini \in Nat /\ b.fin \in Nat /\ b.tamBl \in Nat
        /\ b.ini <= b.fin /\ b.fin <= q /\ b.fin = b.ini + b.tamBl
    BY Within
  <2> HIDE DEF b
  <2> QED BY <2>1
<1>3. b.ini = x + Smaller(i, r) /\ b.tamBl = t + (IF i < r THEN 1 ELSE 0)
  BY Bounds, Zenon
<1>4. Middle(q, m) = (u + 1) * s
  BY DEF Middle
<1>5. u = 0 <=> q < m
  <2>1. CASE u = 0
    <3>1. m * u = 0
      BY <2>1
    <3> QED BY <1>1, <2>1, <3>1
  <2>2. CASE u # 0
    <3>1. m * 1 <= m * u /\ m * u \in Nat
      <4>1. 1 * m <= u * m
        <5> HIDE DEF u
        <5> QED BY <1>1, <2>2, Grows
      <4> QED BY <1>1, <4>1
    <3> QED BY <1>1, <2>2, <3>1
  <2> QED BY <2>1, <2>2
<1>6. u = 0 => Middle(q, m) = q
  BY <1>1, <1>4
<1>7. b.ini = q <=> q <= i
  <2>1. CASE t = 0
    <3>1. x = 0 /\ r = q
      BY <1>1, <2>1
    <3> HIDE DEF b, x, t, r
    <3> QED BY <1>1, <1>2, <1>3, <3>1 DEF Smaller
  <2>2. CASE t # 0
    <3>1. b.ini # q
      <4> HIDE DEF b, t, r, x
      <4> QED BY <1>1, <1>2, <1>3, <2>2
    <3>2. n <= n * t
      <4>1. 1 * n <= t * n
        <5> HIDE DEF t
        <5> QED BY <1>1, <2>2, Grows
      <4> QED BY <1>1, <4>1
    <3>3. i < q
      <4> DEFINE z == n * t
      <4>1. z \in Nat /\ n <= z /\ q = z + r
        BY <1>1, <3>2
      <4> HIDE DEF z, t, r
      <4> QED BY <1>1, <4>1
    <3> QED BY <3>1, <3>3
  <2> QED BY <2>1, <2>2
<1> HIDE DEF b, u
<1>8. DividesByZero(q, b, m) <=> u = 0 /\ b.ini >= Middle(q, m)
  BY DEF DividesByZero, u
<1>9. DividesByZero(q, b, m) <=> q <= i /\ q < m
  BY <1>2, <1>5, <1>6, <1>7, <1>8
<1> QED BY <1>9 DEF b
=============================================================================
