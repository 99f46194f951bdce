------------------------- MODULE BlockDistribution -------------------------
(* The block layout of MaM (distribution_methods/block_distribution.c): an  *)
(* array of qty elements is cut into numP consecutive blocks, the first     *)
(* qty % numP of them one element longer.  From the layouts of two groups   *)
(* of different sizes a process computes which ranks of the other group it  *)
(* exchanges elements with, how many, and where they start in its block.    *)
EXTENDS Integers

Smaller(a, b) == IF a < b THEN a ELSE b
Bigger(a, b) == IF a > b THEN a ELSE b

(* get_block_dist: the half-open range [ini, fin) of rank id out of numP.   *)
Block(qty, id, numP) ==
  LET tam == qty \div numP
      rem == qty % numP
      fin == Smaller((id + 1) * tam + Smaller(id + 1, rem), qty)
      ini == Smaller(id * tam + Smaller(id, rem), fin)
  IN  [ini |-> ini, fin |-> fin, tamBl |-> fin - ini]

(* The end of the longer blocks of the remote group.                        *)
Middle(qty, numOther) == ((qty \div numOther) + 1) * (qty % numOther)

(* get_util_ids divides by qty / numOther, which is 0 when the remote group *)
(* has more ranks than there are elements, once its range passes Middle.    *)
DividesByZero(qty, block, numOther) ==
  /\ qty \div numOther = 0
  /\ block.ini >= Middle(qty, numOther)

(* get_util_ids: the remote ranks [idI, idE) whose blocks meet this one.    *)
FirstPeer(qty, block, numOther) ==
  LET tam == qty \div numOther
      middle == Middle(qty, numOther)
  IN  IF middle > block.ini
        THEN block.ini \div (tam + 1)
        ELSE (block.ini - middle) \div tam + (qty % numOther)

\* Mutant: the rank of the last peer is rounded down.
MutEndPeer(qty, block, numOther) ==
  LET tam == qty \div numOther
      middle == Middle(qty, numOther)
  IN  IF middle >= block.fin
        THEN block.fin \div (tam + 1)
        ELSE ((block.fin - middle) \div tam) + (qty % numOther)

EndPeer(qty, block, numOther) ==
  LET tam == qty \div numOther
      middle == Middle(qty, numOther)
      Ceil(n, unit, base) ==
        LET id == (n \div unit) + base
        IN  IF n % unit > 0 /\ id + 1 <= numOther THEN id + 1 ELSE id
  IN  IF middle >= block.fin
        THEN Ceil(block.fin, tam + 1, 0)
        ELSE Ceil(block.fin - middle, tam, qty % numOther)

(* set_interblock_counts: the elements two blocks have in common.           *)
Overlap(a, b) ==
  IF a.ini >= b.fin \/ a.fin <= b.ini
    THEN 0
    ELSE Smaller(a.fin, b.fin) - Bigger(a.ini, b.ini)

(* mallocCounts: no peer, every count and displacement zero.                *)
NoCounts == [idI |-> -1, idE |-> -1, counts |-> <<>>, displs |-> <<>>, first |-> 0]

(* The displacements prepare_comm_alltoall adds up, peer after peer, from   *)
(* the zero that calloc left for idI.                                       *)
Displacements(idI, peers, counts) ==
  LET displs[i \in peers] ==
        IF i = idI THEN 0 ELSE displs[i - 1] + counts[i - 1]
  IN  displs

(* prepare_comm_alltoall: counts and displacements toward the peers of rank *)
(* id, whose ranks are shifted by offset.  first is the displacement of the *)
(* first RMA Get.                                                           *)
Counts(qty, id, numP, numOther, offset) ==
  LET mine == Block(qty, id, numP)
      idI == FirstPeer(qty, mine, numOther)
      idE == EndPeer(qty, mine, numOther)
      peers == (idI + offset) .. (idE + offset - 1)
      counts == [i \in peers |-> Overlap(mine, Block(qty, i - offset, numOther))]
  IN  [idI |-> idI + offset, idE |-> idE + offset, counts |-> counts,
       displs |-> Displacements(idI + offset, peers, counts),
       first |-> mine.ini - Block(qty, idI, numOther).ini]
=============================================================================
