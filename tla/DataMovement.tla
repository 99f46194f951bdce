---------------------------- MODULE DataMovement ----------------------------
(* The transfer of the distributed entries from the sources to the targets  *)
(* (distribution_methods/Distributed_CommDist.c): send_data and recv_data   *)
(* by alltoallv, by point-to-point messages or by RMA reads, blocking or    *)
(* not.  A buffer holds global element indices, so that a wrong count,      *)
(* displacement or peer puts a wrong element, or none, into a block.        *)
(* Processes are numbered by their rank in the merged communicator: the     *)
(* sources come first; with the Merge method the first ranks are both.      *)
EXTENDS BlockDistribution, Sequences, FiniteSets

CONSTANTS
  Sizes,        \* group sizes the reconfigurations choose from
  Quantities,   \* element counts the entries choose from
  Entries,      \* number of distributed entries
  MaxProcs,     \* bound: processes of a reconfiguration, sources and targets
  DataSize      \* bytes of an element

ASSUME ParametersOK ==
  /\ Sizes \subseteq Nat \ {0}
  /\ Quantities \subseteq Nat \ {0}
  /\ Entries \in Nat \ {0}
  /\ MaxProcs \in Nat \ {0}
  /\ DataSize \in Nat \ {0}

VARIABLES
  conf,     \* the configuration the reconfiguration runs with, of Confs
  shape,    \* numP, numC, the quantity of each entry, and whether sends are eager
  layout,   \* layout[p][e]: the Counts process p used for its e-th entry
  recv,     \* recv[p][e]: the receive buffer of the e-th entry
  got,      \* got[p][e]: the peers whose elements have arrived
  phase     \* phase[p]: "moving", "ended" (unlocked), "returned", "crashed"

vars == <<conf, shape, layout, recv, got, phase>>

(* The configurations a transfer runs with: Merge always has one merged     *)
(* communicator, and so has the RMA method (MAM_Check_configuration).       *)
Confs ==
  { c \in [spawn : {"baseline", "merge"}, intercomm : BOOLEAN,
           method : {"alltoall", "point", "rma"}, async : BOOLEAN] :
      c.intercomm => c.spawn = "baseline" /\ c.method # "rma" }

Junk == -1        \* an element nobody wrote

Procs ==
  0 .. (IF conf.spawn = "merge" THEN Bigger(shape.numP, shape.numC)
                                 ELSE shape.numP + shape.numC) - 1
Started(p) == Len(layout[p])

IsSource(p) == p < shape.numP
IsTarget(p) == IF conf.spawn = "merge" THEN p < shape.numC ELSE p >= shape.numP
TargetId(p) == IF conf.spawn = "merge" THEN p ELSE p - shape.numP

SourceBlock(p, e) == Block(shape.qty[e], p, shape.numP)
TargetBlock(p, e) == Block(shape.qty[e], TargetId(p), shape.numC)

(* The index a source uses for target p in its counts.                      *)
SendIndex(p) == IF conf.intercomm THEN p - shape.numP ELSE p
Offset == IF conf.spawn = "baseline" /\ ~conf.intercomm THEN shape.numP ELSE 0

------------------------------------------------------------------------------
(* prepare_redistribution                                                   *)

SendCounts(p, qty) ==
  IF IsSource(p) THEN Counts(qty, p, shape.numP, shape.numC, Offset) ELSE NoCounts

RecvCounts(p, qty) ==
  IF IsTarget(p) THEN Counts(qty, TargetId(p), shape.numC, shape.numP, 0) ELSE NoCounts

WinSize(p, qty) ==
  IF IsSource(p) /\ conf.method = "rma" THEN Block(qty, p, shape.numP).tamBl ELSE 0

\* Mutant: the quantities are not compared.
MutSameAsPrevious(e) == e > 1

(* Entries of the same quantity as the previous one keep its layout.        *)
SameAsPrevious(e) == e > 1 /\ shape.qty[e] = shape.qty[e - 1]

Prepare(p, e) ==
  IF SameAsPrevious(e)
    THEN layout[p][e - 1]
    ELSE [s |-> SendCounts(p, shape.qty[e]), r |-> RecvCounts(p, shape.qty[e]),
          win |-> WinSize(p, shape.qty[e])]

(* The division by zero of get_util_ids, on either side of process p.       *)
PrepareFaults(p, e) ==
  /\ ~SameAsPrevious(e)
  /\ \/ IsSource(p) /\ DividesByZero(shape.qty[e], SourceBlock(p, e), shape.numC)
     \/ IsTarget(p) /\ DividesByZero(shape.qty[e], TargetBlock(p, e), shape.numP)

------------------------------------------------------------------------------
(* sync_point2point copies the slice a Merge process keeps with memcpy and  *)
(* leaves it out of both message loops.                                     *)
LocalCopy(p, lay) ==
  /\ conf.method = "point" /\ ~conf.async /\ conf.spawn = "merge"
  /\ lay.s.idI = p \/ lay.s.idE = p + 1

\* Mutant: only a first peer is recognised as the process itself.
MutSkipSelf(p, lay) ==
  /\ conf.method = "point" /\ ~conf.async /\ conf.spawn = "merge"
  /\ lay.r.idI = p

SkipSelf(p, lay) ==
  /\ conf.method = "point" /\ ~conf.async /\ conf.spawn = "merge"
  /\ lay.r.idI = p \/ lay.r.idE = p + 1

Range0(c) == c.idI .. (c.idE - 1)
SendPeers(p, lay) == Range0(lay.s) \ (IF LocalCopy(p, lay) THEN {p} ELSE {})
RecvPeers(p, lay) == Range0(lay.r) \ (IF SkipSelf(p, lay) THEN {p} ELSE {})

CountOf(c, i) == IF i \in DOMAIN c.counts THEN c.counts[i] ELSE 0
DisplOf(c, i) == IF i \in DOMAIN c.displs THEN c.displs[i] ELSE 0

(* The element at position k of the block source q sends from.              *)
SourceElement(q, e, k) ==
  IF k < SourceBlock(q, e).tamBl THEN SourceBlock(q, e).ini + k ELSE Junk

(* memcpy is given a number of elements where it takes a number of bytes.   *)
CopiedElements(lay, p) == CountOf(lay.s, p) \div DataSize

FreshBuffer(p, e, lay) ==
  IF ~IsTarget(p) THEN <<>>
  ELSE [k \in 0 .. TargetBlock(p, e).tamBl - 1 |->
         LET j == k - DisplOf(lay.r, p)
         IN  IF LocalCopy(p, lay) /\ j \in 0 .. CopiedElements(lay, p) - 1
               THEN SourceElement(p, e, DisplOf(lay.s, p) + j)
               ELSE Junk]

------------------------------------------------------------------------------
(* The displacement of the RMA read from peer i: first_target_displs for    *)
(* the first one, 0 for the others.                                         *)
TargetDispl(lay, i) == IF i = lay.r.idI THEN lay.r.first ELSE 0

(* The first element, in source i's block, and the number of elements that  *)
(* travel from i to p for entry e.                                          *)
Slice(p, e, i) ==
  IF conf.method = "rma"
    THEN [from |-> TargetDispl(layout[p][e], i), size |-> CountOf(layout[p][e].r, i)]
    ELSE [from |-> DisplOf(layout[i][e].s, SendIndex(p)),
          size |-> CountOf(layout[i][e].s, SendIndex(p))]

Filled(p, e, i) ==
  LET at == DisplOf(layout[p][e].r, i)
      slice == Slice(p, e, i)
  IN  [k \in DOMAIN recv[p][e] |->
        IF k - at \in 0 .. slice.size - 1
          THEN SourceElement(i, e, slice.from + k - at) ELSE recv[p][e][k]]

------------------------------------------------------------------------------
Windows(e) == \A q \in Procs : Started(q) >= e

(* The elements of peer i can arrive: its message was sent, or the window   *)
(* of the entry exists everywhere (MPI_Win_create is collective).           *)
Available(p, e, i) ==
  IF conf.method = "rma"
    THEN Windows(e)
    ELSE /\ i \in Procs
         /\ Started(i) >= e
         /\ conf.method = "point" => SendIndex(p) \in SendPeers(i, layout[i][e])

Pending(p, e) == RecvPeers(p, layout[p][e]) \ got[p][e]

(* The sends of p for entry e have left its buffer.                         *)
Sent(p, e) ==
  \/ shape.eager \/ conf.method = "rma"
  \/ \A q \in Procs \ {p} :
       (IsTarget(q) /\ SendIndex(q) \in SendPeers(p, layout[p][e])
         /\ CountOf(layout[p][e].s, SendIndex(q)) > 0)
       => Started(q) >= e /\ p \in got[q][e]

(* Entry e no longer keeps p from the next one: the blocking call returned, *)
(* or, for RMA and for the non-blocking calls, was issued.                  *)
Passed(p, e) ==
  CASE conf.method = "rma" -> Windows(e)
    [] conf.method # "rma" /\ conf.async -> TRUE
    [] OTHER -> Pending(p, e) = {} /\ Sent(p, e)

------------------------------------------------------------------------------
Init ==
  /\ conf \in Confs
  /\ shape \in [numP : Sizes, numC : Sizes, qty : [1 .. Entries -> Quantities],
                eager : BOOLEAN]
  /\ conf.spawn = "merge" => shape.numP # shape.numC
  /\ Cardinality(Procs) <= MaxProcs
  /\ layout = [p \in Procs |-> <<>>]
  /\ recv = [p \in Procs |-> <<>>]
  /\ got = [p \in Procs |-> <<>>]
  /\ phase = [p \in Procs |-> "moving"]

(* What holds a process up at each point of the transfer.                   *)
CanStart(p, e) ==
  /\ phase[p] = "moving" /\ e = Started(p) + 1 /\ e <= Entries
  /\ e > 1 => Passed(p, e - 1)

(* sync_point2point receives in rank order.                                 *)
CanArrive(p, e, i) ==
  /\ phase[p] = "moving" /\ e <= Started(p)
  /\ i \in Pending(p, e)
  /\ Available(p, e, i)
  /\ (conf.method = "point" /\ ~conf.async) => \A j \in Pending(p, e) : i <= j

(* Every request has completed (MPI_Waitall, the last MPI_Test, or the      *)
(* MPI_Win_unlock that completes the reads).                                *)
CanEnd(p) ==
  /\ phase[p] = "moving" /\ Started(p) = Entries
  /\ \A e \in 1 .. Entries : Passed(p, e) /\ Pending(p, e) = {} /\ Sent(p, e)

(* MPI_Win_free is collective: it returns when every process has called it. *)
CanReturn(p) ==
  /\ phase[p] = "ended"
  /\ conf.method = "rma" => \A q \in Procs : phase[q] \in {"ended", "returned"}

(* One turn of the loop over the entries: prepare, then issue the transfer. *)
Start(p) ==
  LET e == Started(p) + 1
      lay == Prepare(p, e)
  IN  /\ CanStart(p, e)
      /\ ~PrepareFaults(p, e)
      /\ layout' = [layout EXCEPT ![p] = Append(@, lay)]
      /\ recv' = [recv EXCEPT ![p] = Append(@, FreshBuffer(p, e, lay))]
      /\ got' = [got EXCEPT ![p] = Append(@, {})]
      /\ UNCHANGED <<conf, shape, phase>>

Fault(p) ==
  LET e == Started(p) + 1
  IN  /\ CanStart(p, e)
      /\ PrepareFaults(p, e)
      /\ phase' = [phase EXCEPT ![p] = "crashed"]
      /\ UNCHANGED <<conf, shape, layout, recv, got>>

(* The elements of peer i arrive.                                           *)
Arrive(p, e, i) ==
  /\ CanArrive(p, e, i)
  /\ recv' = [recv EXCEPT ![p][e] = Filled(p, e, i)]
  /\ got' = [got EXCEPT ![p][e] = @ \cup {i}]
  /\ UNCHANGED <<conf, shape, layout, phase>>

End(p) ==
  /\ CanEnd(p)
  /\ phase' = [phase EXCEPT ![p] = "ended"]
  /\ UNCHANGED <<conf, shape, layout, recv, got>>

\* Mutant: the window is dropped without waiting for the others.
MutReturn(p) ==
  /\ phase[p] = "ended"
  /\ phase' = [phase EXCEPT ![p] = "returned"]
  /\ UNCHANGED <<conf, shape, layout, recv, got>>

Return(p) ==
  /\ CanReturn(p)
  /\ phase' = [phase EXCEPT ![p] = "returned"]
  /\ UNCHANGED <<conf, shape, layout, recv, got>>

Next ==
  \E p \in Procs :
    \/ Start(p)
    \/ Fault(p)
    \/ \E e \in 1 .. Entries, i \in 0 .. shape.numP - 1 : Arrive(p, e, i)
    \/ End(p)
    \/ Return(p)

Spec == Init /\ [][Next]_vars
------------------------------------------------------------------------------
(* Properties                                                               *)

(* The elements of the slice a process keeps that memcpy leaves out.        *)
Cut(p, lay, k) ==
  /\ LocalCopy(p, lay)
  /\ k - DisplOf(lay.r, p) \in CopiedElements(lay, p) .. CountOf(lay.s, p) - 1

(* A target that leaves the redistribution holds its whole block, every     *)
(* element in its place, whatever counts, displacements and peers it and    *)
(* the sources computed apart (send_sync_data, recv_async_data, ...).  Only *)
(* what memcpy leaves out of a slice when it takes elements for bytes is    *)
(* missing, and that is all that is.                                        *)
BlockReceived ==
  \A p \in Procs : (IsTarget(p) /\ phase[p] \in {"ended", "returned"}) =>
    \A e \in 1 .. Entries :
      /\ DOMAIN recv[p][e] = 0 .. TargetBlock(p, e).tamBl - 1
      /\ \A k \in 0 .. TargetBlock(p, e).tamBl - 1 :
           recv[p][e][k] = (IF Cut(p, layout[p][e], k) THEN Junk ELSE TargetBlock(p, e).ini + k)

(* Source i and target p expect the same of each other for entry e: both    *)
(* list the other as a peer or neither does, with the same number.          *)
Matched(p, e, i) ==
  LET out == layout[i][e]
      in == layout[p][e]
  IN  /\ SendIndex(p) \in SendPeers(i, out) <=> i \in RecvPeers(p, in)
      /\ CountOf(out.s, SendIndex(p)) = CountOf(in.r, i)

(* Slice i of entry e stays inside the block (the RMA window) of its source *)
(* and inside the receive buffer.                                           *)
Fits(p, e, i) ==
  LET slice == Slice(p, e, i)
  IN  slice.size > 0 =>
        /\ slice.from >= 0
        /\ slice.from + slice.size <=
             (IF conf.method = "rma" THEN layout[i][e].win ELSE SourceBlock(i, e).tamBl)
        /\ DisplOf(layout[p][e].r, i) + slice.size <= TargetBlock(p, e).tamBl

(* What a source sends to a target is what the target, which computes its   *)
(* counts apart, expects from it, in number and in peers: no message is cut *)
(* short, and no message or receive is without a partner                    *)
(* (prepare_comm_alltoall runs on both sides).  And no transfer leaves a    *)
(* buffer.                                                                  *)
InBounds ==
  \A p \in Procs, e \in 1 .. Entries : Started(p) >= e =>
    /\ \A i \in Procs : IsTarget(p) /\ IsSource(i) /\ Started(i) >= e => Matched(p, e, i)
    /\ \A i \in RecvPeers(p, layout[p][e]) : IsTarget(p) /\ i \in Procs /\ IsSource(i)
    /\ \A k \in SendPeers(p, layout[p][e]) :
         IsSource(p) /\ \E q \in Procs : IsTarget(q) /\ SendIndex(q) = k
    /\ \A i \in RecvPeers(p, layout[p][e]) : Available(p, e, i) => Fits(p, e, i)

(* A process whose window is gone, because it returned from MPI_Win_free,   *)
(* has nothing left that another one still reads (sync_communication_end,   *)
(* async_communication_end).                                                *)
WindowHeld ==
  \A p, q \in Procs, e \in 1 .. Entries :
    (conf.method = "rma" /\ phase[p] = "returned" /\ Started(q) >= e) => p \notin Pending(q, e)

(* get_util_ids computes a range of peers for every block: no process dies  *)
(* of it.                                                                   *)
PeersComputed == \A p \in Procs : phase[p] # "crashed"

(* The redistribution ends in every process: the processes stop only when   *)
(* all have returned, so that blocking receives in rank order, rendezvous   *)
(* sends and collective windows never wait in a circle.  No process takes   *)
(* more than a bounded number of steps, so this is also termination.        *)
Stopped ==
  \A p \in Procs :
    /\ ~CanEnd(p) /\ ~CanReturn(p)
    /\ \A e \in 1 .. Entries :
         ~CanStart(p, e) /\ \A i \in 0 .. shape.numP - 1 : ~CanArrive(p, e, i)

NoCircle == PeersComputed /\ Stopped => \A p \in Procs : phase[p] = "returned"
=============================================================================
