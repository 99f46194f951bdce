---------------------------- MODULE MCAsyncSpawn ----------------------------
(***************************************************************************)
(* Small groups of sources for AsyncSpawn: the configurations choose the   *)
(* number of sources, what is spawned and how MAM_Checkpoint is called.    *)
(***************************************************************************)
EXTENDS AsyncSpawn

CONSTANTS p0, p1, p2

TwoSources == {p0, p1}
ThreeSources == {p0, p1, p2}

\* What an earlier Merge shrink may have left; its sources are all alike.
OneLeft == {{p1}}
=============================================================================
