-------------------------- MODULE MCRedistribution --------------------------
(***************************************************************************)
(* Small groups for Redistribution: sources s0, s1 and children c0, c1.    *)
(***************************************************************************)
EXTENDS Redistribution

CONSTANTS s0, s1, c0, c1
=============================================================================
