----------------------------- MODULE MaMStates -----------------------------
(***************************************************************************)
(* The internal states of a reconfiguration (enum mam_inner_states) and    *)
(* the public ones (enum mam_states).  The numbers are the values of the   *)
(* C enumerations: the code compares them (MAM_Checkpoint) and reduces     *)
(* them with MPI_MIN and MPI_MAX, so their order is part of the protocol.  *)
(***************************************************************************)
EXTENDS Naturals

UNRESERVED            == 0
NOT_STARTED           == 1
RMS_COMPLETED         == 2
SPAWN_PENDING         == 3
SPAWN_SINGLE_PENDING  == 4
SPAWN_SINGLE_COMPLETED == 5
SPAWN_ADAPT_POSTPONE  == 6
SPAWN_COMPLETED       == 7
DIST_PENDING          == 8
DIST_COMPLETED        == 9
SPAWN_ADAPT_PENDING   == 10
USER_START            == 11
USER_PENDING          == 12
USER_COMPLETED        == 13
SPAWN_ADAPTED         == 14
COMPLETED             == 15

InnerStates == UNRESERVED..COMPLETED

\* The states in which a spawn needs nothing more from check_spawn_state.
SpawnFinished == {SPAWN_COMPLETED, SPAWN_ADAPTED}
=============================================================================
