-------------------------- MODULE AsyncSpawnProofs --------------------------
(***************************************************************************)
(* Proofs about AsyncSpawn, for any group of sources, any mode and either  *)
(* way of calling MAM_Checkpoint.  The inductive invariant is IInv; each   *)
(* of its parts is preserved by a lemma with one step per action.          *)
(***************************************************************************)
EXTENDS AsyncSpawn, TLAPS

USE DEF UNRESERVED, NOT_STARTED, RMS_COMPLETED, SPAWN_PENDING, SPAWN_SINGLE_PENDING,
        SPAWN_SINGLE_COMPLETED, SPAWN_ADAPT_POSTPONE, SPAWN_COMPLETED,
        SPAWN_ADAPT_PENDING, SPAWN_ADAPTED, COMPLETED, NoValue, InnerStates,
        SpawnFinished

\* check_spawn_state returns to its caller: what its result leaves behind.
LEMMA ReturnType ==
  ASSUME TypeOK, NEW p \in Sources, NEW v \in InnerStates, Return(p, v)
  PROVE  /\ state' \in [Sources -> InnerStates]
         /\ freed' \in [Sources -> BOOLEAN]
         /\ polls' \in [Sources -> Nat]
         /\ mpc' \in [Sources -> MasterPlaces]
<1>. USE SpawnAssumption DEF TypeOK, MasterPlaces
<1>1. state' \in [Sources -> InnerStates] /\ polls' \in [Sources -> Nat]
  BY DEF Return
<1>2. freed' \in [Sources -> BOOLEAN]
  BY DEF Return
<1>3. mpc' \in [Sources -> MasterPlaces]
  BY DEF Return
<1>. QED  BY <1>1, <1>2, <1>3

\* Every step keeps the types.
LEMMA TypeStep ==
  ASSUME TypeOK, [Next]_vars
  PROVE  TypeOK'
<1>. USE SpawnAssumption DEF
       TypeOK, MasterPlaces, ThreadPlaces, Modes, masterVars, threadVars, mpiVars,
       flagVars
<1>1. ASSUME NEW p \in Sources, InitSpawn(p) PROVE TypeOK'
  BY <1>1 DEF InitSpawn, Master, SetSpawnState, InitialState
<1>2. ASSUME NEW p \in Sources, CheckSpawnState(p) PROVE TypeOK'
  BY <1>2 DEF CheckSpawnState, Master, Return, Waits
<1>3. ASSUME NEW p \in Sources, WaitCompletion(p) PROVE TypeOK'
  BY <1>3 DEF WaitCompletion, Master
<1>4. ASSUME NEW p \in Sources, WokenCompletion(p) PROVE TypeOK'
  BY <1>4 DEF WokenCompletion, Master
<1>5. ASSUME NEW p \in Sources, RereadState(p) PROVE TypeOK'
  BY <1>5 DEF RereadState, Master
<1>6. ASSUME NEW p \in Sources, BcastSend(p) PROVE TypeOK'
  BY <1>6 DEF BcastSend, Master
<1>7. ASSUME NEW p \in Sources, BcastRecv(p) PROVE TypeOK'
  BY <1>7 DEF BcastRecv, Master
<1>8. ASSUME NEW p \in Sources, SingleApply(p) PROVE TypeOK'
  <2>1. CASE mlocal[p] = SPAWN_SINGLE_COMPLETED
    BY <1>8, <2>1, ReturnType DEF SingleApply, SetSpawnState
  <2>2. CASE mlocal[p] # SPAWN_SINGLE_COMPLETED
    <3>1. mlocal[p] \in InnerStates /\ Return(p, mlocal[p])
      BY <1>8, <2>2 DEF SingleApply
    <3>. QED  BY <1>8, <2>2, <3>1, ReturnType DEF SingleApply
  <2>. QED  BY <2>1, <2>2
<1>9. ASSUME NEW p \in Sources, AllreduceEnter(p) PROVE TypeOK'
  BY <1>9 DEF AllreduceEnter, Master
<1>10. ASSUME NEW p \in Sources, AllreduceLeave(p) PROVE TypeOK'
  BY <1>10 DEF AllreduceLeave, Return, SetSpawnState
<1>11. ASSUME NEW p \in Sources, Redistribute(p) PROVE TypeOK'
  BY <1>11 DEF Redistribute, Master
<1>12. ASSUME NEW p \in Sources, UnsetRead(p) PROVE TypeOK'
  BY <1>12 DEF UnsetRead, Master
<1>13. ASSUME NEW p \in Sources, UnsetWrite(p) PROVE TypeOK'
  BY <1>13 DEF UnsetWrite, Master, SetSpawnState
<1>14. ASSUME NEW p \in Sources, UnsetWakeup(p) PROVE TypeOK'
  BY <1>14 DEF UnsetWakeup, Master
<1>15. ASSUME NEW p \in Sources, GenericSpawn(p) PROVE TypeOK'
  BY <1>15 DEF GenericSpawn, Thread, Collective
<1>16. ASSUME NEW p \in Sources, SingleConnect(p) PROVE TypeOK'
  BY <1>16 DEF SingleConnect, Thread, Collective
<1>17. ASSUME NEW p \in Sources, SingleSpawn(p) PROVE TypeOK'
  BY <1>17 DEF SingleSpawn, Thread
<1>18. ASSUME NEW p \in Sources, SingleRecvPort(p) PROVE TypeOK'
  BY <1>18 DEF SingleRecvPort, Thread
<1>19. ASSUME NEW p \in Sources, SingleSet(p) PROVE TypeOK'
  BY <1>19 DEF SingleSet, Thread, SetSpawnState
<1>20. ASSUME NEW p \in Sources, SingleWakeup(p) PROVE TypeOK'
  BY <1>20 DEF SingleWakeup, Thread, WakeupCompletion
<1>21. ASSUME NEW p \in Sources, ReadAux(p) PROVE TypeOK'
  BY <1>21 DEF ReadAux, Thread
<1>22. ASSUME NEW p \in Sources, WriteState(p) PROVE TypeOK'
  BY <1>22 DEF WriteState, Thread, SetSpawnState
<1>23. ASSUME NEW p \in Sources, AfterSpawn(p) PROVE TypeOK'
  BY <1>23 DEF AfterSpawn, Thread
<1>24. ASSUME NEW p \in Sources, WaitRedistribution(p) PROVE TypeOK'
  BY <1>24 DEF WaitRedistribution, Thread
<1>25. ASSUME NEW p \in Sources, WokenRedistribution(p) PROVE TypeOK'
  BY <1>25 DEF WokenRedistribution, Thread
<1>26. ASSUME NEW p \in Sources, ShrinkSplit(p) PROVE TypeOK'
  BY <1>26 DEF ShrinkSplit, Thread, Collective
<1>27. ASSUME NEW p \in Sources, ThreadEnd(p) PROVE TypeOK'
  BY <1>27 DEF ThreadEnd, Thread, WakeupCompletion
<1>28. ASSUME NEW p \in Sources, UseAfterFree(p) PROVE TypeOK'
  BY <1>28 DEF UseAfterFree
<1>29. CASE AllreduceCombine
  BY <1>29 DEF AllreduceCombine, Minimum
<1>30. CASE ChildrenSendPort
  BY <1>30 DEF ChildrenSendPort
<1>31. CASE UNCHANGED vars
  BY <1>31 DEF vars
<1>. QED
  BY <1>1, <1>2, <1>3, <1>4, <1>5, <1>6, <1>7, <1>8, <1>9, <1>10, <1>11, <1>12, <1>13, <1>14, <1>15, <1>16,
     <1>17, <1>18, <1>19, <1>20, <1>21, <1>22, <1>23, <1>24, <1>25, <1>26, <1>27, <1>28, <1>29, <1>30, <1>31
  DEF Next, MasterStep, ThreadStep, OtherStep

\* The states of one mode never show up in another.
LEMMA ValuesStep ==
  ASSUME TypeOK, ValuesOK, [Next]_vars
  PROVE  ValuesOK'
<1>. USE SpawnAssumption DEF
       TypeOK, ValuesOK, ModeValues, Modes, masterVars, threadVars, mpiVars,
       flagVars
<1>1. ASSUME NEW p \in Sources, InitSpawn(p) PROVE ValuesOK'
  BY <1>1 DEF InitSpawn, Master, SetSpawnState, InitialState
<1>2. ASSUME NEW p \in Sources, CheckSpawnState(p) PROVE ValuesOK'
  BY <1>2 DEF CheckSpawnState, Master, Return, Waits
<1>3. ASSUME NEW p \in Sources, WaitCompletion(p) PROVE ValuesOK'
  BY <1>3 DEF WaitCompletion, Master
<1>4. ASSUME NEW p \in Sources, WokenCompletion(p) PROVE ValuesOK'
  BY <1>4 DEF WokenCompletion, Master
<1>5. ASSUME NEW p \in Sources, RereadState(p) PROVE ValuesOK'
  BY <1>5 DEF RereadState, Master
<1>6. ASSUME NEW p \in Sources, BcastSend(p) PROVE ValuesOK'
  BY <1>6 DEF BcastSend, Master
<1>7. ASSUME NEW p \in Sources, BcastRecv(p) PROVE ValuesOK'
  BY <1>7 DEF BcastRecv, Master
<1>8. ASSUME NEW p \in Sources, SingleApply(p) PROVE ValuesOK'
  <2>1. CASE mlocal[p] = SPAWN_SINGLE_COMPLETED
    <3>1. CASE p = Root
      BY <1>8, <2>1, <3>1 DEF SingleApply, Return, SetSpawnState
    <3>2. CASE p # Root
      BY <1>8, <2>1, <3>2 DEF SingleApply, Return, SetSpawnState
    <3>. QED  BY <3>1, <3>2
  <2>2. CASE mlocal[p] # SPAWN_SINGLE_COMPLETED
    BY <1>8, <2>2 DEF SingleApply, Return, SetSpawnState
  <2>. QED  BY <2>1, <2>2
<1>9. ASSUME NEW p \in Sources, AllreduceEnter(p) PROVE ValuesOK'
  BY <1>9 DEF AllreduceEnter, Master
<1>10. ASSUME NEW p \in Sources, AllreduceLeave(p) PROVE ValuesOK'
  BY <1>10 DEF AllreduceLeave, Return, SetSpawnState
<1>11. ASSUME NEW p \in Sources, Redistribute(p) PROVE ValuesOK'
  BY <1>11 DEF Redistribute, Master
<1>12. ASSUME NEW p \in Sources, UnsetRead(p) PROVE ValuesOK'
  BY <1>12 DEF UnsetRead, Master
<1>13. ASSUME NEW p \in Sources, UnsetWrite(p) PROVE ValuesOK'
  BY <1>13 DEF UnsetWrite, Master, SetSpawnState
<1>14. ASSUME NEW p \in Sources, UnsetWakeup(p) PROVE ValuesOK'
  BY <1>14 DEF UnsetWakeup, Master
<1>15. ASSUME NEW p \in Sources, GenericSpawn(p) PROVE ValuesOK'
  BY <1>15 DEF GenericSpawn, Thread, Collective
<1>16. ASSUME NEW p \in Sources, SingleConnect(p) PROVE ValuesOK'
  BY <1>16 DEF SingleConnect, Thread, Collective
<1>17. ASSUME NEW p \in Sources, SingleSpawn(p) PROVE ValuesOK'
  BY <1>17 DEF SingleSpawn, Thread
<1>18. ASSUME NEW p \in Sources, SingleRecvPort(p) PROVE ValuesOK'
  BY <1>18 DEF SingleRecvPort, Thread
<1>19. ASSUME NEW p \in Sources, SingleSet(p) PROVE ValuesOK'
  BY <1>19 DEF SingleSet, Thread, SetSpawnState
<1>20. ASSUME NEW p \in Sources, SingleWakeup(p) PROVE ValuesOK'
  BY <1>20 DEF SingleWakeup, Thread, WakeupCompletion
<1>21. ASSUME NEW p \in Sources, ReadAux(p) PROVE ValuesOK'
  BY <1>21 DEF ReadAux, Thread
<1>22. ASSUME NEW p \in Sources, WriteState(p) PROVE ValuesOK'
  BY <1>22 DEF WriteState, Thread, SetSpawnState
<1>23. ASSUME NEW p \in Sources, AfterSpawn(p) PROVE ValuesOK'
  BY <1>23 DEF AfterSpawn, Thread
<1>24. ASSUME NEW p \in Sources, WaitRedistribution(p) PROVE ValuesOK'
  BY <1>24 DEF WaitRedistribution, Thread
<1>25. ASSUME NEW p \in Sources, WokenRedistribution(p) PROVE ValuesOK'
  BY <1>25 DEF WokenRedistribution, Thread
<1>26. ASSUME NEW p \in Sources, ShrinkSplit(p) PROVE ValuesOK'
  BY <1>26 DEF ShrinkSplit, Thread, Collective
<1>27. ASSUME NEW p \in Sources, ThreadEnd(p) PROVE ValuesOK'
  BY <1>27 DEF ThreadEnd, Thread, WakeupCompletion
<1>28. ASSUME NEW p \in Sources, UseAfterFree(p) PROVE ValuesOK'
  BY <1>28 DEF UseAfterFree
<1>29. CASE AllreduceCombine
  BY <1>29 DEF AllreduceCombine, Minimum
<1>30. CASE ChildrenSendPort
  BY <1>30 DEF ChildrenSendPort
<1>31. CASE UNCHANGED vars
  BY <1>31 DEF vars
<1>. QED
  BY <1>1, <1>2, <1>3, <1>4, <1>5, <1>6, <1>7, <1>8, <1>9, <1>10, <1>11, <1>12, <1>13, <1>14, <1>15, <1>16,
     <1>17, <1>18, <1>19, <1>20, <1>21, <1>22, <1>23, <1>24, <1>25, <1>26, <1>27, <1>28, <1>29, <1>30, <1>31
  DEF Next, MasterStep, ThreadStep, OtherStep

\* The state that check_spawn_state reads is always one it knows.
LEMMA CheckStep ==
  ASSUME TypeOK, ValuesOK, CheckOK, [Next]_vars
  PROVE  CheckOK'
<1>. USE SpawnAssumption DEF
       TypeOK, ValuesOK, CheckOK, Checkable, Modes, masterVars, threadVars, mpiVars,
       flagVars
<1>1. ASSUME NEW p \in Sources, InitSpawn(p) PROVE CheckOK'
  BY <1>1 DEF InitSpawn, Master, SetSpawnState, InitialState
<1>2. ASSUME NEW p \in Sources, CheckSpawnState(p) PROVE CheckOK'
  BY <1>2 DEF CheckSpawnState, Master, Return, Waits
<1>3. ASSUME NEW p \in Sources, WaitCompletion(p) PROVE CheckOK'
  BY <1>3 DEF WaitCompletion, Master
<1>4. ASSUME NEW p \in Sources, WokenCompletion(p) PROVE CheckOK'
  BY <1>4 DEF WokenCompletion, Master
<1>5. ASSUME NEW p \in Sources, RereadState(p) PROVE CheckOK'
  BY <1>5 DEF RereadState, Master
<1>6. ASSUME NEW p \in Sources, BcastSend(p) PROVE CheckOK'
  BY <1>6 DEF BcastSend, Master
<1>7. ASSUME NEW p \in Sources, BcastRecv(p) PROVE CheckOK'
  BY <1>7 DEF BcastRecv, Master
<1>8. ASSUME NEW p \in Sources, SingleApply(p) PROVE CheckOK'
  <2>1. CASE mlocal[p] = SPAWN_SINGLE_COMPLETED
    <3>1. CASE p = Root
      BY <1>8, <2>1, <3>1 DEF SingleApply, Return, SetSpawnState
    <3>2. CASE p # Root
      BY <1>8, <2>1, <3>2 DEF SingleApply, Return, SetSpawnState
    <3>. QED  BY <3>1, <3>2
  <2>2. CASE mlocal[p] # SPAWN_SINGLE_COMPLETED
    BY <1>8, <2>2 DEF SingleApply, Return, SetSpawnState
  <2>. QED  BY <2>1, <2>2
<1>9. ASSUME NEW p \in Sources, AllreduceEnter(p) PROVE CheckOK'
  BY <1>9 DEF AllreduceEnter, Master
<1>10. ASSUME NEW p \in Sources, AllreduceLeave(p) PROVE CheckOK'
  BY <1>10 DEF AllreduceLeave, Return, SetSpawnState
<1>11. ASSUME NEW p \in Sources, Redistribute(p) PROVE CheckOK'
  BY <1>11 DEF Redistribute, Master
<1>12. ASSUME NEW p \in Sources, UnsetRead(p) PROVE CheckOK'
  BY <1>12 DEF UnsetRead, Master
<1>13. ASSUME NEW p \in Sources, UnsetWrite(p) PROVE CheckOK'
  BY <1>13 DEF UnsetWrite, Master, SetSpawnState
<1>14. ASSUME NEW p \in Sources, UnsetWakeup(p) PROVE CheckOK'
  BY <1>14 DEF UnsetWakeup, Master
<1>15. ASSUME NEW p \in Sources, GenericSpawn(p) PROVE CheckOK'
  BY <1>15 DEF GenericSpawn, Thread, Collective
<1>16. ASSUME NEW p \in Sources, SingleConnect(p) PROVE CheckOK'
  BY <1>16 DEF SingleConnect, Thread, Collective
<1>17. ASSUME NEW p \in Sources, SingleSpawn(p) PROVE CheckOK'
  BY <1>17 DEF SingleSpawn, Thread
<1>18. ASSUME NEW p \in Sources, SingleRecvPort(p) PROVE CheckOK'
  BY <1>18 DEF SingleRecvPort, Thread
<1>19. ASSUME NEW p \in Sources, SingleSet(p) PROVE CheckOK'
  BY <1>19 DEF SingleSet, Thread, SetSpawnState
<1>20. ASSUME NEW p \in Sources, SingleWakeup(p) PROVE CheckOK'
  BY <1>20 DEF SingleWakeup, Thread, WakeupCompletion
<1>21. ASSUME NEW p \in Sources, ReadAux(p) PROVE CheckOK'
  BY <1>21 DEF ReadAux, Thread
<1>22. ASSUME NEW p \in Sources, WriteState(p) PROVE CheckOK'
  BY <1>22 DEF WriteState, Thread, SetSpawnState
<1>23. ASSUME NEW p \in Sources, AfterSpawn(p) PROVE CheckOK'
  BY <1>23 DEF AfterSpawn, Thread
<1>24. ASSUME NEW p \in Sources, WaitRedistribution(p) PROVE CheckOK'
  BY <1>24 DEF WaitRedistribution, Thread
<1>25. ASSUME NEW p \in Sources, WokenRedistribution(p) PROVE CheckOK'
  BY <1>25 DEF WokenRedistribution, Thread
<1>26. ASSUME NEW p \in Sources, ShrinkSplit(p) PROVE CheckOK'
  BY <1>26 DEF ShrinkSplit, Thread, Collective
<1>27. ASSUME NEW p \in Sources, ThreadEnd(p) PROVE CheckOK'
  BY <1>27 DEF ThreadEnd, Thread, WakeupCompletion
<1>28. ASSUME NEW p \in Sources, UseAfterFree(p) PROVE CheckOK'
  BY <1>28 DEF UseAfterFree
<1>29. CASE AllreduceCombine
  BY <1>29 DEF AllreduceCombine, Minimum
<1>30. CASE ChildrenSendPort
  BY <1>30 DEF ChildrenSendPort
<1>31. CASE UNCHANGED vars
  BY <1>31 DEF vars
<1>. QED
  BY <1>1, <1>2, <1>3, <1>4, <1>5, <1>6, <1>7, <1>8, <1>9, <1>10, <1>11, <1>12, <1>13, <1>14, <1>15, <1>16,
     <1>17, <1>18, <1>19, <1>20, <1>21, <1>22, <1>23, <1>24, <1>25, <1>26, <1>27, <1>28, <1>29, <1>30, <1>31
  DEF Next, MasterStep, ThreadStep, OtherStep

\* Only the return of a final state tells a source, and it ends the spawn for it.
LEMMA ToldStep ==
  ASSUME TypeOK, ToldOK, [Next]_vars
  PROVE  ToldOK'
<1>. USE SpawnAssumption DEF
       TypeOK, ToldOK, Modes, masterVars, threadVars, mpiVars, flagVars
<1>1. ASSUME NEW p \in Sources, InitSpawn(p) PROVE ToldOK'
  BY <1>1 DEF InitSpawn, Master, SetSpawnState, InitialState
<1>2. ASSUME NEW p \in Sources, CheckSpawnState(p) PROVE ToldOK'
  BY <1>2 DEF CheckSpawnState, Master, Return, Waits
<1>3. ASSUME NEW p \in Sources, WaitCompletion(p) PROVE ToldOK'
  BY <1>3 DEF WaitCompletion, Master
<1>4. ASSUME NEW p \in Sources, WokenCompletion(p) PROVE ToldOK'
  BY <1>4 DEF WokenCompletion, Master
<1>5. ASSUME NEW p \in Sources, RereadState(p) PROVE ToldOK'
  BY <1>5 DEF RereadState, Master
<1>6. ASSUME NEW p \in Sources, BcastSend(p) PROVE ToldOK'
  BY <1>6 DEF BcastSend, Master
<1>7. ASSUME NEW p \in Sources, BcastRecv(p) PROVE ToldOK'
  BY <1>7 DEF BcastRecv, Master
<1>8. ASSUME NEW p \in Sources, SingleApply(p) PROVE ToldOK'
  <2>1. CASE mlocal[p] = SPAWN_SINGLE_COMPLETED
    <3>1. CASE p = Root
      BY <1>8, <2>1, <3>1 DEF SingleApply, Return, SetSpawnState
    <3>2. CASE p # Root
      BY <1>8, <2>1, <3>2 DEF SingleApply, Return, SetSpawnState
    <3>. QED  BY <3>1, <3>2
  <2>2. CASE mlocal[p] # SPAWN_SINGLE_COMPLETED
    BY <1>8, <2>2 DEF SingleApply, Return, SetSpawnState
  <2>. QED  BY <2>1, <2>2
<1>9. ASSUME NEW p \in Sources, AllreduceEnter(p) PROVE ToldOK'
  BY <1>9 DEF AllreduceEnter, Master
<1>10. ASSUME NEW p \in Sources, AllreduceLeave(p) PROVE ToldOK'
  BY <1>10 DEF AllreduceLeave, Return, SetSpawnState
<1>11. ASSUME NEW p \in Sources, Redistribute(p) PROVE ToldOK'
  BY <1>11 DEF Redistribute, Master
<1>12. ASSUME NEW p \in Sources, UnsetRead(p) PROVE ToldOK'
  BY <1>12 DEF UnsetRead, Master
<1>13. ASSUME NEW p \in Sources, UnsetWrite(p) PROVE ToldOK'
  BY <1>13 DEF UnsetWrite, Master, SetSpawnState
<1>14. ASSUME NEW p \in Sources, UnsetWakeup(p) PROVE ToldOK'
  BY <1>14 DEF UnsetWakeup, Master
<1>15. ASSUME NEW p \in Sources, GenericSpawn(p) PROVE ToldOK'
  BY <1>15 DEF GenericSpawn, Thread, Collective
<1>16. ASSUME NEW p \in Sources, SingleConnect(p) PROVE ToldOK'
  BY <1>16 DEF SingleConnect, Thread, Collective
<1>17. ASSUME NEW p \in Sources, SingleSpawn(p) PROVE ToldOK'
  BY <1>17 DEF SingleSpawn, Thread
<1>18. ASSUME NEW p \in Sources, SingleRecvPort(p) PROVE ToldOK'
  BY <1>18 DEF SingleRecvPort, Thread
<1>19. ASSUME NEW p \in Sources, SingleSet(p) PROVE ToldOK'
  BY <1>19 DEF SingleSet, Thread, SetSpawnState
<1>20. ASSUME NEW p \in Sources, SingleWakeup(p) PROVE ToldOK'
  BY <1>20 DEF SingleWakeup, Thread, WakeupCompletion
<1>21. ASSUME NEW p \in Sources, ReadAux(p) PROVE ToldOK'
  BY <1>21 DEF ReadAux, Thread
<1>22. ASSUME NEW p \in Sources, WriteState(p) PROVE ToldOK'
  BY <1>22 DEF WriteState, Thread, SetSpawnState
<1>23. ASSUME NEW p \in Sources, AfterSpawn(p) PROVE ToldOK'
  BY <1>23 DEF AfterSpawn, Thread
<1>24. ASSUME NEW p \in Sources, WaitRedistribution(p) PROVE ToldOK'
  BY <1>24 DEF WaitRedistribution, Thread
<1>25. ASSUME NEW p \in Sources, WokenRedistribution(p) PROVE ToldOK'
  BY <1>25 DEF WokenRedistribution, Thread
<1>26. ASSUME NEW p \in Sources, ShrinkSplit(p) PROVE ToldOK'
  BY <1>26 DEF ShrinkSplit, Thread, Collective
<1>27. ASSUME NEW p \in Sources, ThreadEnd(p) PROVE ToldOK'
  BY <1>27 DEF ThreadEnd, Thread, WakeupCompletion
<1>28. ASSUME NEW p \in Sources, UseAfterFree(p) PROVE ToldOK'
  BY <1>28 DEF UseAfterFree
<1>29. CASE AllreduceCombine
  BY <1>29 DEF AllreduceCombine, Minimum
<1>30. CASE ChildrenSendPort
  BY <1>30 DEF ChildrenSendPort
<1>31. CASE UNCHANGED vars
  BY <1>31 DEF vars
<1>. QED
  BY <1>1, <1>2, <1>3, <1>4, <1>5, <1>6, <1>7, <1>8, <1>9, <1>10, <1>11, <1>12, <1>13, <1>14, <1>15, <1>16,
     <1>17, <1>18, <1>19, <1>20, <1>21, <1>22, <1>23, <1>24, <1>25, <1>26, <1>27, <1>28, <1>29, <1>30, <1>31
  DEF Next, MasterStep, ThreadStep, OtherStep

\* A final state never runs ahead of the connections.
LEMMA FinalStep ==
  ASSUME TypeOK, ValuesOK, ToldOK, FinalOK, SingleOK, [Next]_vars
  PROVE  FinalOK'
<1>. USE SpawnAssumption DEF
       TypeOK, ValuesOK, ToldOK, FinalOK, Told, Modes, masterVars, threadVars,
       mpiVars, flagVars
<1>1. ASSUME NEW p \in Sources, InitSpawn(p) PROVE FinalOK'
  BY <1>1 DEF InitSpawn, Master, SetSpawnState, InitialState
<1>2. ASSUME NEW p \in Sources, CheckSpawnState(p) PROVE FinalOK'
  BY <1>2 DEF CheckSpawnState, Master, Return, Waits
<1>3. ASSUME NEW p \in Sources, WaitCompletion(p) PROVE FinalOK'
  BY <1>3 DEF WaitCompletion, Master
<1>4. ASSUME NEW p \in Sources, WokenCompletion(p) PROVE FinalOK'
  BY <1>4 DEF WokenCompletion, Master
<1>5. ASSUME NEW p \in Sources, RereadState(p) PROVE FinalOK'
  <2>1. CASE mlocal[p] = SPAWN_SINGLE_PENDING
    <3>1. mode = "single" /\ p \in Sources
      BY <2>1 DEF ModeValues
    <3>2. spawn_state[p] \in SpawnFinished => linked = Sources
      <4>1. mpc[p] = "reread"
        BY <1>5 DEF RereadState, Master
      <4>2. CASE p = Root
        <5>1. ~RootPast
          BY <2>1, <4>1, <4>2 DEF RootPast
        <5>2. ASSUME spawn_state[p] \in SpawnFinished PROVE linked = Sources
          <6>1. Root \in linked
            BY <4>2, <5>2 DEF FinalOK
          <6>2. Sources = {Root}
            BY <3>1, <5>1, <6>1 DEF SingleOK
          <6>. QED  BY <6>1, <6>2 DEF TypeOK
        <5>. QED  BY <5>2
      <4>3. CASE p # Root
        BY <1>5, <2>1, <3>1, <4>1, <4>3 DEF SingleOK
      <4>. QED  BY <4>2, <4>3
    <3>. QED  BY <1>5, <2>1, <3>2 DEF RereadState, Master
  <2>2. CASE mlocal[p] # SPAWN_SINGLE_PENDING
    BY <1>5, <2>2 DEF RereadState, Master
  <2>. QED  BY <2>1, <2>2
<1>6. ASSUME NEW p \in Sources, BcastSend(p) PROVE FinalOK'
  BY <1>6 DEF BcastSend, Master
<1>7. ASSUME NEW p \in Sources, BcastRecv(p) PROVE FinalOK'
  BY <1>7 DEF BcastRecv, Master
<1>8. ASSUME NEW p \in Sources, SingleApply(p) PROVE FinalOK'
  <2>1. CASE mlocal[p] = SPAWN_SINGLE_COMPLETED
    <3>1. CASE p = Root
      BY <1>8, <2>1, <3>1 DEF SingleApply, Return, SetSpawnState
    <3>2. CASE p # Root
      BY <1>8, <2>1, <3>2 DEF SingleApply, Return, SetSpawnState
    <3>. QED  BY <3>1, <3>2
  <2>2. CASE mlocal[p] # SPAWN_SINGLE_COMPLETED
    BY <1>8, <2>2 DEF SingleApply, Return, SetSpawnState
  <2>. QED  BY <2>1, <2>2
<1>9. ASSUME NEW p \in Sources, AllreduceEnter(p) PROVE FinalOK'
  BY <1>9 DEF AllreduceEnter, Master
<1>10. ASSUME NEW p \in Sources, AllreduceLeave(p) PROVE FinalOK'
  BY <1>10 DEF AllreduceLeave, Return, SetSpawnState
<1>11. ASSUME NEW p \in Sources, Redistribute(p) PROVE FinalOK'
  BY <1>11 DEF Redistribute, Master
<1>12. ASSUME NEW p \in Sources, UnsetRead(p) PROVE FinalOK'
  BY <1>12 DEF UnsetRead, Master
<1>13. ASSUME NEW p \in Sources, UnsetWrite(p) PROVE FinalOK'
  BY <1>13 DEF UnsetWrite, Master, SetSpawnState
<1>14. ASSUME NEW p \in Sources, UnsetWakeup(p) PROVE FinalOK'
  BY <1>14 DEF UnsetWakeup, Master
<1>15. ASSUME NEW p \in Sources, GenericSpawn(p) PROVE FinalOK'
  <2>1. CASE mode = "generic"
    <3>1. linked \subseteq linked' /\ p \in linked' /\ linked' \subseteq Sources
      BY <1>15, <2>1 DEF GenericSpawn
    <3>2. linked = Sources => linked' = Sources
      BY <3>1
    <3>3. /\ UNCHANGED <<spawn_state, mlocal, contrib, reduced, bcast, mpc, state>>
          /\ tlocal' = [tlocal EXCEPT ![p] = SPAWN_COMPLETED]
      BY <1>15, <2>1 DEF GenericSpawn
    <3>4. Told' # {} => linked' = Sources
      BY <3>2, <3>3 DEF Told, FinalOK
    <3>5. ASSUME NEW q \in Sources
          PROVE  tlocal'[q] = IF q = p THEN SPAWN_COMPLETED ELSE tlocal[q]
      BY <3>3, <3>5 DEF TypeOK
    <3>. QED  BY <3>1, <3>2, <3>3, <3>4, <3>5 DEF FinalOK
  <2>2. CASE mode = "shrink"
    BY <1>15, <2>2 DEF GenericSpawn, Thread
  <2>. QED  BY <1>15, <2>1, <2>2 DEF GenericSpawn
<1>16. ASSUME NEW p \in Sources, SingleConnect(p) PROVE FinalOK'
  BY <1>16 DEF SingleConnect, Thread, Collective
<1>17. ASSUME NEW p \in Sources, SingleSpawn(p) PROVE FinalOK'
  BY <1>17 DEF SingleSpawn, Thread
<1>18. ASSUME NEW p \in Sources, SingleRecvPort(p) PROVE FinalOK'
  BY <1>18 DEF SingleRecvPort, Thread
<1>19. ASSUME NEW p \in Sources, SingleSet(p) PROVE FinalOK'
  BY <1>19 DEF SingleSet, Thread, SetSpawnState
<1>20. ASSUME NEW p \in Sources, SingleWakeup(p) PROVE FinalOK'
  BY <1>20 DEF SingleWakeup, Thread, WakeupCompletion
<1>21. ASSUME NEW p \in Sources, ReadAux(p) PROVE FinalOK'
  BY <1>21 DEF ReadAux, Thread
<1>22. ASSUME NEW p \in Sources, WriteState(p) PROVE FinalOK'
  BY <1>22 DEF WriteState, Thread, SetSpawnState
<1>23. ASSUME NEW p \in Sources, AfterSpawn(p) PROVE FinalOK'
  BY <1>23 DEF AfterSpawn, Thread
<1>24. ASSUME NEW p \in Sources, WaitRedistribution(p) PROVE FinalOK'
  BY <1>24 DEF WaitRedistribution, Thread
<1>25. ASSUME NEW p \in Sources, WokenRedistribution(p) PROVE FinalOK'
  BY <1>25 DEF WokenRedistribution, Thread
<1>26. ASSUME NEW p \in Sources, ShrinkSplit(p) PROVE FinalOK'
  BY <1>26 DEF ShrinkSplit, Thread, Collective
<1>27. ASSUME NEW p \in Sources, ThreadEnd(p) PROVE FinalOK'
  BY <1>27 DEF ThreadEnd, Thread, WakeupCompletion
<1>28. ASSUME NEW p \in Sources, UseAfterFree(p) PROVE FinalOK'
  BY <1>28 DEF UseAfterFree
<1>29. CASE AllreduceCombine
  <2>1. PICK v \in InnerStates :
          Minimum(v, contrib) /\ reduced' = [p \in Sources |-> v]
    BY <1>29 DEF AllreduceCombine
  <2>2. v \in SpawnFinished => linked = Sources
    <3>1. SUFFICES ASSUME v \in SpawnFinished, NEW p \in Sources PROVE p \in linked
      OBVIOUS
    <3>2. contrib[p] \in SpawnFinished
      BY <2>1, <3>1 DEF Minimum, ModeValues
    <3>. QED  BY <3>2
  <2>. QED  BY <1>29, <2>1, <2>2 DEF AllreduceCombine
<1>30. CASE ChildrenSendPort
  BY <1>30 DEF ChildrenSendPort
<1>31. CASE UNCHANGED vars
  BY <1>31 DEF vars
<1>. QED
  BY <1>1, <1>2, <1>3, <1>4, <1>5, <1>6, <1>7, <1>8, <1>9, <1>10, <1>11, <1>12, <1>13, <1>14, <1>15, <1>16,
     <1>17, <1>18, <1>19, <1>20, <1>21, <1>22, <1>23, <1>24, <1>25, <1>26, <1>27, <1>28, <1>29, <1>30, <1>31
  DEF Next, MasterStep, ThreadStep, OtherStep

\* SINGLE: nobody joins before the root has announced the port.
LEMMA SingleStep ==
  ASSUME TypeOK, ValuesOK, ToldOK, FinalOK, SingleOK, [Next]_vars
  PROVE  SingleOK'
<1>. USE SpawnAssumption DEF
       TypeOK, ValuesOK, SingleOK, RootPast, RootHasPort, ModeValues, Modes,
       masterVars, threadVars, mpiVars, flagVars
<1>1. ASSUME NEW p \in Sources, InitSpawn(p) PROVE SingleOK'
  BY <1>1 DEF InitSpawn, Master, SetSpawnState, InitialState
<1>2. ASSUME NEW p \in Sources, CheckSpawnState(p) PROVE SingleOK'
  BY <1>2 DEF CheckSpawnState, Master, Return, Waits
<1>3. ASSUME NEW p \in Sources, WaitCompletion(p) PROVE SingleOK'
  BY <1>3 DEF WaitCompletion, Master
<1>4. ASSUME NEW p \in Sources, WokenCompletion(p) PROVE SingleOK'
  BY <1>4 DEF WokenCompletion, Master
<1>5. ASSUME NEW p \in Sources, RereadState(p) PROVE SingleOK'
  BY <1>5 DEF RereadState, Master
<1>6. ASSUME NEW p \in Sources, BcastSend(p) PROVE SingleOK'
  BY <1>6 DEF BcastSend, Master
<1>7. ASSUME NEW p \in Sources, BcastRecv(p) PROVE SingleOK'
  BY <1>7 DEF BcastRecv, Master
<1>8. ASSUME NEW p \in Sources, SingleApply(p) PROVE SingleOK'
  <2>1. CASE mlocal[p] = SPAWN_SINGLE_COMPLETED
    <3>1. CASE p = Root
      BY <1>8, <2>1, <3>1 DEF SingleApply, Return, SetSpawnState
    <3>2. CASE p # Root
      BY <1>8, <2>1, <3>2 DEF SingleApply, Return, SetSpawnState
    <3>. QED  BY <3>1, <3>2
  <2>2. CASE mlocal[p] # SPAWN_SINGLE_COMPLETED
    BY <1>8, <2>2 DEF SingleApply, Return, SetSpawnState
  <2>. QED  BY <2>1, <2>2
<1>9. ASSUME NEW p \in Sources, AllreduceEnter(p) PROVE SingleOK'
  BY <1>9 DEF AllreduceEnter, Master
<1>10. ASSUME NEW p \in Sources, AllreduceLeave(p) PROVE SingleOK'
  BY <1>10 DEF AllreduceLeave, Return, SetSpawnState
<1>11. ASSUME NEW p \in Sources, Redistribute(p) PROVE SingleOK'
  BY <1>11 DEF Redistribute, Master
<1>12. ASSUME NEW p \in Sources, UnsetRead(p) PROVE SingleOK'
  BY <1>12 DEF UnsetRead, Master
<1>13. ASSUME NEW p \in Sources, UnsetWrite(p) PROVE SingleOK'
  BY <1>13 DEF UnsetWrite, Master, SetSpawnState
<1>14. ASSUME NEW p \in Sources, UnsetWakeup(p) PROVE SingleOK'
  BY <1>14 DEF UnsetWakeup, Master
<1>15. ASSUME NEW p \in Sources, GenericSpawn(p) PROVE SingleOK'
  BY <1>15 DEF GenericSpawn, Thread, Collective
<1>16. ASSUME NEW p \in Sources, SingleConnect(p) PROVE SingleOK'
  BY <1>16 DEF SingleConnect, Thread, Collective
<1>17. ASSUME NEW p \in Sources, SingleSpawn(p) PROVE SingleOK'
  BY <1>17 DEF SingleSpawn, Thread
<1>18. ASSUME NEW p \in Sources, SingleRecvPort(p) PROVE SingleOK'
  BY <1>18 DEF SingleRecvPort, Thread
<1>19. ASSUME NEW p \in Sources, SingleSet(p) PROVE SingleOK'
  BY <1>19 DEF SingleSet, Thread, SetSpawnState
<1>20. ASSUME NEW p \in Sources, SingleWakeup(p) PROVE SingleOK'
  BY <1>20 DEF SingleWakeup, Thread, WakeupCompletion
<1>21. ASSUME NEW p \in Sources, ReadAux(p) PROVE SingleOK'
  BY <1>21 DEF ReadAux, Thread
<1>22. ASSUME NEW p \in Sources, WriteState(p) PROVE SingleOK'
  BY <1>22 DEF WriteState, Thread, SetSpawnState
<1>23. ASSUME NEW p \in Sources, AfterSpawn(p) PROVE SingleOK'
  BY <1>23 DEF AfterSpawn, Thread
<1>24. ASSUME NEW p \in Sources, WaitRedistribution(p) PROVE SingleOK'
  BY <1>24 DEF WaitRedistribution, Thread
<1>25. ASSUME NEW p \in Sources, WokenRedistribution(p) PROVE SingleOK'
  BY <1>25 DEF WokenRedistribution, Thread
<1>26. ASSUME NEW p \in Sources, ShrinkSplit(p) PROVE SingleOK'
  BY <1>26 DEF ShrinkSplit, Thread, Collective
<1>27. ASSUME NEW p \in Sources, ThreadEnd(p) PROVE SingleOK'
  BY <1>27 DEF ThreadEnd, Thread, WakeupCompletion
<1>28. ASSUME NEW p \in Sources, UseAfterFree(p) PROVE SingleOK'
  BY <1>28 DEF UseAfterFree
<1>29. CASE AllreduceCombine
  BY <1>29 DEF AllreduceCombine, Minimum
<1>30. CASE ChildrenSendPort
  BY <1>30 DEF ChildrenSendPort
<1>31. CASE UNCHANGED vars
  BY <1>31 DEF vars
<1>. QED
  BY <1>1, <1>2, <1>3, <1>4, <1>5, <1>6, <1>7, <1>8, <1>9, <1>10, <1>11, <1>12, <1>13, <1>14, <1>15, <1>16,
     <1>17, <1>18, <1>19, <1>20, <1>21, <1>22, <1>23, <1>24, <1>25, <1>26, <1>27, <1>28, <1>29, <1>30, <1>31
  DEF Next, MasterStep, ThreadStep, OtherStep

\* IInv holds of the initial states.
THEOREM InitInv == Init => IInv
<1>. USE SpawnAssumption DEF Init, Modes
<1>1. Init => TypeOK
  <2>1. SUFFICES ASSUME Init PROVE TypeOK
    OBVIOUS
  <2>2. /\ waiting_completion \in [Sources -> BOOLEAN]
        /\ freed \in [Sources -> BOOLEAN]
        /\ fault \in BOOLEAN
    BY <2>1
  <2>3. waiting_redistribution \in [Sources -> BOOLEAN]
    <3>1. waiting_redistribution = [p \in Sources |-> p \in stale]
      BY <2>1
    <3>2. ASSUME NEW p \in Sources PROVE (p \in stale) \in BOOLEAN
      OBVIOUS
    <3>. QED  BY Zenon, <3>1, <3>2
  <2>4. stale \subseteq Sources
    BY <2>1
  <2>. QED  BY <2>1, <2>2, <2>3, <2>4 DEF TypeOK, MasterPlaces, ThreadPlaces
<1>2. Init => ValuesOK
  BY DEF ValuesOK, ModeValues
<1>3. Init => ToldOK /\ CheckOK
  BY DEF ToldOK, CheckOK, Checkable
<1>4. Init => FinalOK
  BY DEF FinalOK, Told
<1>5. Init => SingleOK
  BY DEF SingleOK
<1>. QED  BY <1>1, <1>2, <1>3, <1>4, <1>5 DEF IInv

\* Every step of the masters, of the threads and of MPI preserves IInv.
THEOREM StepInv == IInv /\ [Next]_vars => IInv'
  BY TypeStep, ValuesStep, CheckStep, ToldStep, FinalStep, SingleStep DEF IInv

\* IInv is an invariant of the asynchronous spawn.
THEOREM Invariance == Spec => []IInv
<1>1. Init => IInv
  BY InitInv
<1>2. IInv /\ [Next]_vars => IInv'
  BY StepInv
<1>. QED  BY <1>1, <1>2, PTL DEF Spec

\* Every variable keeps its type.
THEOREM TypeCorrect == Spec => []TypeOK
<1>1. IInv => TypeOK
  BY DEF IInv
<1>. QED  BY <1>1, Invariance, PTL

\* check_spawn_state: a finished spawn is reported only when every source holds the new communicator.
THEOREM Connected == Spec => []CompletedMeansConnected
<1>1. IInv => CompletedMeansConnected
  BY DEF IInv, FinalOK, CompletedMeansConnected
<1>. QED  BY <1>1, Invariance, PTL

\* check_spawn_state never reaches its MPI_Abort.
THEOREM NoAbort == Spec => []NeverInvalid
<1>1. IInv => NeverInvalid
  BY DEF IInv, CheckOK, Checkable, NeverInvalid
<1>. QED  BY <1>1, Invariance, PTL

\* A step of the threads connects a source, a step of the masters tells one.
LEMMA RefineStep ==
  ASSUME IInv, IInv', [Next]_vars
  PROVE  [Abs!Next]_(Abs!vars)
<1>. USE SpawnAssumption DEF
       IInv, TypeOK, ToldOK, FinalOK, Told, Modes, Abs!Next, Abs!Connect, Abs!Tell,
       Abs!vars, masterVars, threadVars, mpiVars, flagVars
<1>1. ASSUME NEW p \in Sources, InitSpawn(p) PROVE [Abs!Next]_(Abs!vars)
  BY <1>1 DEF InitSpawn, Master, SetSpawnState, InitialState
<1>2. ASSUME NEW p \in Sources, CheckSpawnState(p) PROVE [Abs!Next]_(Abs!vars)
  BY <1>2 DEF CheckSpawnState, Master, Return, Waits
<1>3. ASSUME NEW p \in Sources, WaitCompletion(p) PROVE [Abs!Next]_(Abs!vars)
  BY <1>3 DEF WaitCompletion, Master
<1>4. ASSUME NEW p \in Sources, WokenCompletion(p) PROVE [Abs!Next]_(Abs!vars)
  BY <1>4 DEF WokenCompletion, Master
<1>5. ASSUME NEW p \in Sources, RereadState(p) PROVE [Abs!Next]_(Abs!vars)
  BY <1>5 DEF RereadState, Master
<1>6. ASSUME NEW p \in Sources, BcastSend(p) PROVE [Abs!Next]_(Abs!vars)
  BY <1>6 DEF BcastSend, Master
<1>7. ASSUME NEW p \in Sources, BcastRecv(p) PROVE [Abs!Next]_(Abs!vars)
  BY <1>7 DEF BcastRecv, Master
<1>8. ASSUME NEW p \in Sources, SingleApply(p) PROVE [Abs!Next]_(Abs!vars)
  <2>1. CASE mlocal[p] = SPAWN_SINGLE_COMPLETED
    <3>1. CASE p = Root
      BY <1>8, <2>1, <3>1 DEF SingleApply, Return, SetSpawnState
    <3>2. CASE p # Root
      BY <1>8, <2>1, <3>2 DEF SingleApply, Return, SetSpawnState
    <3>. QED  BY <3>1, <3>2
  <2>2. CASE mlocal[p] # SPAWN_SINGLE_COMPLETED
    BY <1>8, <2>2 DEF SingleApply, Return, SetSpawnState
  <2>. QED  BY <2>1, <2>2
<1>9. ASSUME NEW p \in Sources, AllreduceEnter(p) PROVE [Abs!Next]_(Abs!vars)
  BY <1>9 DEF AllreduceEnter, Master
<1>10. ASSUME NEW p \in Sources, AllreduceLeave(p) PROVE [Abs!Next]_(Abs!vars)
  BY <1>10 DEF AllreduceLeave, Return, SetSpawnState
<1>11. ASSUME NEW p \in Sources, Redistribute(p) PROVE [Abs!Next]_(Abs!vars)
  BY <1>11 DEF Redistribute, Master
<1>12. ASSUME NEW p \in Sources, UnsetRead(p) PROVE [Abs!Next]_(Abs!vars)
  BY <1>12 DEF UnsetRead, Master
<1>13. ASSUME NEW p \in Sources, UnsetWrite(p) PROVE [Abs!Next]_(Abs!vars)
  BY <1>13 DEF UnsetWrite, Master, SetSpawnState
<1>14. ASSUME NEW p \in Sources, UnsetWakeup(p) PROVE [Abs!Next]_(Abs!vars)
  BY <1>14 DEF UnsetWakeup, Master
<1>15. ASSUME NEW p \in Sources, GenericSpawn(p) PROVE [Abs!Next]_(Abs!vars)
  <2>1. Told' = Told
    BY <1>15 DEF GenericSpawn, Thread
  <2>2. linked' = linked \/ (p \notin linked /\ linked' = linked \cup {p})
    <3>1. CASE p \in linked
      <4>1. linked \cup {p} = linked
        BY <3>1
      <4>. QED  BY <1>15, <4>1 DEF GenericSpawn
    <3>2. CASE p \notin linked
      BY <1>15, <3>2 DEF GenericSpawn
    <3>. QED  BY <3>1, <3>2
  <2>. QED  BY <2>1, <2>2
<1>16. ASSUME NEW p \in Sources, SingleConnect(p) PROVE [Abs!Next]_(Abs!vars)
  BY <1>16 DEF SingleConnect, Thread, Collective
<1>17. ASSUME NEW p \in Sources, SingleSpawn(p) PROVE [Abs!Next]_(Abs!vars)
  BY <1>17 DEF SingleSpawn, Thread
<1>18. ASSUME NEW p \in Sources, SingleRecvPort(p) PROVE [Abs!Next]_(Abs!vars)
  BY <1>18 DEF SingleRecvPort, Thread
<1>19. ASSUME NEW p \in Sources, SingleSet(p) PROVE [Abs!Next]_(Abs!vars)
  BY <1>19 DEF SingleSet, Thread, SetSpawnState
<1>20. ASSUME NEW p \in Sources, SingleWakeup(p) PROVE [Abs!Next]_(Abs!vars)
  BY <1>20 DEF SingleWakeup, Thread, WakeupCompletion
<1>21. ASSUME NEW p \in Sources, ReadAux(p) PROVE [Abs!Next]_(Abs!vars)
  BY <1>21 DEF ReadAux, Thread
<1>22. ASSUME NEW p \in Sources, WriteState(p) PROVE [Abs!Next]_(Abs!vars)
  BY <1>22 DEF WriteState, Thread, SetSpawnState
<1>23. ASSUME NEW p \in Sources, AfterSpawn(p) PROVE [Abs!Next]_(Abs!vars)
  BY <1>23 DEF AfterSpawn, Thread
<1>24. ASSUME NEW p \in Sources, WaitRedistribution(p) PROVE [Abs!Next]_(Abs!vars)
  BY <1>24 DEF WaitRedistribution, Thread
<1>25. ASSUME NEW p \in Sources, WokenRedistribution(p) PROVE [Abs!Next]_(Abs!vars)
  BY <1>25 DEF WokenRedistribution, Thread
<1>26. ASSUME NEW p \in Sources, ShrinkSplit(p) PROVE [Abs!Next]_(Abs!vars)
  BY <1>26 DEF ShrinkSplit, Thread, Collective
<1>27. ASSUME NEW p \in Sources, ThreadEnd(p) PROVE [Abs!Next]_(Abs!vars)
  BY <1>27 DEF ThreadEnd, Thread, WakeupCompletion
<1>28. ASSUME NEW p \in Sources, UseAfterFree(p) PROVE [Abs!Next]_(Abs!vars)
  BY <1>28 DEF UseAfterFree
<1>29. CASE AllreduceCombine
  BY <1>29 DEF AllreduceCombine, Minimum
<1>30. CASE ChildrenSendPort
  BY <1>30 DEF ChildrenSendPort
<1>31. CASE UNCHANGED vars
  BY <1>31 DEF vars
<1>. QED
  BY <1>1, <1>2, <1>3, <1>4, <1>5, <1>6, <1>7, <1>8, <1>9, <1>10, <1>11, <1>12, <1>13, <1>14, <1>15, <1>16,
     <1>17, <1>18, <1>19, <1>20, <1>21, <1>22, <1>23, <1>24, <1>25, <1>26, <1>27, <1>28, <1>29, <1>30, <1>31
  DEF Next, MasterStep, ThreadStep, OtherStep

\* The asynchronous spawn implements GroupSpawn: the promise check_spawn_state makes to
\* MAM_Checkpoint, that a final answer comes after every connection and stands.
THEOREM Refinement == Spec => AbsSpec
<1>1. Init => Abs!Init
  BY SpawnAssumption DEF Init, Abs!Init, Told
<1>2. IInv /\ IInv' /\ [Next]_vars => [Abs!Next]_(Abs!vars)
  BY RefineStep
<1>. QED  BY <1>1, <1>2, Invariance, PTL DEF Spec, AbsSpec, Abs!Spec

-----------------------------------------------------------------------------
(* The sources of SINGLE join only once the port is known, the masters never *)
(* make different collective calls, and a shrink splits the group last.      *)

\* SINGLE: MPI_Recv returns after the children have sent their port, and it stays sent.
LEMMA PortStep ==
  ASSUME TypeOK, PortOK, [Next]_vars
  PROVE  PortOK'
<1>. USE SpawnAssumption DEF
       TypeOK, PortOK, Modes,
       masterVars, threadVars, mpiVars, flagVars
<1>1. ASSUME NEW p \in Sources, InitSpawn(p) PROVE PortOK'
  BY <1>1 DEF InitSpawn, Master, SetSpawnState, InitialState
<1>2. ASSUME NEW p \in Sources, CheckSpawnState(p) PROVE PortOK'
  BY <1>2 DEF CheckSpawnState, Master, Return, Waits
<1>3. ASSUME NEW p \in Sources, WaitCompletion(p) PROVE PortOK'
  BY <1>3 DEF WaitCompletion, Master
<1>4. ASSUME NEW p \in Sources, WokenCompletion(p) PROVE PortOK'
  BY <1>4 DEF WokenCompletion, Master
<1>5. ASSUME NEW p \in Sources, RereadState(p) PROVE PortOK'
  BY <1>5 DEF RereadState, Master
<1>6. ASSUME NEW p \in Sources, BcastSend(p) PROVE PortOK'
  BY <1>6 DEF BcastSend, Master
<1>7. ASSUME NEW p \in Sources, BcastRecv(p) PROVE PortOK'
  BY <1>7 DEF BcastRecv, Master
<1>8. ASSUME NEW p \in Sources, SingleApply(p) PROVE PortOK'
  <2>1. CASE mlocal[p] = SPAWN_SINGLE_COMPLETED
    <3>1. CASE p = Root
      BY <1>8, <2>1, <3>1 DEF SingleApply, Return, SetSpawnState
    <3>2. CASE p # Root
      BY <1>8, <2>1, <3>2 DEF SingleApply, Return, SetSpawnState
    <3>. QED  BY <3>1, <3>2
  <2>2. CASE mlocal[p] # SPAWN_SINGLE_COMPLETED
    BY <1>8, <2>2 DEF SingleApply, Return, SetSpawnState
  <2>. QED  BY <2>1, <2>2
<1>9. ASSUME NEW p \in Sources, AllreduceEnter(p) PROVE PortOK'
  BY <1>9 DEF AllreduceEnter, Master
<1>10. ASSUME NEW p \in Sources, AllreduceLeave(p) PROVE PortOK'
  BY <1>10 DEF AllreduceLeave, Return, SetSpawnState
<1>11. ASSUME NEW p \in Sources, Redistribute(p) PROVE PortOK'
  BY <1>11 DEF Redistribute, Master
<1>12. ASSUME NEW p \in Sources, UnsetRead(p) PROVE PortOK'
  BY <1>12 DEF UnsetRead, Master
<1>13. ASSUME NEW p \in Sources, UnsetWrite(p) PROVE PortOK'
  BY <1>13 DEF UnsetWrite, Master, SetSpawnState
<1>14. ASSUME NEW p \in Sources, UnsetWakeup(p) PROVE PortOK'
  BY <1>14 DEF UnsetWakeup, Master
<1>15. ASSUME NEW p \in Sources, GenericSpawn(p) PROVE PortOK'
  BY <1>15 DEF GenericSpawn, Thread, Collective
<1>16. ASSUME NEW p \in Sources, SingleConnect(p) PROVE PortOK'
  BY <1>16 DEF SingleConnect, Thread, Collective
<1>17. ASSUME NEW p \in Sources, SingleSpawn(p) PROVE PortOK'
  BY <1>17 DEF SingleSpawn, Thread
<1>18. ASSUME NEW p \in Sources, SingleRecvPort(p) PROVE PortOK'
  BY <1>18 DEF SingleRecvPort, Thread
<1>19. ASSUME NEW p \in Sources, SingleSet(p) PROVE PortOK'
  BY <1>19 DEF SingleSet, Thread, SetSpawnState
<1>20. ASSUME NEW p \in Sources, SingleWakeup(p) PROVE PortOK'
  BY <1>20 DEF SingleWakeup, Thread, WakeupCompletion
<1>21. ASSUME NEW p \in Sources, ReadAux(p) PROVE PortOK'
  BY <1>21 DEF ReadAux, Thread
<1>22. ASSUME NEW p \in Sources, WriteState(p) PROVE PortOK'
  BY <1>22 DEF WriteState, Thread, SetSpawnState
<1>23. ASSUME NEW p \in Sources, AfterSpawn(p) PROVE PortOK'
  BY <1>23 DEF AfterSpawn, Thread
<1>24. ASSUME NEW p \in Sources, WaitRedistribution(p) PROVE PortOK'
  BY <1>24 DEF WaitRedistribution, Thread
<1>25. ASSUME NEW p \in Sources, WokenRedistribution(p) PROVE PortOK'
  BY <1>25 DEF WokenRedistribution, Thread
<1>26. ASSUME NEW p \in Sources, ShrinkSplit(p) PROVE PortOK'
  BY <1>26 DEF ShrinkSplit, Thread, Collective
<1>27. ASSUME NEW p \in Sources, ThreadEnd(p) PROVE PortOK'
  BY <1>27 DEF ThreadEnd, Thread, WakeupCompletion
<1>28. ASSUME NEW p \in Sources, UseAfterFree(p) PROVE PortOK'
  BY <1>28 DEF UseAfterFree
<1>29. CASE AllreduceCombine
  BY <1>29 DEF AllreduceCombine, Minimum
<1>30. CASE ChildrenSendPort
  BY <1>30 DEF ChildrenSendPort
<1>31. CASE UNCHANGED vars
  BY <1>31 DEF vars
<1>. QED
  BY <1>1, <1>2, <1>3, <1>4, <1>5, <1>6, <1>7, <1>8, <1>9, <1>10, <1>11, <1>12, <1>13, <1>14, <1>15, <1>16,
     <1>17, <1>18, <1>19, <1>20, <1>21, <1>22, <1>23, <1>24, <1>25, <1>26, <1>27, <1>28, <1>29, <1>30, <1>31
  DEF Next, MasterStep, ThreadStep, OtherStep

\* The masters stay in the collectives of the phase that the whole group is in.
LEMMA MatchStep ==
  ASSUME IInv, MatchOK, [Next]_vars
  PROVE  MatchOK'
<1>. USE SpawnAssumption DEF
       IInv, TypeOK, ValuesOK, ModeValues, CheckOK, SingleOK, MatchOK, OtherMatches,
       RootMatches, Announced, RootPast, RootHasPort, SingleStates, JoinedStates, Modes,
       masterVars, threadVars, mpiVars, flagVars
<1>1. ASSUME NEW p \in Sources, InitSpawn(p) PROVE MatchOK'
  BY <1>1 DEF InitSpawn, Master, SetSpawnState, InitialState
<1>2. ASSUME NEW p \in Sources, CheckSpawnState(p) PROVE MatchOK'
  BY <1>2 DEF CheckSpawnState, Master, Return, Waits
<1>3. ASSUME NEW p \in Sources, WaitCompletion(p) PROVE MatchOK'
  BY <1>3 DEF WaitCompletion, Master
<1>4. ASSUME NEW p \in Sources, WokenCompletion(p) PROVE MatchOK'
  BY <1>4 DEF WokenCompletion, Master
<1>5. ASSUME NEW p \in Sources, RereadState(p) PROVE MatchOK'
  <2>1. CASE p = Root
    BY <1>5, <2>1 DEF RereadState, Master, Checkable
  <2>2. CASE p # Root
    BY <1>5, <2>2 DEF RereadState, Master
  <2>. QED  BY <2>1, <2>2
<1>6. ASSUME NEW p \in Sources, BcastSend(p) PROVE MatchOK'
  BY <1>6 DEF BcastSend, Master
<1>7. ASSUME NEW p \in Sources, BcastRecv(p) PROVE MatchOK'
  BY <1>7 DEF BcastRecv, Master
<1>8. ASSUME NEW p \in Sources, SingleApply(p) PROVE MatchOK'
  <2>1. CASE mlocal[p] = SPAWN_SINGLE_COMPLETED
    <3>1. CASE p = Root
      BY <1>8, <2>1, <3>1 DEF SingleApply, Return, SetSpawnState
    <3>2. CASE p # Root
      BY <1>8, <2>1, <3>2 DEF SingleApply, Return, SetSpawnState
    <3>. QED  BY <3>1, <3>2
  <2>2. CASE mlocal[p] # SPAWN_SINGLE_COMPLETED
    BY <1>8, <2>2 DEF SingleApply, Return, SetSpawnState
  <2>. QED  BY <2>1, <2>2
<1>9. ASSUME NEW p \in Sources, AllreduceEnter(p) PROVE MatchOK'
  BY <1>9 DEF AllreduceEnter, Master
<1>10. ASSUME NEW p \in Sources, AllreduceLeave(p) PROVE MatchOK'
  BY <1>10 DEF AllreduceLeave, Return, SetSpawnState
<1>11. ASSUME NEW p \in Sources, Redistribute(p) PROVE MatchOK'
  BY <1>11 DEF Redistribute, Master
<1>12. ASSUME NEW p \in Sources, UnsetRead(p) PROVE MatchOK'
  BY <1>12 DEF UnsetRead, Master
<1>13. ASSUME NEW p \in Sources, UnsetWrite(p) PROVE MatchOK'
  BY <1>13 DEF UnsetWrite, Master, SetSpawnState
<1>14. ASSUME NEW p \in Sources, UnsetWakeup(p) PROVE MatchOK'
  BY <1>14 DEF UnsetWakeup, Master
<1>15. ASSUME NEW p \in Sources, GenericSpawn(p) PROVE MatchOK'
  BY <1>15 DEF GenericSpawn, Thread, Collective
<1>16. ASSUME NEW p \in Sources, SingleConnect(p) PROVE MatchOK'
  BY <1>16 DEF SingleConnect, Thread, Collective
<1>17. ASSUME NEW p \in Sources, SingleSpawn(p) PROVE MatchOK'
  BY <1>17 DEF SingleSpawn, Thread
<1>18. ASSUME NEW p \in Sources, SingleRecvPort(p) PROVE MatchOK'
  BY <1>18 DEF SingleRecvPort, Thread
<1>19. ASSUME NEW p \in Sources, SingleSet(p) PROVE MatchOK'
  BY <1>19 DEF SingleSet, Thread, SetSpawnState
<1>20. ASSUME NEW p \in Sources, SingleWakeup(p) PROVE MatchOK'
  BY <1>20 DEF SingleWakeup, Thread, WakeupCompletion
<1>21. ASSUME NEW p \in Sources, ReadAux(p) PROVE MatchOK'
  BY <1>21 DEF ReadAux, Thread
<1>22. ASSUME NEW p \in Sources, WriteState(p) PROVE MatchOK'
  BY <1>22 DEF WriteState, Thread, SetSpawnState, FinalOK
<1>23. ASSUME NEW p \in Sources, AfterSpawn(p) PROVE MatchOK'
  BY <1>23 DEF AfterSpawn, Thread
<1>24. ASSUME NEW p \in Sources, WaitRedistribution(p) PROVE MatchOK'
  BY <1>24 DEF WaitRedistribution, Thread
<1>25. ASSUME NEW p \in Sources, WokenRedistribution(p) PROVE MatchOK'
  BY <1>25 DEF WokenRedistribution, Thread
<1>26. ASSUME NEW p \in Sources, ShrinkSplit(p) PROVE MatchOK'
  BY <1>26 DEF ShrinkSplit, Thread, Collective
<1>27. ASSUME NEW p \in Sources, ThreadEnd(p) PROVE MatchOK'
  BY <1>27 DEF ThreadEnd, Thread, WakeupCompletion
<1>28. ASSUME NEW p \in Sources, UseAfterFree(p) PROVE MatchOK'
  BY <1>28 DEF UseAfterFree
<1>29. CASE AllreduceCombine
  BY <1>29 DEF AllreduceCombine, Minimum
<1>30. CASE ChildrenSendPort
  BY <1>30 DEF ChildrenSendPort
<1>31. CASE UNCHANGED vars
  BY <1>31 DEF vars
<1>. QED
  BY <1>1, <1>2, <1>3, <1>4, <1>5, <1>6, <1>7, <1>8, <1>9, <1>10, <1>11, <1>12, <1>13, <1>14, <1>15, <1>16,
     <1>17, <1>18, <1>19, <1>20, <1>21, <1>22, <1>23, <1>24, <1>25, <1>26, <1>27, <1>28, <1>29, <1>30, <1>31
  DEF Next, MasterStep, ThreadStep, OtherStep

\* Merge shrink: a thread is let through by its master, after the redistribution.
LEMMA SplitStep ==
  ASSUME "shrink" \notin Spurious, TypeOK, ValuesOK, CheckOK, SplitOK, [Next]_vars
  PROVE  SplitOK'
<1>. USE SpawnAssumption DEF
       TypeOK, ValuesOK, ModeValues, CheckOK, SplitOK, Modes,
       masterVars, threadVars, mpiVars, flagVars
<1>1. ASSUME NEW p \in Sources, InitSpawn(p) PROVE SplitOK'
  BY <1>1 DEF InitSpawn, Master, SetSpawnState, InitialState
<1>2. ASSUME NEW p \in Sources, CheckSpawnState(p) PROVE SplitOK'
  BY <1>2 DEF CheckSpawnState, Master, Return, Waits
<1>3. ASSUME NEW p \in Sources, WaitCompletion(p) PROVE SplitOK'
  BY <1>3 DEF WaitCompletion, Master
<1>4. ASSUME NEW p \in Sources, WokenCompletion(p) PROVE SplitOK'
  BY <1>4 DEF WokenCompletion, Master
<1>5. ASSUME NEW p \in Sources, RereadState(p) PROVE SplitOK'
  BY <1>5 DEF RereadState, Master
<1>6. ASSUME NEW p \in Sources, BcastSend(p) PROVE SplitOK'
  BY <1>6 DEF BcastSend, Master
<1>7. ASSUME NEW p \in Sources, BcastRecv(p) PROVE SplitOK'
  BY <1>7 DEF BcastRecv, Master
<1>8. ASSUME NEW p \in Sources, SingleApply(p) PROVE SplitOK'
  <2>1. CASE mlocal[p] = SPAWN_SINGLE_COMPLETED
    <3>1. CASE p = Root
      BY <1>8, <2>1, <3>1 DEF SingleApply, Return, SetSpawnState
    <3>2. CASE p # Root
      BY <1>8, <2>1, <3>2 DEF SingleApply, Return, SetSpawnState
    <3>. QED  BY <3>1, <3>2
  <2>2. CASE mlocal[p] # SPAWN_SINGLE_COMPLETED
    BY <1>8, <2>2 DEF SingleApply, Return, SetSpawnState
  <2>. QED  BY <2>1, <2>2
<1>9. ASSUME NEW p \in Sources, AllreduceEnter(p) PROVE SplitOK'
  BY <1>9 DEF AllreduceEnter, Master
<1>10. ASSUME NEW p \in Sources, AllreduceLeave(p) PROVE SplitOK'
  BY <1>10 DEF AllreduceLeave, Return, SetSpawnState
<1>11. ASSUME NEW p \in Sources, Redistribute(p) PROVE SplitOK'
  BY <1>11 DEF Redistribute, Master
<1>12. ASSUME NEW p \in Sources, UnsetRead(p) PROVE SplitOK'
  BY <1>12 DEF UnsetRead, Master
<1>13. ASSUME NEW p \in Sources, UnsetWrite(p) PROVE SplitOK'
  BY <1>13 DEF UnsetWrite, Master, SetSpawnState
<1>14. ASSUME NEW p \in Sources, UnsetWakeup(p) PROVE SplitOK'
  BY <1>14 DEF UnsetWakeup, Master
<1>15. ASSUME NEW p \in Sources, GenericSpawn(p) PROVE SplitOK'
  BY <1>15 DEF GenericSpawn, Thread, Collective
<1>16. ASSUME NEW p \in Sources, SingleConnect(p) PROVE SplitOK'
  BY <1>16 DEF SingleConnect, Thread, Collective
<1>17. ASSUME NEW p \in Sources, SingleSpawn(p) PROVE SplitOK'
  BY <1>17 DEF SingleSpawn, Thread
<1>18. ASSUME NEW p \in Sources, SingleRecvPort(p) PROVE SplitOK'
  BY <1>18 DEF SingleRecvPort, Thread
<1>19. ASSUME NEW p \in Sources, SingleSet(p) PROVE SplitOK'
  BY <1>19 DEF SingleSet, Thread, SetSpawnState
<1>20. ASSUME NEW p \in Sources, SingleWakeup(p) PROVE SplitOK'
  BY <1>20 DEF SingleWakeup, Thread, WakeupCompletion
<1>21. ASSUME NEW p \in Sources, ReadAux(p) PROVE SplitOK'
  BY <1>21 DEF ReadAux, Thread
<1>22. ASSUME NEW p \in Sources, WriteState(p) PROVE SplitOK'
  BY <1>22 DEF WriteState, Thread, SetSpawnState
<1>23. ASSUME NEW p \in Sources, AfterSpawn(p) PROVE SplitOK'
  BY <1>23 DEF AfterSpawn, Thread
<1>24. ASSUME NEW p \in Sources, WaitRedistribution(p) PROVE SplitOK'
  BY <1>24 DEF WaitRedistribution, Thread
<1>25. ASSUME NEW p \in Sources, WokenRedistribution(p) PROVE SplitOK'
  BY <1>25 DEF WokenRedistribution, Thread
<1>26. ASSUME NEW p \in Sources, ShrinkSplit(p) PROVE SplitOK'
  BY <1>26 DEF ShrinkSplit, Thread, Collective
<1>27. ASSUME NEW p \in Sources, ThreadEnd(p) PROVE SplitOK'
  BY <1>27 DEF ThreadEnd, Thread, WakeupCompletion
<1>28. ASSUME NEW p \in Sources, UseAfterFree(p) PROVE SplitOK'
  BY <1>28 DEF UseAfterFree
<1>29. CASE AllreduceCombine
  BY <1>29 DEF AllreduceCombine, Minimum
<1>30. CASE ChildrenSendPort
  BY <1>30 DEF ChildrenSendPort
<1>31. CASE UNCHANGED vars
  BY <1>31 DEF vars
<1>. QED
  BY <1>1, <1>2, <1>3, <1>4, <1>5, <1>6, <1>7, <1>8, <1>9, <1>10, <1>11, <1>12, <1>13, <1>14, <1>15, <1>16,
     <1>17, <1>18, <1>19, <1>20, <1>21, <1>22, <1>23, <1>24, <1>25, <1>26, <1>27, <1>28, <1>29, <1>30, <1>31
  DEF Next, MasterStep, ThreadStep, OtherStep

\* The extended invariant, from the initial states on.
THEOREM MatchInvariance == Spec => [](PortOK /\ MatchOK)
<1>1. Init => PortOK /\ MatchOK
  BY SpawnAssumption DEF Init, PortOK, MatchOK, OtherMatches, RootMatches, RootPast,
     RootHasPort, Announced, SingleStates, JoinedStates
<1>2. IInv /\ PortOK /\ MatchOK /\ [Next]_vars => (PortOK /\ MatchOK)'
  BY PortStep, MatchStep DEF IInv
<1>. QED  BY <1>1, <1>2, Invariance, PTL DEF Spec

\* single_strat_parents: a source that did not spawn connects only to a port that exists.
THEOREM PortFirst == Spec => []JoinAfterPort
<1>1. IInv /\ PortOK => JoinAfterPort
  BY SpawnAssumption DEF IInv, SingleOK, PortOK, RootPast, RootHasPort, JoinAfterPort
<1>. QED  BY <1>1, Invariance, MatchInvariance, PTL

\* check_single_state and check_generic_state: no source is in MPI_Allreduce while another
\* waits in MPI_Bcast.
THEOREM SameCollective == Spec => []CollectivesMatch
<1>1. IInv /\ MatchOK => CollectivesMatch
  <2>1. SUFFICES ASSUME IInv, MatchOK, NEW p \in Sources, NEW q \in Sources,
                        InAllreduce(p), InBcast(q)
                 PROVE  FALSE
    BY DEF CollectivesMatch
  <2>2. mode = "single" /\ p # q
    BY <2>1 DEF MatchOK, InBcast, InAllreduce
  <2>3. RootPast
    BY <2>1, <2>2, SpawnAssumption
    DEF IInv, SingleOK, MatchOK, OtherMatches, RootMatches, InAllreduce
  <2>4. q # Root
    BY <2>1, <2>2, <2>3 DEF MatchOK, RootPast, InBcast
  <2>. QED  BY <2>1, <2>2, <2>3, <2>4 DEF MatchOK, OtherMatches, Announced, InBcast
<1>. QED  BY <1>1, Invariance, MatchInvariance, PTL

\* merge_adapt_shrink: without spurious wake-ups nobody splits the group before the sources whose
\* flag was clear have redistributed their data, whatever flags an earlier shrink left set.
THEOREM SplitLast ==
  ASSUME "shrink" \notin Spurious
  PROVE  Spec => []SplitAfterRedistribution
<1>1. Init => SplitOK
  <2>1. SUFFICES ASSUME Init PROVE SplitOK
    OBVIOUS
  <2>2. /\ linked = {}
        /\ \A p \in Sources : mpc[p] = "spawn_start" /\ tpc[p] = "none" /\ redist[p] = 0
    BY <2>1 DEF Init
  <2>3. ASSUME NEW p \in Sources, waiting_redistribution[p] PROVE p \in stale
    BY Zenon, <2>1, <2>3 DEF Init
  <2>. QED  BY <2>2, <2>3 DEF SplitOK
<1>2. IInv /\ SplitOK /\ [Next]_vars => SplitOK'
  BY SplitStep DEF IInv
<1>3. TypeOK /\ SplitOK => SplitAfterRedistribution
  <2>1. SUFFICES ASSUME TypeOK, SplitOK, mode = "shrink", linked # {}
                 PROVE  /\ \A q \in Sources \ stale : redist[q] > 0
                        /\ stale # Sources =>
                             \A q \in Sources : redist[q] > 0 \/ mpc[q] = "redistribute"
    BY DEF SplitAfterRedistribution
  <2>2. \A q \in Sources \ stale : redist[q] > 0
    BY <2>1 DEF SplitOK
  <2>3. ASSUME stale # Sources
        PROVE  \A q \in Sources : redist[q] > 0 \/ mpc[q] = "redistribute"
    <3>1. PICK q \in Sources : q \notin stale
      BY <2>1, <2>3 DEF TypeOK
    <3>2. redist[q] > 0
      BY <2>2, <3>1
    <3>. QED  BY <2>1, <3>2 DEF SplitOK
  <2>. QED  BY <2>2, <2>3
<1>4. IInv => TypeOK
  BY DEF IInv
<1>. QED  BY <1>1, <1>2, <1>3, <1>4, Invariance, PTL DEF Spec

\* Generic: the actions that neither move a master nor its calls keep WaitOK.
LEMMA WaitKept ==
  ASSUME WaitOK, UNCHANGED <<mode, mpc, mlocal, polls, contrib, reduced>>
  PROVE  WaitOK'
BY DEF WaitOK, Calls, Waits

\* Generic: every step keeps the sources in the same call, and who waits until it is finished.
LEMMA WaitStep ==
  ASSUME IInv, MatchOK, WaitOK, [Next]_vars
  PROVE  WaitOK'
<1>. USE SpawnAssumption DEF
       IInv, TypeOK, ValuesOK, ModeValues, CheckOK, Checkable, WaitOK, Calls, Waits, Modes,
       masterVars, threadVars, mpiVars, flagVars
<1>1. CASE mode # "generic"
  <2>1. mode' = mode
    BY <1>1 DEF Next, MasterStep, ThreadStep, OtherStep, vars, InitSpawn, CheckSpawnState, WaitCompletion,
       WokenCompletion, RereadState, BcastSend, BcastRecv, SingleApply, AllreduceEnter, AllreduceLeave,
       Redistribute, UnsetRead, UnsetWrite, UnsetWakeup, GenericSpawn, SingleConnect, SingleSpawn,
       SingleRecvPort, SingleSet, SingleWakeup, ReadAux, WriteState, AfterSpawn, WaitRedistribution,
       WokenRedistribution, ShrinkSplit, ThreadEnd, UseAfterFree, AllreduceCombine, ChildrenSendPort
  <2>. QED  BY <1>1, <2>1
<1>2. CASE mode = "generic"
  <2>. USE <1>2
  <2>1. ASSUME NEW p \in Sources, InitSpawn(p) PROVE WaitOK'
    BY <2>1 DEF InitSpawn, Master, SetSpawnState, InitialState
  <2>2. ASSUME NEW p \in Sources, CheckSpawnState(p) PROVE WaitOK'
    BY <2>2 DEF CheckSpawnState, Master, Return
  <2>3. ASSUME NEW p \in Sources, WaitCompletion(p) \/ WokenCompletion(p) PROVE WaitOK'
    BY <2>3 DEF WaitCompletion, WokenCompletion, Master
  <2>4. ASSUME NEW p \in Sources, RereadState(p) PROVE WaitOK'
    BY <2>4 DEF RereadState, Master
  <2>5. ASSUME NEW p \in Sources, AllreduceEnter(p) PROVE WaitOK'
    BY <2>5 DEF AllreduceEnter, Master
  <2>6. ASSUME NEW p \in Sources, AllreduceLeave(p) PROVE WaitOK'
    BY <2>6 DEF AllreduceLeave, Return, SetSpawnState
  <2>7. ASSUME NEW p \in Sources, ThreadEnd(p) \/ SingleWakeup(p) PROVE WaitOK'
    BY <2>7 DEF ThreadEnd, SingleWakeup, Thread, WakeupCompletion
  <2>8. CASE AllreduceCombine
    BY <2>8 DEF AllreduceCombine, Minimum
  <2>9. ASSUME NEW p \in Sources,
               BcastSend(p) \/ BcastRecv(p) \/ SingleApply(p) \/ Redistribute(p)
               \/ UnsetRead(p) \/ UnsetWrite(p) \/ UnsetWakeup(p)
        PROVE  WaitOK'
    BY <2>9 DEF BcastSend, BcastRecv, SingleApply, Redistribute, UnsetRead, UnsetWrite, UnsetWakeup, Master
  <2>10. ASSUME NEW p \in Sources,
                GenericSpawn(p) \/ SingleConnect(p) \/ SingleSpawn(p) \/ SingleRecvPort(p) \/ SingleSet(p)
         PROVE  WaitOK'
    BY <2>10, WaitKept DEF GenericSpawn, SingleConnect, SingleSpawn, SingleRecvPort, SingleSet
  <2>11. ASSUME NEW p \in Sources,
                ReadAux(p) \/ WriteState(p) \/ AfterSpawn(p) \/ WaitRedistribution(p)
                \/ WokenRedistribution(p) \/ ShrinkSplit(p) \/ UseAfterFree(p)
         PROVE  WaitOK'
    BY <2>11, WaitKept DEF ReadAux, WriteState, AfterSpawn, WaitRedistribution, WokenRedistribution,
       ShrinkSplit, UseAfterFree
  <2>12. CASE ChildrenSendPort \/ UNCHANGED vars
    BY <2>12, WaitKept DEF ChildrenSendPort, vars
  <2>. QED
    BY <2>1, <2>2, <2>3, <2>4, <2>5, <2>6, <2>7, <2>8, <2>9, <2>10, <2>11, <2>12
    DEF Next, MasterStep, ThreadStep, OtherStep
<1>. QED  BY <1>1, <1>2

\* check_generic_state: a call with MAM_WAIT_COMPLETION goes back to the application only
\* with the spawn finished.
THEOREM WaitsToTheEnd == Spec => WaitReturnsFinished
<1>1. Init => WaitOK
  BY SpawnAssumption DEF Init, WaitOK, Calls
<1>2. IInv /\ PortOK /\ MatchOK /\ WaitOK /\ [Next]_vars => WaitOK'
  BY WaitStep
<1> DEFINE Back == \A p \in Sources :
              mode = "generic" /\ Waits(p)
              /\ mpc[p] \notin {"spawn_start", "checkpoint"} /\ mpc'[p] = "checkpoint"
                => state'[p] \in SpawnFinished
<1>3. IInv /\ WaitOK /\ [Next]_vars => [Back]_vars
  <2>. SUFFICES ASSUME IInv, WaitOK, [Next]_vars, NEW p \in Sources, mode = "generic", Waits(p),
                       mpc[p] \notin {"spawn_start", "checkpoint"}, mpc'[p] = "checkpoint"
                PROVE  FALSE
    OBVIOUS
  <2>. USE SpawnAssumption DEF IInv, TypeOK, Modes, masterVars, threadVars, mpiVars, flagVars
  <2>1. ASSUME NEW q \in Sources, AllreduceLeave(q) PROVE FALSE
    BY <2>1 DEF AllreduceLeave, Return, WaitOK
  <2>2. ASSUME NEW q \in Sources, MasterStep(q), ~AllreduceLeave(q) PROVE FALSE
    BY <2>2 DEF MasterStep, InitSpawn, CheckSpawnState, Return, WaitCompletion, WokenCompletion, RereadState,
       BcastSend, BcastRecv, SingleApply, AllreduceEnter, Redistribute, UnsetRead, UnsetWrite, UnsetWakeup,
       Master, WaitOK
  <2>3. ASSUME NEW q \in Sources, ThreadStep(q) PROVE FALSE
    BY <2>3 DEF ThreadStep, GenericSpawn, SingleConnect, SingleSpawn, SingleRecvPort, SingleSet, SingleWakeup,
       ReadAux, WriteState, AfterSpawn, WaitRedistribution, WokenRedistribution, ShrinkSplit, ThreadEnd,
       UseAfterFree, WakeupCompletion
  <2>4. CASE OtherStep \/ UNCHANGED vars
    BY <2>4 DEF OtherStep, AllreduceCombine, ChildrenSendPort, vars
  <2>. QED  BY <2>1, <2>2, <2>3, <2>4 DEF Next
<1>. QED  BY <1>1, <1>2, <1>3, Invariance, MatchInvariance, PTL DEF Spec, WaitReturnsFinished

=============================================================================
