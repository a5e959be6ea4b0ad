---- MODULE RuntimeDrain_proofs ----
(***************************************************************************)
(* The order of RuntimeState's flags, for any number of requests, connects *)
(* and guilds.  FlagsInOrder is not inductive: that a task has set one     *)
(* flag before the next is known only from the place it has reached, which *)
(* is what PlacesInOrder says of every task that runs start_drain.         *)
(***************************************************************************)
EXTENDS RuntimeDrain, TLAPS

\* What a task's place tells of the flags it has set before.
PlaceInOrder(t) ==
  /\ pc[t] = "arm" => draining
  /\ pc[t] = "notify" /\ asks[t] # "start_drain" => whenEmpty
  /\ pc[t] \in {"force", "notify_again"} => whenEmpty

\* The shutdown task itself always runs start_drain(true), and its heartbeat
\* comes after it.
MainInOrder ==
  /\ asks[Main] = "shutdown_when_empty"
  /\ pc[Main] # "tick"
  /\ pc[Main] \in {"role", "upsert"} => whenEmpty

\* A connect knows its guild from when it starts until it is through.
ConnectsHaveGuild ==
  \A c \in Connects : pc[c] \in {"look", "insert", "joining"} => guild[c] \in Guilds

OrderInv ==
  /\ TypeOK
  /\ FlagsInOrder
  /\ \A t \in Services : PlaceInOrder(t)
  /\ MainInOrder
  /\ ConnectsHaveGuild

----
\* The tasks of one kind are none of another: what a connect or the heartbeat
\* does moves no task that runs start_drain.
LEMMA KindsApart ==
  /\ Main \in Services /\ Main \in Tasks /\ Main \in Writers
  /\ Heartbeat \in Tasks /\ Heartbeat \in Writers
  /\ Heartbeat \notin Services
  /\ \A r \in Requests : r \in Services /\ r \in Tasks /\ r \in Writers /\ r # Main
  /\ \A c \in Connects : c \in Tasks /\ c \notin Writers
  /\ Services \subseteq Writers /\ Writers \subseteq Tasks
  BY TaskAssumption DEF Main, Heartbeat, Services, Writers, Tasks

\* RuntimeState::new sets both flags or none, and no task has moved.
LEMMA InitOrder == Init => OrderInv
<1> SUFFICES ASSUME Init PROVE OrderInv
  OBVIOUS
<1> USE KindsApart
<1>1. TypeOK
  <2>1. Role \in {"active", "draining"}
    BY DEF Role
  <2>2. pc \in [Tasks -> Labels]
    BY DEF Init, Labels
  <2>3. asks \in [Services -> Methods] /\ read \in [Writers -> {"none", "active", "draining"}]
    BY <2>1 DEF Init, Methods
  <2>4. QED
    BY <2>1, <2>2, <2>3, StreamsAssumption DEF Init, TypeOK
<1>2. \A t \in Tasks : pc[t] \in {"check", "tick", "off"}
  BY DEF Init
<1>3. flags = {} \/ flags = {"draining", "shutdown_when_empty"}
  BY DEF Init
<1>4. FlagsInOrder
  BY <1>2, <1>3 DEF FlagsInOrder, Draining, DrainOver, ShardsDown, draining, whenEmpty, force
<1>5. (\A t \in Services : PlaceInOrder(t)) /\ MainInOrder /\ ConnectsHaveGuild
  BY <1>2 DEF Init, PlaceInOrder, MainInOrder, ConnectsHaveGuild
<1>6. QED
  BY <1>1, <1>4, <1>5 DEF OrderInv


\* Every step keeps the order: one step of the proof for each action.  The
\* stores of start_drain and force_shutdown are the only ones that change the
\* flags; every other task reads them and moves on.
LEMMA NextOrder == OrderInv /\ [Next]_vars => OrderInv'
<1> SUFFICES ASSUME OrderInv, [Next]_vars PROVE OrderInv'
  OBVIOUS
<1> USE KindsApart DEF OrderInv, wakeup, voice, grpc, Goto, Labels
<1> USE DEF draining, whenEmpty, force
<1>1. ASSUME NEW t \in Services, SwapDraining(t) PROVE OrderInv'
  <2>1. TypeOK'
    BY <1>1, StreamsAssumption DEF TypeOK, SwapDraining
  <2>2. FlagsInOrder' /\ MainInOrder'
    BY <1>1 DEF TypeOK, SwapDraining, MainInOrder, PlaceInOrder,
      FlagsInOrder, Draining, DrainOver, ShardsDown
  <2>3. (\A u \in Services : PlaceInOrder(u))'
    BY <1>1 DEF TypeOK, SwapDraining, MainInOrder, PlaceInOrder, FlagsInOrder
  <2>4. ConnectsHaveGuild'
    BY <1>1 DEF TypeOK, SwapDraining, ConnectsHaveGuild
  <2>5. QED
    BY <2>1, <2>2, <2>3, <2>4
<1>2. ASSUME NEW t \in Services, Arm(t) PROVE OrderInv'
  <2>1. TypeOK'
    BY <1>2, StreamsAssumption DEF TypeOK, Arm
  <2>2. FlagsInOrder' /\ MainInOrder'
    BY <1>2 DEF TypeOK, Arm, MainInOrder, PlaceInOrder,
      FlagsInOrder, Draining, DrainOver, ShardsDown
  <2>3. (\A u \in Services : PlaceInOrder(u))'
    BY <1>2 DEF TypeOK, Arm, MainInOrder, PlaceInOrder, FlagsInOrder
  <2>4. ConnectsHaveGuild'
    BY <1>2 DEF TypeOK, Arm, ConnectsHaveGuild
  <2>5. QED
    BY <2>1, <2>2, <2>3, <2>4
<1>3. ASSUME NEW t \in Services, NotifyWaiters(t) PROVE OrderInv'
  <2>1. TypeOK'
    BY <1>3, StreamsAssumption DEF TypeOK, NotifyWaiters, WakeWaiter
  <2>2. FlagsInOrder' /\ MainInOrder'
    BY <1>3 DEF TypeOK, NotifyWaiters, WakeWaiter, MainInOrder, PlaceInOrder,
      FlagsInOrder, Draining, DrainOver, ShardsDown
  <2>3. (\A u \in Services : PlaceInOrder(u))'
    BY <1>3 DEF TypeOK, NotifyWaiters, WakeWaiter, MainInOrder, PlaceInOrder, FlagsInOrder
  <2>4. ConnectsHaveGuild'
    BY <1>3 DEF TypeOK, NotifyWaiters, WakeWaiter, ConnectsHaveGuild
  <2>5. QED
    BY <2>1, <2>2, <2>3, <2>4
<1>4. ASSUME NEW t \in Services, SetForce(t) PROVE OrderInv'
  <2>1. TypeOK'
    BY <1>4, StreamsAssumption DEF TypeOK, SetForce
  <2>2. FlagsInOrder' /\ MainInOrder'
    BY <1>4 DEF TypeOK, SetForce, MainInOrder, PlaceInOrder,
      FlagsInOrder, Draining, DrainOver, ShardsDown
  <2>3. (\A u \in Services : PlaceInOrder(u))'
    BY <1>4 DEF TypeOK, SetForce, MainInOrder, PlaceInOrder, FlagsInOrder
  <2>4. ConnectsHaveGuild'
    BY <1>4 DEF TypeOK, SetForce, ConnectsHaveGuild
  <2>5. QED
    BY <2>1, <2>2, <2>3, <2>4
<1>5. ASSUME NEW t \in Services, NotifyAgain(t) PROVE OrderInv'
  <2>1. TypeOK'
    BY <1>5, StreamsAssumption DEF TypeOK, NotifyAgain, WakeWaiter
  <2>2. FlagsInOrder' /\ MainInOrder'
    BY <1>5 DEF TypeOK, NotifyAgain, WakeWaiter, MainInOrder, PlaceInOrder,
      FlagsInOrder, Draining, DrainOver, ShardsDown
  <2>3. (\A u \in Services : PlaceInOrder(u))'
    BY <1>5 DEF TypeOK, NotifyAgain, WakeWaiter, MainInOrder, PlaceInOrder, FlagsInOrder
  <2>4. ConnectsHaveGuild'
    BY <1>5 DEF TypeOK, NotifyAgain, WakeWaiter, ConnectsHaveGuild
  <2>5. QED
    BY <2>1, <2>2, <2>3, <2>4
<1>6. ASSUME NEW t \in Writers, ReadRole(t) PROVE OrderInv'
  <2>1. TypeOK'
    BY <1>6, StreamsAssumption DEF TypeOK, ReadRole, Role
  <2>2. FlagsInOrder' /\ MainInOrder'
    BY <1>6 DEF TypeOK, ReadRole, Role, MainInOrder, PlaceInOrder,
      FlagsInOrder, Draining, DrainOver, ShardsDown
  <2>3. (\A u \in Services : PlaceInOrder(u))'
    BY <1>6 DEF TypeOK, ReadRole, Role, MainInOrder, PlaceInOrder, FlagsInOrder
  <2>4. ConnectsHaveGuild'
    BY <1>6 DEF TypeOK, ReadRole, Role, ConnectsHaveGuild
  <2>5. QED
    BY <2>1, <2>2, <2>3, <2>4
<1>7. ASSUME NEW t \in Writers, Upsert(t) PROVE OrderInv'
  <2>1. TypeOK'
    BY <1>7, StreamsAssumption DEF TypeOK, Upsert, After
  <2>2. FlagsInOrder' /\ MainInOrder'
    BY <1>7 DEF TypeOK, Upsert, After, MainInOrder, PlaceInOrder,
      FlagsInOrder, Draining, DrainOver, ShardsDown
  <2>3. (\A u \in Services : PlaceInOrder(u))'
    BY <1>7 DEF TypeOK, Upsert, After, MainInOrder, PlaceInOrder, FlagsInOrder
  <2>4. ConnectsHaveGuild'
    BY <1>7 DEF TypeOK, Upsert, After, ConnectsHaveGuild
  <2>5. QED
    BY <2>1, <2>2, <2>3, <2>4
<1>8. ASSUME CheckArmed PROVE OrderInv'
  <2>1. TypeOK'
    BY <1>8, StreamsAssumption DEF TypeOK, CheckArmed
  <2>2. FlagsInOrder' /\ MainInOrder'
    BY <1>8 DEF TypeOK, CheckArmed, MainInOrder, PlaceInOrder,
      FlagsInOrder, Draining, DrainOver, ShardsDown
  <2>3. (\A u \in Services : PlaceInOrder(u))'
    BY <1>8 DEF TypeOK, CheckArmed, MainInOrder, PlaceInOrder, FlagsInOrder
  <2>4. ConnectsHaveGuild'
    BY <1>8 DEF TypeOK, CheckArmed, ConnectsHaveGuild
  <2>5. QED
    BY <2>1, <2>2, <2>3, <2>4
<1>9. ASSUME RegisterWaiter PROVE OrderInv'
  <2>1. TypeOK'
    BY <1>9, StreamsAssumption DEF TypeOK, RegisterWaiter
  <2>2. FlagsInOrder' /\ MainInOrder'
    BY <1>9 DEF TypeOK, RegisterWaiter, MainInOrder, PlaceInOrder,
      FlagsInOrder, Draining, DrainOver, ShardsDown
  <2>3. (\A u \in Services : PlaceInOrder(u))'
    BY <1>9 DEF TypeOK, RegisterWaiter, MainInOrder, PlaceInOrder, FlagsInOrder
  <2>4. ConnectsHaveGuild'
    BY <1>9 DEF TypeOK, RegisterWaiter, ConnectsHaveGuild
  <2>5. QED
    BY <2>1, <2>2, <2>3, <2>4
<1>10. ASSUME Notified PROVE OrderInv'
  <2>1. TypeOK'
    BY <1>10, StreamsAssumption DEF TypeOK, Notified
  <2>2. FlagsInOrder' /\ MainInOrder'
    BY <1>10 DEF TypeOK, Notified, MainInOrder, PlaceInOrder,
      FlagsInOrder, Draining, DrainOver, ShardsDown
  <2>3. (\A u \in Services : PlaceInOrder(u))'
    BY <1>10 DEF TypeOK, Notified, MainInOrder, PlaceInOrder, FlagsInOrder
  <2>4. ConnectsHaveGuild'
    BY <1>10 DEF TypeOK, Notified, ConnectsHaveGuild
  <2>5. QED
    BY <2>1, <2>2, <2>3, <2>4
<1>11. ASSUME SignalTaken PROVE OrderInv'
  <2>1. TypeOK'
    BY <1>11, StreamsAssumption DEF TypeOK, SignalTaken
  <2>2. FlagsInOrder' /\ MainInOrder'
    BY <1>11 DEF TypeOK, SignalTaken, MainInOrder, PlaceInOrder,
      FlagsInOrder, Draining, DrainOver, ShardsDown
  <2>3. (\A u \in Services : PlaceInOrder(u))'
    BY <1>11 DEF TypeOK, SignalTaken, MainInOrder, PlaceInOrder, FlagsInOrder
  <2>4. ConnectsHaveGuild'
    BY <1>11 DEF TypeOK, SignalTaken, ConnectsHaveGuild
  <2>5. QED
    BY <2>1, <2>2, <2>3, <2>4
<1>12. ASSUME RecheckArmed PROVE OrderInv'
  <2>1. TypeOK'
    BY <1>12, StreamsAssumption DEF TypeOK, RecheckArmed
  <2>2. FlagsInOrder' /\ MainInOrder'
    BY <1>12 DEF TypeOK, RecheckArmed, MainInOrder, PlaceInOrder,
      FlagsInOrder, Draining, DrainOver, ShardsDown
  <2>3. (\A u \in Services : PlaceInOrder(u))'
    BY <1>12 DEF TypeOK, RecheckArmed, MainInOrder, PlaceInOrder, FlagsInOrder
  <2>4. ConnectsHaveGuild'
    BY <1>12 DEF TypeOK, RecheckArmed, ConnectsHaveGuild
  <2>5. QED
    BY <2>1, <2>2, <2>3, <2>4
<1>13. ASSUME PollForce PROVE OrderInv'
  <2>1. TypeOK'
    BY <1>13, StreamsAssumption DEF TypeOK, PollForce
  <2>2. FlagsInOrder' /\ MainInOrder'
    BY <1>13 DEF TypeOK, PollForce, MainInOrder, PlaceInOrder,
      FlagsInOrder, Draining, DrainOver, ShardsDown
  <2>3. (\A u \in Services : PlaceInOrder(u))'
    BY <1>13 DEF TypeOK, PollForce, MainInOrder, PlaceInOrder, FlagsInOrder
  <2>4. ConnectsHaveGuild'
    BY <1>13 DEF TypeOK, PollForce, ConnectsHaveGuild
  <2>5. QED
    BY <2>1, <2>2, <2>3, <2>4
<1>14. ASSUME CountCalls PROVE OrderInv'
  <2>1. TypeOK'
    BY <1>14, StreamsAssumption DEF TypeOK, CountCalls
  <2>2. FlagsInOrder' /\ MainInOrder'
    BY <1>14 DEF TypeOK, CountCalls, MainInOrder, PlaceInOrder,
      FlagsInOrder, Draining, DrainOver, ShardsDown
  <2>3. (\A u \in Services : PlaceInOrder(u))'
    BY <1>14 DEF TypeOK, CountCalls, MainInOrder, PlaceInOrder, FlagsInOrder
  <2>4. ConnectsHaveGuild'
    BY <1>14 DEF TypeOK, CountCalls, ConnectsHaveGuild
  <2>5. QED
    BY <2>1, <2>2, <2>3, <2>4
<1>15. ASSUME SleepEnds PROVE OrderInv'
  <2>1. TypeOK'
    BY <1>15, StreamsAssumption DEF TypeOK, SleepEnds
  <2>2. FlagsInOrder' /\ MainInOrder'
    BY <1>15 DEF TypeOK, SleepEnds, MainInOrder, PlaceInOrder,
      FlagsInOrder, Draining, DrainOver, ShardsDown
  <2>3. (\A u \in Services : PlaceInOrder(u))'
    BY <1>15 DEF TypeOK, SleepEnds, MainInOrder, PlaceInOrder, FlagsInOrder
  <2>4. ConnectsHaveGuild'
    BY <1>15 DEF TypeOK, SleepEnds, ConnectsHaveGuild
  <2>5. QED
    BY <2>1, <2>2, <2>3, <2>4
<1>16. ASSUME StopShards PROVE OrderInv'
  <2>1. TypeOK'
    BY <1>16, StreamsAssumption DEF TypeOK, StopShards
  <2>2. FlagsInOrder' /\ MainInOrder'
    BY <1>16 DEF TypeOK, StopShards, MainInOrder, PlaceInOrder,
      FlagsInOrder, Draining, DrainOver, ShardsDown
  <2>3. (\A u \in Services : PlaceInOrder(u))'
    BY <1>16 DEF TypeOK, StopShards, MainInOrder, PlaceInOrder, FlagsInOrder
  <2>4. ConnectsHaveGuild'
    BY <1>16 DEF TypeOK, StopShards, ConnectsHaveGuild
  <2>5. QED
    BY <2>1, <2>2, <2>3, <2>4
<1>17. ASSUME TellServer PROVE OrderInv'
  <2>1. TypeOK'
    BY <1>17, StreamsAssumption DEF TypeOK, TellServer
  <2>2. FlagsInOrder' /\ MainInOrder'
    BY <1>17 DEF TypeOK, TellServer, MainInOrder, PlaceInOrder,
      FlagsInOrder, Draining, DrainOver, ShardsDown
  <2>3. (\A u \in Services : PlaceInOrder(u))'
    BY <1>17 DEF TypeOK, TellServer, MainInOrder, PlaceInOrder, FlagsInOrder
  <2>4. ConnectsHaveGuild'
    BY <1>17 DEF TypeOK, TellServer, ConnectsHaveGuild
  <2>5. QED
    BY <2>1, <2>2, <2>3, <2>4
<1>18. ASSUME JoinServer PROVE OrderInv'
  <2>1. TypeOK'
    BY <1>18, StreamsAssumption DEF TypeOK, JoinServer
  <2>2. FlagsInOrder' /\ MainInOrder'
    BY <1>18 DEF TypeOK, JoinServer, MainInOrder, PlaceInOrder,
      FlagsInOrder, Draining, DrainOver, ShardsDown
  <2>3. (\A u \in Services : PlaceInOrder(u))'
    BY <1>18 DEF TypeOK, JoinServer, MainInOrder, PlaceInOrder, FlagsInOrder
  <2>4. ConnectsHaveGuild'
    BY <1>18 DEF TypeOK, JoinServer, ConnectsHaveGuild
  <2>5. QED
    BY <2>1, <2>2, <2>3, <2>4
<1>19. ASSUME MarkStopped PROVE OrderInv'
  <2>1. TypeOK'
    BY <1>19, StreamsAssumption DEF TypeOK, MarkStopped
  <2>2. FlagsInOrder' /\ MainInOrder'
    BY <1>19 DEF TypeOK, MarkStopped, MainInOrder, PlaceInOrder,
      FlagsInOrder, Draining, DrainOver, ShardsDown
  <2>3. (\A u \in Services : PlaceInOrder(u))'
    BY <1>19 DEF TypeOK, MarkStopped, MainInOrder, PlaceInOrder, FlagsInOrder
  <2>4. ConnectsHaveGuild'
    BY <1>19 DEF TypeOK, MarkStopped, ConnectsHaveGuild
  <2>5. QED
    BY <2>1, <2>2, <2>3, <2>4
<1>20. ASSUME Exit PROVE OrderInv'
  <2>1. TypeOK'
    BY <1>20, StreamsAssumption DEF TypeOK, Exit
  <2>2. FlagsInOrder' /\ MainInOrder'
    BY <1>20 DEF TypeOK, Exit, MainInOrder, PlaceInOrder,
      FlagsInOrder, Draining, DrainOver, ShardsDown
  <2>3. (\A u \in Services : PlaceInOrder(u))'
    BY <1>20 DEF TypeOK, Exit, MainInOrder, PlaceInOrder, FlagsInOrder
  <2>4. ConnectsHaveGuild'
    BY <1>20 DEF TypeOK, Exit, ConnectsHaveGuild
  <2>5. QED
    BY <2>1, <2>2, <2>3, <2>4
<1>21. ASSUME NEW c \in Connects, LookDraining(c) PROVE OrderInv'
  <2>1. TypeOK'
    BY <1>21, StreamsAssumption DEF TypeOK, LookDraining
  <2>2. FlagsInOrder' /\ MainInOrder'
    BY <1>21 DEF TypeOK, LookDraining, MainInOrder, PlaceInOrder,
      FlagsInOrder, Draining, DrainOver, ShardsDown
  <2>3. (\A u \in Services : PlaceInOrder(u))'
    BY <1>21 DEF TypeOK, LookDraining, MainInOrder, PlaceInOrder, FlagsInOrder
  <2>4. ConnectsHaveGuild'
    BY <1>21 DEF TypeOK, LookDraining, ConnectsHaveGuild
  <2>5. QED
    BY <2>1, <2>2, <2>3, <2>4
<1>22. ASSUME NEW c \in Connects, OwnedElsewhere(c) PROVE OrderInv'
  <2>1. TypeOK'
    BY <1>22, StreamsAssumption DEF TypeOK, OwnedElsewhere
  <2>2. FlagsInOrder' /\ MainInOrder'
    BY <1>22 DEF TypeOK, OwnedElsewhere, MainInOrder, PlaceInOrder,
      FlagsInOrder, Draining, DrainOver, ShardsDown
  <2>3. (\A u \in Services : PlaceInOrder(u))'
    BY <1>22 DEF TypeOK, OwnedElsewhere, MainInOrder, PlaceInOrder, FlagsInOrder
  <2>4. ConnectsHaveGuild'
    BY <1>22 DEF TypeOK, OwnedElsewhere, ConnectsHaveGuild
  <2>5. QED
    BY <2>1, <2>2, <2>3, <2>4
<1>23. ASSUME NEW c \in Connects, InsertCall(c) PROVE OrderInv'
  <2>1. TypeOK'
    BY <1>23, StreamsAssumption DEF TypeOK, InsertCall, ConnectsHaveGuild
  <2>2. FlagsInOrder' /\ MainInOrder'
    BY <1>23 DEF TypeOK, InsertCall, MainInOrder, PlaceInOrder,
      FlagsInOrder, Draining, DrainOver, ShardsDown
  <2>3. (\A u \in Services : PlaceInOrder(u))'
    BY <1>23 DEF TypeOK, InsertCall, MainInOrder, PlaceInOrder, FlagsInOrder
  <2>4. ConnectsHaveGuild'
    BY <1>23 DEF TypeOK, InsertCall, ConnectsHaveGuild
  <2>5. QED
    BY <2>1, <2>2, <2>3, <2>4
<1>24. ASSUME NEW c \in Connects, JoinEnds(c) PROVE OrderInv'
  <2>1. TypeOK'
    BY <1>24, StreamsAssumption DEF TypeOK, JoinEnds
  <2>2. FlagsInOrder' /\ MainInOrder'
    BY <1>24 DEF TypeOK, JoinEnds, MainInOrder, PlaceInOrder,
      FlagsInOrder, Draining, DrainOver, ShardsDown
  <2>3. (\A u \in Services : PlaceInOrder(u))'
    BY <1>24 DEF TypeOK, JoinEnds, MainInOrder, PlaceInOrder, FlagsInOrder
  <2>4. ConnectsHaveGuild'
    BY <1>24 DEF TypeOK, JoinEnds, ConnectsHaveGuild
  <2>5. QED
    BY <2>1, <2>2, <2>3, <2>4
<1>25. ASSUME NEW r \in Requests, NEW m \in Methods, Arrive(r, m) PROVE OrderInv'
  <2>1. TypeOK'
    BY <1>25, StreamsAssumption DEF TypeOK, Arrive, Methods
  <2>2. FlagsInOrder' /\ MainInOrder'
    BY <1>25 DEF TypeOK, Arrive, MainInOrder, PlaceInOrder,
      FlagsInOrder, Draining, DrainOver, ShardsDown
  <2>3. (\A u \in Services : PlaceInOrder(u))'
    BY <1>25 DEF TypeOK, Arrive, MainInOrder, PlaceInOrder, FlagsInOrder
  <2>4. ConnectsHaveGuild'
    BY <1>25 DEF TypeOK, Arrive, ConnectsHaveGuild
  <2>5. QED
    BY <2>1, <2>2, <2>3, <2>4
<1>26. ASSUME NEW c \in Connects, NEW g \in Guilds, StartConnect(c, g) PROVE OrderInv'
  <2>1. TypeOK'
    BY <1>26, StreamsAssumption DEF TypeOK, StartConnect
  <2>2. FlagsInOrder' /\ MainInOrder'
    BY <1>26 DEF TypeOK, StartConnect, MainInOrder, PlaceInOrder,
      FlagsInOrder, Draining, DrainOver, ShardsDown
  <2>3. (\A u \in Services : PlaceInOrder(u))'
    BY <1>26 DEF TypeOK, StartConnect, MainInOrder, PlaceInOrder, FlagsInOrder
  <2>4. ConnectsHaveGuild'
    BY <1>26 DEF TypeOK, StartConnect, ConnectsHaveGuild
  <2>5. QED
    BY <2>1, <2>2, <2>3, <2>4
<1>27. ASSUME NEW g \in Guilds, Leave(g) PROVE OrderInv'
  <2>1. TypeOK'
    BY <1>27, StreamsAssumption DEF TypeOK, Leave
  <2>2. FlagsInOrder' /\ MainInOrder'
    BY <1>27 DEF TypeOK, Leave, MainInOrder, PlaceInOrder,
      FlagsInOrder, Draining, DrainOver, ShardsDown
  <2>3. (\A u \in Services : PlaceInOrder(u))'
    BY <1>27 DEF TypeOK, Leave, MainInOrder, PlaceInOrder, FlagsInOrder
  <2>4. ConnectsHaveGuild'
    BY <1>27 DEF TypeOK, Leave, ConnectsHaveGuild
  <2>5. QED
    BY <2>1, <2>2, <2>3, <2>4
<1>28. ASSUME Signal PROVE OrderInv'
  <2>1. TypeOK'
    BY <1>28, StreamsAssumption DEF TypeOK, Signal
  <2>2. FlagsInOrder' /\ MainInOrder'
    BY <1>28 DEF TypeOK, Signal, MainInOrder, PlaceInOrder,
      FlagsInOrder, Draining, DrainOver, ShardsDown
  <2>3. (\A u \in Services : PlaceInOrder(u))'
    BY <1>28 DEF TypeOK, Signal, MainInOrder, PlaceInOrder, FlagsInOrder
  <2>4. ConnectsHaveGuild'
    BY <1>28 DEF TypeOK, Signal, ConnectsHaveGuild
  <2>5. QED
    BY <2>1, <2>2, <2>3, <2>4
<1>29. ASSUME DeadlinePasses PROVE OrderInv'
  <2>1. TypeOK'
    BY <1>29, StreamsAssumption DEF TypeOK, DeadlinePasses
  <2>2. FlagsInOrder' /\ MainInOrder'
    BY <1>29 DEF TypeOK, DeadlinePasses, MainInOrder, PlaceInOrder,
      FlagsInOrder, Draining, DrainOver, ShardsDown
  <2>3. (\A u \in Services : PlaceInOrder(u))'
    BY <1>29 DEF TypeOK, DeadlinePasses, MainInOrder, PlaceInOrder, FlagsInOrder
  <2>4. ConnectsHaveGuild'
    BY <1>29 DEF TypeOK, DeadlinePasses, ConnectsHaveGuild
  <2>5. QED
    BY <2>1, <2>2, <2>3, <2>4
<1>30. ASSUME OpenStream PROVE OrderInv'
  <2>1. TypeOK'
    BY <1>30, StreamsAssumption DEF TypeOK, OpenStream
  <2>2. FlagsInOrder' /\ MainInOrder'
    BY <1>30 DEF TypeOK, OpenStream, MainInOrder, PlaceInOrder,
      FlagsInOrder, Draining, DrainOver, ShardsDown
  <2>3. (\A u \in Services : PlaceInOrder(u))'
    BY <1>30 DEF TypeOK, OpenStream, MainInOrder, PlaceInOrder, FlagsInOrder
  <2>4. ConnectsHaveGuild'
    BY <1>30 DEF TypeOK, OpenStream, ConnectsHaveGuild
  <2>5. QED
    BY <2>1, <2>2, <2>3, <2>4
<1>31. ASSUME CloseStream PROVE OrderInv'
  <2>1. TypeOK'
    BY <1>31, StreamsAssumption DEF TypeOK, CloseStream
  <2>2. FlagsInOrder' /\ MainInOrder'
    BY <1>31 DEF TypeOK, CloseStream, MainInOrder, PlaceInOrder,
      FlagsInOrder, Draining, DrainOver, ShardsDown
  <2>3. (\A u \in Services : PlaceInOrder(u))'
    BY <1>31 DEF TypeOK, CloseStream, MainInOrder, PlaceInOrder, FlagsInOrder
  <2>4. ConnectsHaveGuild'
    BY <1>31 DEF TypeOK, CloseStream, ConnectsHaveGuild
  <2>5. QED
    BY <2>1, <2>2, <2>3, <2>4
<1>32. ASSUME UNCHANGED vars PROVE OrderInv'
  BY <1>32 DEF vars, TypeOK, MainInOrder, PlaceInOrder, ConnectsHaveGuild,
     FlagsInOrder, Draining, DrainOver, ShardsDown
<1>33. CASE MainStep
  BY <1>33, <1>1, <1>2, <1>3, <1>4, <1>5, <1>6, <1>7,
     <1>8, <1>9, <1>10, <1>11, <1>12, <1>13, <1>14, <1>15, <1>16, <1>17, <1>18, <1>19, <1>20
     DEF MainStep, StartDrain
<1>34. CASE HeartbeatStep
  BY <1>34, <1>6, <1>7 DEF HeartbeatStep
<1>35. CASE \E r \in Requests : RequestStep(r)
  BY <1>35, <1>1, <1>2, <1>3, <1>4, <1>5, <1>6, <1>7 DEF RequestStep, StartDrain
<1>36. CASE \E c \in Connects : ConnectStep(c)
  BY <1>36, <1>21, <1>22, <1>23, <1>24 DEF ConnectStep
<1>37. CASE World
  BY <1>37, <1>25, <1>26, <1>27, <1>28, <1>29, <1>30, <1>31 DEF World
<1>38. QED
  BY <1>32, <1>33, <1>34, <1>35, <1>36, <1>37 DEF Next

----
\* The invariant, from the facts above.
THEOREM OrderHolds == Spec => []OrderInv
  BY InitOrder, NextOrder, PTL DEF Spec

\* RuntimeState's variables keep their types, for any number of requests,
\* connects, guilds and streams.
THEOREM DrainTypeCorrect == Spec => []TypeOK
<1>1. OrderInv => TypeOK
  BY DEF OrderInv
<1>2. QED
  BY <1>1, OrderHolds, PTL

\* start_drain and force_shutdown never show a flag before the ones it rests
\* on, however many requests, signals and drains run them at once.
THEOREM FlagsInOrderHolds == Spec => []FlagsInOrder
<1>1. OrderInv => FlagsInOrder
  BY DEF OrderInv
<1>2. QED
  BY <1>1, OrderHolds, PTL

\* A draining process only loses calls, once the connects that had looked at
\* the flag before it was set are through.
THEOREM DrainOnlyLosesCallsHolds == Spec => DrainOnlyLosesCalls
<1>1. OrderInv /\ [Next]_vars => [Settled => Settled' /\ calls' \subseteq calls]_vars
  <2> SUFFICES ASSUME OrderInv, Next, Settled PROVE Settled' /\ calls' \subseteq calls
    BY DEF vars
  <2> USE KindsApart DEF Settled, draining, OrderInv, TypeOK, Goto, voice
  <2>1. ASSUME NEW c \in Connects, ConnectStep(c) PROVE Settled' /\ calls' \subseteq calls
    BY <2>1 DEF ConnectStep, LookDraining, OwnedElsewhere, InsertCall, JoinEnds
  <2>2. ASSUME NEW t \in Services, StartDrain(t) PROVE Settled' /\ calls' \subseteq calls
    BY <2>2 DEF StartDrain, SwapDraining, Arm, NotifyWaiters, SetForce, NotifyAgain
  <2>3. ASSUME NEW t \in Writers, ReadRole(t) \/ Upsert(t)
        PROVE Settled' /\ calls' \subseteq calls
    BY <2>3 DEF ReadRole, Upsert
  <2>4. CASE World
    BY <2>4 DEF World, Arrive, StartConnect, Leave, Signal, DeadlinePasses, OpenStream,
      CloseStream
  <2>5. CASE MainStep
    BY <2>2, <2>3, <2>5 DEF MainStep, CheckArmed, RegisterWaiter, Notified, SignalTaken,
      RecheckArmed, PollForce, CountCalls, SleepEnds, StopShards, TellServer, JoinServer,
      MarkStopped, Exit
  <2>6. QED
    BY <2>1, <2>2, <2>3, <2>4, <2>5 DEF Next, HeartbeatStep, RequestStep
<1>2. QED
  BY <1>1, OrderHolds, PTL DEF Spec, DrainOnlyLosesCalls
====
