---- MODULE VoiceReceiverBook_proofs ----
(***************************************************************************)
(* VoiceReceiver keeps the ledger of RecordingBook, for any users, SSRCs,  *)
(* recordings and bounds, and closes a session without leaving a recording *)
(* in its maps.  Beyond who owns a recording (IInv) and who is paused      *)
(* (TimeoutInv) this takes what a task has in its hands at each label.     *)
(***************************************************************************)
EXTENDS VoiceReceiverBook, VoiceReceiver_proofs

\* A task has something in its hands only where it resumes, parks or closes a
\* recording, and but for the drained pauses it has one at a time: what it takes
\* replaces nothing it still had to close.
HandsInv ==
  \A t \in Tasks :
    /\ pc[t] \notin {"rejoin", "park", "paused", "finish", "update"} => held[t] = {}
    /\ pc[t] \in {"rejoin", "park"} \/ (pc[t] \in {"finish", "update"} /\ back[t] # "paused") =>
         \A r1, r2 \in held[t] : r1 = r2

\* The SSRC the event task creates a writer for stays free under its lock.
ClaimedInv == pc[Event] = "create" => writers[at[Event]] = NoRec

\* While the event task closes the session no writer comes in that it has not
\* collected, and after it has drained the pauses the maps are empty.
ClosingInv ==
  /\ pc[Event] = "writers" \/ (pc[Event] \in {"finish", "update"} /\ back[Event] = "writers") =>
       \A s \in Ssrcs : writers[s] # NoRec => s \in todo[Event]
  /\ \/ pc[Event] \in {"paused", "clear_users", "clear_paused"}
     \/ pc[Event] \in {"finish", "update"} /\ back[Event] = "paused"
     => /\ \A s \in Ssrcs : writers[s] = NoRec
        /\ \A u \in Users : paused[u].rec = NoRec

BookInv == TimeoutInv /\ HandsInv /\ ClaimedInv /\ ClosingInv

----
LEMMA InitBook == Init => HandsInv /\ ClaimedInv /\ ClosingInv
BY TaskFacts DEF Init, HandsInv, ClaimedInv, ClosingInv, Reapers

\* Every step keeps what the tasks have in their hands.
LEMMA NextHands == TypeInv /\ SpawnInv /\ HandsInv /\ [Next]_vars => HandsInv'
<1> SUFFICES ASSUME TypeInv, SpawnInv, HandsInv, [Next]_vars PROVE HandsInv'
  OBVIOUS
<1> USE TaskFacts, RecAssumption DEF HandsInv, local
<1>0. /\ pc \in [Tasks -> Labels]
      /\ back \in [Tasks -> {"off", "schedule", "reap", "writers", "paused", "done"}]
      /\ held \in [Tasks -> SUBSET Recs]
  BY DEF TypeInv, TypeOK
<1>1. ASSUME NEW s \in Ssrcs, SpeakingKnownBot(s) PROVE HandsInv'
  BY <1>0, <1>1 DEF SpeakingKnownBot
<1>2. ASSUME NEW s \in Ssrcs, Speaking(s) PROVE HandsInv'
  BY <1>0, <1>2 DEF Speaking, Goto
<1>3. ASSUME Remap PROVE HandsInv'
  BY <1>0, <1>3 DEF Remap, Goto
<1>4. ASSUME Bind PROVE HandsInv'
  BY <1>0, <1>4 DEF Bind, Goto, Return
<1>5. ASSUME LookupFails PROVE HandsInv'
  BY <1>0, <1>5 DEF LookupFails, Goto, Return
<1>6. ASSUME LookupBot PROVE HandsInv'
  BY <1>0, <1>6 DEF LookupBot, Goto, Return
<1>7. ASSUME LookupHuman PROVE HandsInv'
  BY <1>0, <1>7 DEF LookupHuman, Goto
<1>8. ASSUME RejoinWriter PROVE HandsInv'
  BY <1>0, <1>8 DEF RejoinWriter, Goto
<1>9. ASSUME MapUser PROVE HandsInv'
  BY <1>0, <1>9 DEF MapUser, Goto
<1>10. ASSUME ClaimSsrc PROVE HandsInv'
  BY <1>0, <1>10 DEF ClaimSsrc, Goto, Return
<1>11. ASSUME NEW r \in Recs, CreateWriter(r) PROVE HandsInv'
  BY <1>0, <1>11 DEF CreateWriter, Goto
<1>12. ASSUME InsertFails PROVE HandsInv'
  BY <1>0, <1>12 DEF InsertFails, Goto, Return
<1>13. ASSUME NEW r \in Recs, FileFails(r) PROVE HandsInv'
  BY <1>0, <1>13 DEF FileFails, Goto, Return
<1>14. ASSUME CountStarted PROVE HandsInv'
  BY <1>0, <1>14 DEF CountStarted, Goto, Return
<1>15. ASSUME NEW u \in Users, BotLeaves(u) PROVE HandsInv'
  BY <1>0, <1>15 DEF BotLeaves
<1>16. ASSUME NEW u \in Users, UserLeaves(u) PROVE HandsInv'
  BY <1>0, <1>16 DEF UserLeaves, Goto
<1>17. ASSUME DetachWriter PROVE HandsInv'
  BY <1>0, <1>17 DEF DetachWriter, Goto, Return
<1>18. ASSUME ParkRecording PROVE HandsInv'
  BY <1>0, <1>18 DEF ParkRecording, Goto, CallFinalize
<1>19. ASSUME ScheduleRejoin PROVE HandsInv'
  <2>1. /\ Rejoin(nextToken - 1) \in Tasks \ {Event} /\ pc[Rejoin(nextToken - 1)] = "off"
        /\ pc[Event] = "schedule"
    BY <1>0, <1>19, BoundAssumption DEF TypeInv, TypeOK, SpawnInv, Scheduling, ScheduleRejoin
  <2> QED BY <1>0, <1>19, <2>1 DEF ScheduleRejoin
<1>20. ASSUME NEW k \in 1..MaxPauses, RejoinTimeout(k) PROVE HandsInv'
  BY <1>0, <1>20 DEF RejoinTimeout, Goto, CallFinalize
<1>21. ASSUME RecoverableDisconnect PROVE HandsInv'
  BY <1>0, <1>21 DEF RecoverableDisconnect, Goto
<1>22. ASSUME FinalDisconnect PROVE HandsInv'
  BY <1>0, <1>22 DEF FinalDisconnect, Goto
<1>23. ASSUME NEW e \in 1..MaxOutages, OutageTimeout(e) PROVE HandsInv'
  BY <1>0, <1>23 DEF OutageTimeout, Goto
<1>24. ASSUME DriverConnects PROVE HandsInv'
  BY <1>0, <1>24 DEF DriverConnects, Goto
<1>25. ASSUME SurveyUsers PROVE HandsInv'
  BY <1>0, <1>25 DEF SurveyUsers, Goto
<1>26. ASSUME HealthCheck PROVE HandsInv'
  BY <1>0, <1>26 DEF HealthCheck, Goto
<1>27. ASSUME NEW t \in Reapers, NEW s \in Ssrcs, ReapUser(t, s) PROVE HandsInv'
  BY <1>0, <1>27 DEF ReapUser, Goto
<1>28. ASSUME NEW t \in Reapers, ReapWriter(t) PROVE HandsInv'
  BY <1>0, <1>28 DEF ReapWriter, Goto, TakeWriter, CallFinalize
<1>29. ASSUME NEW t \in Reapers, ReapDone(t) PROVE HandsInv'
  BY <1>0, <1>29 DEF ReapDone, Goto
<1>30. ASSUME NEW t \in Closers, SnapshotWriters(t) PROVE HandsInv'
  BY <1>0, <1>30 DEF SnapshotWriters, Goto
<1>31. ASSUME NEW t \in Closers, NEW s \in Ssrcs, CloseWriter(t, s) PROVE HandsInv'
  BY <1>0, <1>31 DEF CloseWriter, Goto, TakeWriter, CallFinalize
<1>32. ASSUME NEW t \in Closers, DrainPaused(t) PROVE HandsInv'
  BY <1>0, <1>32 DEF DrainPaused, Goto
<1>33. ASSUME NEW t \in Closers, ClosePaused(t) PROVE HandsInv'
  BY <1>0, <1>33 DEF ClosePaused, Goto, CallFinalize
<1>34. ASSUME NEW t \in Closers, ClearUsers(t) PROVE HandsInv'
  BY <1>0, <1>34 DEF ClearUsers, Goto
<1>35. ASSUME NEW t \in Closers, ClearPaused(t) PROVE HandsInv'
  BY <1>0, <1>35 DEF ClearPaused, Goto, EndOf
<1>36. ASSUME NEW t \in Tasks, FinishWriter(t) PROVE HandsInv'
  BY <1>0, <1>36 DEF FinishWriter, Goto
<1>37. ASSUME NEW t \in Tasks, UpdateRow(t) PROVE HandsInv'
  BY <1>0, <1>37 DEF UpdateRow, Goto
<1>39. ASSUME ScheduleOutage PROVE HandsInv'
  <2>1. /\ outages > 0 => Outage(outages) \in Tasks /\ pc[Outage(outages)] = "off"
        /\ outages > 0 /\ pc[Event] = "suspend"
    BY <1>39, BoundAssumption DEF TypeInv, TypeOK, SpawnInv, ScheduleOutage
  <2> QED BY <1>0, <1>39, <2>1 DEF ScheduleOutage
<1>38. CASE UNCHANGED vars
  BY <1>38 DEF vars
<1> QED
  BY <1>1, <1>2, <1>3, <1>4, <1>5, <1>6, <1>7, <1>8, <1>9, <1>10, <1>11,
     <1>12, <1>13, <1>14, <1>15, <1>16, <1>17, <1>18, <1>19, <1>20, <1>21,
     <1>22, <1>23, <1>24, <1>25, <1>26, <1>27, <1>28, <1>29, <1>30, <1>31,
     <1>32, <1>33, <1>34, <1>35, <1>36, <1>37, <1>38, <1>39
     DEF Next, Deliver, EventStep, Timeout, SharedStep

\* Every step keeps the claim of the SSRC and what closing has left.
LEMMA NextClosing ==
  TypeInv /\ ClaimedInv /\ ClosingInv /\ [Next]_vars => ClaimedInv' /\ ClosingInv'
<1> SUFFICES ASSUME TypeInv, ClaimedInv, ClosingInv, [Next]_vars
             PROVE  ClaimedInv' /\ ClosingInv'
  OBVIOUS
<1> USE TaskFacts, RecAssumption DEF ClaimedInv, ClosingInv, maps, local
<1>0. /\ writers \in [Ssrcs -> Recs \cup {NoRec}]
      /\ paused \in [Users -> Pauses \cup {NoPause}]
      /\ pc \in [Tasks -> Labels] /\ at \in [Tasks -> Ssrcs \cup {NoSsrc}]
      /\ back \in [Tasks -> {"off", "schedule", "reap", "writers", "paused", "done"}]
      /\ todo \in [Tasks -> SUBSET Ssrcs]
  BY DEF TypeInv, TypeOK
<1>1. ASSUME NEW s \in Ssrcs, SpeakingKnownBot(s) PROVE ClaimedInv' /\ ClosingInv'
  BY <1>0, <1>1 DEF SpeakingKnownBot
<1>2. ASSUME NEW s \in Ssrcs, Speaking(s) PROVE ClaimedInv' /\ ClosingInv'
  BY <1>0, <1>2 DEF Speaking, Goto
<1>3. ASSUME Remap PROVE ClaimedInv' /\ ClosingInv'
  BY <1>0, <1>3 DEF Remap, Goto
<1>4. ASSUME Bind PROVE ClaimedInv' /\ ClosingInv'
  BY <1>0, <1>4 DEF Bind, Goto, Return
<1>5. ASSUME LookupFails PROVE ClaimedInv' /\ ClosingInv'
  BY <1>0, <1>5 DEF LookupFails, Goto, Return
<1>6. ASSUME LookupBot PROVE ClaimedInv' /\ ClosingInv'
  BY <1>0, <1>6 DEF LookupBot, Goto, Return
<1>7. ASSUME LookupHuman PROVE ClaimedInv' /\ ClosingInv'
  BY <1>0, <1>7 DEF LookupHuman, Goto, NoPause
<1>8. ASSUME RejoinWriter PROVE ClaimedInv' /\ ClosingInv'
  BY <1>0, <1>8 DEF RejoinWriter, Goto
<1>9. ASSUME MapUser PROVE ClaimedInv' /\ ClosingInv'
  BY <1>0, <1>9 DEF MapUser, Goto
<1>10. ASSUME ClaimSsrc PROVE ClaimedInv' /\ ClosingInv'
  BY <1>0, <1>10 DEF ClaimSsrc, Goto, Return
<1>11. ASSUME NEW r \in Recs, CreateWriter(r) PROVE ClaimedInv' /\ ClosingInv'
  BY <1>0, <1>11 DEF CreateWriter, Goto
<1>12. ASSUME InsertFails PROVE ClaimedInv' /\ ClosingInv'
  BY <1>0, <1>12 DEF InsertFails, Goto, Return
<1>13. ASSUME NEW r \in Recs, FileFails(r) PROVE ClaimedInv' /\ ClosingInv'
  BY <1>0, <1>13 DEF FileFails, Goto, Return
<1>14. ASSUME CountStarted PROVE ClaimedInv' /\ ClosingInv'
  BY <1>0, <1>14 DEF CountStarted, Goto, Return
<1>15. ASSUME NEW u \in Users, BotLeaves(u) PROVE ClaimedInv' /\ ClosingInv'
  BY <1>0, <1>15 DEF BotLeaves
<1>16. ASSUME NEW u \in Users, UserLeaves(u) PROVE ClaimedInv' /\ ClosingInv'
  BY <1>0, <1>16 DEF UserLeaves, Goto
<1>17. ASSUME DetachWriter PROVE ClaimedInv' /\ ClosingInv'
  BY <1>0, <1>17 DEF DetachWriter, Goto, Return
<1>18. ASSUME ParkRecording PROVE ClaimedInv' /\ ClosingInv'
  BY <1>0, <1>18 DEF ParkRecording, Goto, CallFinalize
<1>19. ASSUME ScheduleRejoin PROVE ClaimedInv' /\ ClosingInv'
  BY <1>0, <1>19 DEF ScheduleRejoin
<1>20. ASSUME NEW k \in 1..MaxPauses, RejoinTimeout(k)
       PROVE ClaimedInv' /\ ClosingInv'
  BY <1>0, <1>20 DEF RejoinTimeout, Goto, CallFinalize, NoPause
<1>21. ASSUME RecoverableDisconnect PROVE ClaimedInv' /\ ClosingInv'
  BY <1>0, <1>21 DEF RecoverableDisconnect, Goto
<1>22. ASSUME FinalDisconnect PROVE ClaimedInv' /\ ClosingInv'
  BY <1>0, <1>22 DEF FinalDisconnect, Goto
<1>23. ASSUME NEW e \in 1..MaxOutages, OutageTimeout(e)
       PROVE ClaimedInv' /\ ClosingInv'
  BY <1>0, <1>23 DEF OutageTimeout, Goto
<1>24. ASSUME DriverConnects PROVE ClaimedInv' /\ ClosingInv'
  BY <1>0, <1>24 DEF DriverConnects, Goto
<1>25. ASSUME SurveyUsers PROVE ClaimedInv' /\ ClosingInv'
  BY <1>0, <1>25 DEF SurveyUsers, Goto
<1>26. ASSUME HealthCheck PROVE ClaimedInv' /\ ClosingInv'
  BY <1>0, <1>26 DEF HealthCheck, Goto
<1>27. ASSUME NEW t \in Reapers, NEW s \in Ssrcs, ReapUser(t, s)
       PROVE ClaimedInv' /\ ClosingInv'
  BY <1>0, <1>27 DEF ReapUser, Goto
<1>28. ASSUME NEW t \in Reapers, ReapWriter(t) PROVE ClaimedInv' /\ ClosingInv'
  <2>1. CASE t = Event
    BY <1>0, <1>28, <2>1 DEF ReapWriter, Goto, TakeWriter, CallFinalize
  <2>2. CASE t # Event
    <3>1. /\ pc'[Event] = pc[Event] /\ at'[Event] = at[Event] /\ back'[Event] = back[Event]
          /\ todo' = todo /\ paused' = paused
      BY <1>0, <1>28, <2>2 DEF ReapWriter, Goto, TakeWriter, CallFinalize
    <3>2. \A s \in Ssrcs : writers'[s] \in {writers[s], NoRec}
      BY <1>0, <1>28 DEF ReapWriter, TakeWriter
    <3>3. pc[Event] # "create"
      BY <1>28 DEF ReapWriter, TakeWriter, WritersFree
    <3> QED BY <3>1, <3>2, <3>3
  <2> QED BY <2>1, <2>2
<1>29. ASSUME NEW t \in Reapers, ReapDone(t) PROVE ClaimedInv' /\ ClosingInv'
  BY <1>0, <1>29 DEF ReapDone, Goto
<1>30. ASSUME NEW t \in Closers, SnapshotWriters(t) PROVE ClaimedInv' /\ ClosingInv'
  BY <1>0, <1>30 DEF SnapshotWriters, Goto
<1>31. ASSUME NEW t \in Closers, NEW s \in Ssrcs, CloseWriter(t, s)
       PROVE ClaimedInv' /\ ClosingInv'
  <2>1. \A x \in Ssrcs : writers'[x] \in {writers[x], NoRec}
    BY <1>0, <1>31 DEF CloseWriter, TakeWriter
  <2>2. pc[Event] # "create" /\ paused' = paused
    BY <1>31 DEF CloseWriter, TakeWriter, WritersFree
  <2>3. CASE t = Event
    <3>1. /\ pc[Event] = "writers"
          /\ \/ pc'[Event] = "writers"
             \/ pc'[Event] = "finish" /\ back'[Event] = "writers"
      BY <1>0, <1>31, <2>3 DEF CloseWriter, Goto, TakeWriter, CallFinalize
    <3>2. writers'[s] = NoRec /\ todo'[Event] = todo[Event] \ {s}
      BY <1>0, <1>31, <2>3 DEF CloseWriter, TakeWriter
    <3> QED BY <2>1, <2>2, <3>1, <3>2
  <2>4. CASE t # Event
    <3>1. /\ pc'[Event] = pc[Event] /\ back'[Event] = back[Event]
          /\ todo'[Event] = todo[Event]
      BY <1>0, <1>31, <2>4 DEF CloseWriter, Goto, TakeWriter, CallFinalize
    <3> QED BY <2>1, <2>2, <3>1
  <2> QED BY <2>3, <2>4
<1>32. ASSUME NEW t \in Closers, DrainPaused(t) PROVE ClaimedInv' /\ ClosingInv'
  BY <1>0, <1>32 DEF DrainPaused, Goto, NoPause
<1>33. ASSUME NEW t \in Closers, ClosePaused(t) PROVE ClaimedInv' /\ ClosingInv'
  BY <1>0, <1>33 DEF ClosePaused, Goto, CallFinalize
<1>34. ASSUME NEW t \in Closers, ClearUsers(t) PROVE ClaimedInv' /\ ClosingInv'
  BY <1>0, <1>34 DEF ClearUsers, Goto
<1>35. ASSUME NEW t \in Closers, ClearPaused(t) PROVE ClaimedInv' /\ ClosingInv'
  BY <1>0, <1>35 DEF ClearPaused, Goto, EndOf, NoPause
<1>36. ASSUME NEW t \in Tasks, FinishWriter(t) PROVE ClaimedInv' /\ ClosingInv'
  BY <1>0, <1>36 DEF FinishWriter, Goto
<1>37. ASSUME NEW t \in Tasks, UpdateRow(t) PROVE ClaimedInv' /\ ClosingInv'
  BY <1>0, <1>37 DEF UpdateRow, Goto
<1>39. ASSUME ScheduleOutage PROVE ClaimedInv' /\ ClosingInv'
  BY <1>0, <1>39 DEF ScheduleOutage
<1>38. CASE UNCHANGED vars
  BY <1>38 DEF vars
<1> QED
  BY <1>1, <1>2, <1>3, <1>4, <1>5, <1>6, <1>7, <1>8, <1>9, <1>10, <1>11,
     <1>12, <1>13, <1>14, <1>15, <1>16, <1>17, <1>18, <1>19, <1>20, <1>21,
     <1>22, <1>23, <1>24, <1>25, <1>26, <1>27, <1>28, <1>29, <1>30, <1>31,
     <1>32, <1>33, <1>34, <1>35, <1>36, <1>37, <1>38, <1>39
     DEF Next, Deliver, EventStep, Timeout, SharedStep

LEMMA BookInvInductive ==
  /\ Init => BookInv
  /\ BookInv /\ [Next]_vars => BookInv'
<1>1. Init => BookInv
  BY TimeoutInvInductive, InitBook DEF BookInv
<1>2. BookInv /\ [Next]_vars => BookInv'
  BY TimeoutInvInductive, NextHands, NextClosing DEF BookInv, TimeoutInv, IInv
<1> QED BY <1>1, <1>2

\* When the event task closes a session it clears empty maps, whoever else
\* paused, resumed or closed a recording while it was at it.
THEOREM FinalCloseLeavesNothingHolds == Spec => []FinalCloseLeavesNothing
<1>1. BookInv => FinalCloseLeavesNothing
  BY DEF BookInv, ClosingInv, FinalCloseLeavesNothing, Written, PausedNow
<1> QED BY <1>1, BookInvInductive, PTL DEF Spec

----
(***************************************************************************)
(* The ledger.                                                             *)
(***************************************************************************)

IsRecording(r) == \/ \E s \in Ssrcs : writers[s] = r
                  \/ r \in held[Event] /\ pc[Event] = "park"
IsPaused(r)    == \/ \E u \in Users : paused[u].rec = r
                  \/ r \in held[Event] /\ pc[Event] = "rejoin"
IsClosing(r)   == \E t \in Tasks : /\ r \in held[t]
                                   /\ t = Event => pc[t] \notin {"rejoin", "park"}

\* The stage of a recording, from who has it.
LEMMA StageOf ==
  ASSUME NEW r \in Recs
  PROVE  Stage(r) = IF row[r] # "open" THEN row[r]
                    ELSE IF IsRecording(r) THEN "recording"
                    ELSE IF IsPaused(r) THEN "paused"
                    ELSE IF IsClosing(r) THEN IF r \in finished THEN "finished" ELSE "closing"
                    ELSE "lost"
<1>1. r \in Written \/ Carrying(r, "park") <=> IsRecording(r)
  BY RecAssumption DEF Written, Carrying, IsRecording
<1>2. r \in PausedNow \/ Carrying(r, "rejoin") <=> IsPaused(r)
  BY RecAssumption DEF PausedNow, Carrying, IsPaused
<1>3. IsClosing(r) <=> \E t \in Tasks : r \in Closing(t)
  BY DEF IsClosing, Closing
<1> QED BY <1>1, <1>2, <1>3 DEF Stage

LEMMA StageOfNext ==
  ASSUME NEW r \in Recs
  PROVE  Stage(r)' = IF row'[r] # "open" THEN row'[r]
                     ELSE IF IsRecording(r)' THEN "recording"
                     ELSE IF IsPaused(r)' THEN "paused"
                     ELSE IF IsClosing(r)'
                       THEN IF r \in finished' THEN "finished" ELSE "closing"
                     ELSE "lost"
<1>1. r \in Written' \/ Carrying(r, "park")' <=> IsRecording(r)'
  BY RecAssumption DEF Written, Carrying, IsRecording
<1>2. r \in PausedNow' \/ Carrying(r, "rejoin")' <=> IsPaused(r)'
  BY RecAssumption DEF PausedNow, Carrying, IsPaused
<1>3. IsClosing(r)' <=> \E t \in Tasks : r \in Closing(t)'
  BY DEF IsClosing, Closing
<1> QED BY <1>1, <1>2, <1>3 DEF Stage

\* A recording nothing happens to keeps its stage.
LEMMA StageKept ==
  ASSUME NEW r \in Recs, row'[r] = row[r], r \in finished' <=> r \in finished,
         IsRecording(r)' <=> IsRecording(r), IsPaused(r)' <=> IsPaused(r),
         IsClosing(r)' <=> IsClosing(r)
  PROVE  Stage(r)' = Stage(r)
BY StageOf, StageOfNext

----
\* What a step does to the stages, as a step of the ledger.
LedgerStep == [Book!Next]_([r \in Recs |-> Stage(r)])

LEMMA LedgerStutters ==
  ASSUME \A r \in Recs : Stage(r)' = Stage(r)
  PROVE  LedgerStep
BY DEF LedgerStep

LEMMA LedgerMoves ==
  ASSUME NEW r \in Recs,
         <<Stage(r), Stage(r)'>> \in
           {<<"none", "recording">>, <<"none", "lost">>, <<"recording", "paused">>,
            <<"paused", "recording">>, <<"closing", "finished">>,
            <<"finished", "closed">>, <<"finished", "lost">>},
         \A x \in Recs \ {r} : Stage(x)' = Stage(x)
  PROVE  LedgerStep
<1>1. \A from, to : Stage(r) = from /\ Stage(r)' = to => Book!Moves(r, from, to)
  BY DEF Book!Moves
<1>2. Book!Step(r)
  BY <1>1 DEF Book!Step, Book!Open, Book!Fail, Book!Pause, Book!Resume, Book!Finish,
              Book!End, Book!Unended
<1> QED BY <1>2 DEF LedgerStep, Book!Next

LEMMA LedgerCloses ==
  ASSUME NEW S \in SUBSET Recs,
         \A r \in S : Stage(r) \in {"recording", "paused"} /\ Stage(r)' = "closing",
         \A r \in Recs \ S : Stage(r)' = Stage(r)
  PROVE  LedgerStep
<1>1. Book!Close(S)
  BY DEF Book!Close, Book!MoveAll
<1> QED BY <1>1 DEF LedgerStep, Book!Next

LEMMA LedgerForgets ==
  ASSUME NEW S \in SUBSET Recs,
         \A r \in S : Stage(r) = "paused" /\ Stage(r)' = "lost",
         \A r \in Recs \ S : Stage(r)' = Stage(r)
  PROVE  LedgerStep
<1>1. Book!Forget(S)
  BY DEF Book!Forget, Book!MoveAll
<1> QED BY <1>1 DEF LedgerStep, Book!Next

LEMMA LedgerDisplaces ==
  ASSUME NEW old \in Recs, NEW r \in Recs, old # r, RecUser[old] = RecUser[r],
         Stage(old) = "recording", Stage(old)' = "lost",
         Stage(r) \in {"recording", "paused"}, Stage(r)' = "recording",
         \A x \in Recs \ {old, r} : Stage(x)' = Stage(x)
  PROVE  LedgerStep
<1>1. Book!Displace(old, r)
  BY DEF Book!Displace
<1> QED BY <1>1 DEF LedgerStep, Book!Next, Book!Step

\* A step that takes nothing out of the maps, puts nothing in and finishes
\* nothing is a stutter of the ledger.
LEMMA NothingMoves ==
  ASSUME UNCHANGED <<writers, paused, row, finished, held>>,
         \/ pc'[Event] = pc[Event]
         \/ {pc[Event], pc'[Event]} \cap {"rejoin", "park"} = {}
  PROVE  LedgerStep
<1>1. \A r \in Recs : Stage(r)' = Stage(r)
  BY StageKept DEF IsRecording, IsPaused, IsClosing
<1> QED BY <1>1, LedgerStutters

\* A recording taken out of the maps to be closed.
LEMMA TakenToClose ==
  ASSUME IInv, NEW t \in Tasks, NEW S \in SUBSET Recs,
         \A r \in S : \/ \E s \in Ssrcs : writers[s] = r
                      \/ \E u \in Users : paused[u].rec = r,
         \A s \in Ssrcs : writers'[s] = IF writers[s] \in S THEN NoRec ELSE writers[s],
         \A u \in Users : paused'[u].rec = IF paused[u].rec \in S THEN NoRec ELSE paused[u].rec,
         held[t] = {}, held'[t] = S, UNCHANGED <<row, finished>>,
         \A x \in Tasks \ {t} : held'[x] = held[x] /\ pc'[x] = pc[x],
         pc'[t] \notin {"rejoin", "park"}
  PROVE  LedgerStep
<1> USE TaskFacts, RecAssumption
<1>1. ASSUME NEW r \in S
      PROVE  Stage(r) \in {"recording", "paused"} /\ Stage(r)' = "closing"
  <2>1. row[r] = "open" /\ r \notin finished
    BY DEF IInv, OwnerInv, MapsOpen
  <2>2. \A x \in Tasks : r \notin held[x]
    BY DEF IInv, OwnerInv, HeldAlone
  <2>3. IsRecording(r) \/ IsPaused(r)
    BY DEF IsRecording, IsPaused
  <2>4. ~IsRecording(r)' /\ ~IsPaused(r)'
    BY <2>2 DEF IsRecording, IsPaused
  <2>5. IsClosing(r)'
    BY DEF IsClosing
  <2> QED BY <2>1, <2>3, <2>4, <2>5, StageOf, StageOfNext
<1>2. ASSUME NEW r \in Recs \ S PROVE Stage(r)' = Stage(r)
  <2>1. /\ IsRecording(r)' <=> IsRecording(r)
        /\ IsPaused(r)' <=> IsPaused(r)
        /\ IsClosing(r)' <=> IsClosing(r)
    BY DEF IsRecording, IsPaused, IsClosing
  <2> QED BY <2>1, StageKept
<1> QED BY <1>1, <1>2, LedgerCloses

\* A writer the event task moves to the SSRC it works on, where another of the
\* user may have been left: r was written elsewhere or is being resumed.
LEMMA TakesSsrc ==
  ASSUME IInv, NEW r \in Recs, at[Event] \in Ssrcs,
         pc[Event] # "park", pc'[Event] \notin {"rejoin", "park"},
         RecUser[r] = SsrcUser[at[Event]], r # writers[at[Event]],
         \/ IsRecording(r) /\ held'[Event] = held[Event] /\ pc[Event] # "rejoin"
         \/ pc[Event] = "rejoin" /\ held[Event] = {r} /\ held'[Event] = {},
         writers'[at[Event]] = r,
         \A s \in Ssrcs \ {at[Event]} :
           writers'[s] = IF writers[s] = r THEN NoRec ELSE writers[s],
         \A x \in Tasks \ {Event} : held'[x] = held[x],
         UNCHANGED <<paused, row, finished>>,
         \A x \in Tasks \ {Event} : pc'[x] = pc[x]
  PROVE  LedgerStep
<1> USE TaskFacts, RecAssumption
<1>1. /\ Stage(r) \in {"recording", "paused"} /\ Stage(r)' = "recording"
      /\ IsRecording(r) => Stage(r) = "recording"
      /\ ~IsRecording(r) => Stage(r) = "paused"
  <2>1. row[r] = "open"
    BY DEF IInv, OwnerInv, MapsOpen, HeldOpen, IsRecording
  <2>2. IsRecording(r) \/ IsPaused(r)
    BY DEF IsPaused
  <2>3. IsRecording(r)'
    BY DEF IsRecording
  <2> QED BY <2>1, <2>2, <2>3, StageOf, StageOfNext
<1>2. ASSUME NEW x \in Recs \ {r}, x # writers[at[Event]] PROVE Stage(x)' = Stage(x)
  <2>1. \A s \in Ssrcs : writers'[s] = x <=> writers[s] = x
    BY <1>2
  <2>2. IsRecording(x)' <=> IsRecording(x)
    BY <2>1 DEF IsRecording
  <2>3. IsPaused(x)' <=> IsPaused(x)
    BY <1>2 DEF IsPaused
  <2>4. IsClosing(x)' <=> IsClosing(x)
    BY <1>2 DEF IsClosing
  <2> QED BY <1>2, <2>2, <2>3, <2>4, StageKept
<1>3. ASSUME NEW old \in Recs, writers[at[Event]] = old PROVE LedgerStep
  <2>1. row[old] = "open" /\ RecUser[old] = RecUser[r]
    BY <1>3 DEF IInv, OwnerInv, MapsOpen
  <2>2. /\ \A s \in Ssrcs \ {at[Event]} : writers[s] # old
        /\ \A u \in Users : paused[u].rec # old
        /\ \A x \in Tasks : old \notin held[x]
    BY <1>3 DEF IInv, OwnerInv, MapsDisjoint, HeldAlone
  <2>3. IsRecording(old) /\ ~IsRecording(old)' /\ ~IsPaused(old)' /\ ~IsClosing(old)'
    BY <1>3, <2>2 DEF IsRecording, IsPaused, IsClosing
  <2>4. Stage(old) = "recording" /\ Stage(old)' = "lost"
    BY <1>3, <2>1, <2>3, StageOf, StageOfNext
  <2> QED BY <1>1, <1>2, <1>3, <2>1, <2>4, LedgerDisplaces
<1>4. CASE writers[at[Event]] \notin Recs
  <2>1. \A x \in Recs \ {r} : Stage(x)' = Stage(x)
    BY <1>2, <1>4
  <2>2. CASE IsRecording(r)
    BY <1>1, <2>1, <2>2, LedgerStutters
  <2>3. CASE ~IsRecording(r)
    BY <1>1, <2>1, <2>3, LedgerMoves
  <2> QED BY <2>2, <2>3
<1> QED BY <1>3, <1>4

\* finalize_writer_at closes the writer it finds.
LEMMA WriterTaken ==
  ASSUME IInv, NEW t \in Tasks, NEW s \in Ssrcs, NEW label, TakeWriter(t, s, label),
         label \notin {"rejoin", "park"}, pc[t] \notin {"rejoin", "park"},
         held[t] = {}, UNCHANGED <<paused, row, finished>>
  PROVE  LedgerStep
<1> USE TaskFacts, RecAssumption
<1>0. /\ writers \in [Ssrcs -> Recs \cup {NoRec}] /\ held \in [Tasks -> SUBSET Recs]
      /\ paused \in [Users -> Pauses \cup {NoPause}] /\ pc \in [Tasks -> Labels]
  BY DEF IInv, TypeInv, TypeOK
<1>1. CASE writers[s] = NoRec
  BY <1>0, <1>1, NothingMoves DEF TakeWriter, Goto
<1>2. CASE writers[s] # NoRec
  <2>1. /\ held'[t] = {writers[s]} /\ pc'[t] = "finish"
        /\ writers' = [writers EXCEPT ![s] = NoRec]
        /\ \A x \in Tasks \ {t} : held'[x] = held[x] /\ pc'[x] = pc[x]
    BY <1>0, <1>2 DEF TakeWriter, Goto, CallFinalize
  <2>2. /\ \A u \in Users : paused[u].rec # writers[s]
        /\ \A x \in Ssrcs : writers[x] = writers[s] => x = s
    BY <1>0, <1>2 DEF IInv, OwnerInv, MapsDisjoint
  <2>3. \A x \in Ssrcs :
          writers'[x] = IF writers[x] \in {writers[s]} THEN NoRec ELSE writers[x]
    BY <1>0, <2>1, <2>2
  <2> QED BY <1>0, <1>2, <2>1, <2>2, <2>3, TakenToClose
<1> QED BY <1>1, <1>2

\* Every step is a step of the ledger or leaves it alone.
LEMMA NextLedger == BookInv /\ [Next]_vars => LedgerStep
<1> SUFFICES ASSUME IInv, TypeInv, MappedInv, OwnerInv, NotPausedInv, HandsInv, ClaimedInv,
                    [Next]_vars
             PROVE  LedgerStep
  BY DEF BookInv, TimeoutInv, IInv
<1> USE TaskFacts, RecAssumption, SsrcAssumption DEF maps, books, local
<1>0. /\ writers \in [Ssrcs -> Recs \cup {NoRec}] /\ held \in [Tasks -> SUBSET Recs]
      /\ paused \in [Users -> Pauses \cup {NoPause}] /\ pc \in [Tasks -> Labels]
      /\ row \in [Recs -> {"none", "open", "closed"}] /\ finished \in SUBSET Recs
      /\ back \in [Tasks -> {"off", "schedule", "reap", "writers", "paused", "done"}]
      /\ at \in [Tasks -> Ssrcs \cup {NoSsrc}]
  BY DEF TypeInv, TypeOK
<1>1. ASSUME NEW s \in Ssrcs, SpeakingKnownBot(s) PROVE LedgerStep
  BY <1>0, <1>1, NothingMoves DEF SpeakingKnownBot
<1>2. ASSUME NEW s \in Ssrcs, Speaking(s) PROVE LedgerStep
  BY <1>0, <1>2, NothingMoves DEF Speaking, Goto
<1>3. ASSUME Remap PROVE LedgerStep
  <2>1. CASE writers[prev] = NoRec
    BY <1>0, <1>3, <2>1, NothingMoves DEF Remap, Goto
  <2>2. CASE prev = at[Event]
    <3>1. writers' = writers
      BY <1>0, <1>3, <2>2 DEF Remap
    <3> QED BY <1>0, <1>3, <3>1, NothingMoves DEF Remap, Goto
  <2>3. ASSUME NEW q \in Recs, writers[prev] = q, prev # at[Event] PROVE LedgerStep
    <3>1. /\ prev \in Ssrcs /\ at[Event] \in Ssrcs
          /\ RecUser[q] = SsrcUser[at[Event]] /\ q # writers[at[Event]]
          /\ \A s \in Ssrcs \ {prev} : writers[s] # q
      BY <1>3, <2>3 DEF Remap, TypeInv, LocalsOK, WorksAtOK, CarriesOK, MappedInv, MapsOpen,
         MapsDisjoint, OwnerInv
    <3>2. /\ writers'[at[Event]] = q
          /\ \A s \in Ssrcs \ {at[Event]} :
               writers'[s] = IF writers[s] = q THEN NoRec ELSE writers[s]
      BY <1>0, <1>3, <2>3, <3>1 DEF Remap
    <3>3. IsRecording(q)
      BY <2>3, <3>1 DEF IsRecording
    <3>4. /\ UNCHANGED <<paused, row, finished, held>> /\ pc[Event] = "remap"
          /\ pc'[Event] = "bind" /\ \A x \in Tasks \ {Event} : pc'[x] = pc[x]
      BY <1>0, <1>3, <2>3 DEF Remap, Goto
    <3> QED BY <3>1, <3>2, <3>3, <3>4, TakesSsrc
  <2>4. writers[prev] \in Recs \cup {NoRec}
    BY <1>0, <1>3 DEF Remap, TypeInv, LocalsOK, CarriesOK
  <2> QED BY <2>1, <2>2, <2>3, <2>4
<1>4. ASSUME Bind PROVE LedgerStep
  BY <1>0, <1>4, NothingMoves DEF Bind, Goto, Return
<1>5. ASSUME LookupFails PROVE LedgerStep
  BY <1>0, <1>5, NothingMoves DEF LookupFails, Goto, Return
<1>6. ASSUME LookupBot PROVE LedgerStep
  BY <1>0, <1>6, NothingMoves DEF LookupBot, Goto, Return
<1>7. ASSUME LookupHuman PROVE LedgerStep
  <2>1. CASE paused[SsrcUser[at[Event]]].rec = NoRec
    BY <1>0, <1>7, <2>1, NothingMoves DEF LookupHuman, Goto
  <2>2. CASE paused[SsrcUser[at[Event]]].rec # NoRec
    <3> DEFINE u == SsrcUser[at[Event]]
    <3>1. /\ u \in Users /\ pc[Event] = "lookup" /\ pc'[Event] = "rejoin"
          /\ held[Event] = {} /\ held'[Event] = {paused[u].rec} /\ paused[u].rec # NoRec
          /\ \A x \in Tasks \ {Event} : held'[x] = held[x] /\ pc'[x] = pc[x]
          /\ paused' = [paused EXCEPT ![u] = NoPause] /\ UNCHANGED <<writers, row, finished>>
      BY <1>0, <1>7, <2>2 DEF LookupHuman, Goto, TypeInv, LocalsOK, WorksAtOK, HandsInv
    <3>2. ASSUME NEW r \in Recs PROVE Stage(r)' = Stage(r)
      <4>1. IsRecording(r)' <=> IsRecording(r)
        BY <3>1 DEF IsRecording
      <4>2. IsPaused(r)' <=> IsPaused(r)
        BY <1>0, <3>1 DEF IsPaused, NoPause
      <4>3. IsClosing(r)' <=> IsClosing(r)
        BY <3>1 DEF IsClosing
      <4> QED BY <3>1, <4>1, <4>2, <4>3, StageKept
    <3> QED BY <3>2, LedgerStutters
  <2> QED BY <2>1, <2>2
<1>8. ASSUME RejoinWriter PROVE LedgerStep
  <2>1. PICK r \in held[Event] : writers' = [writers EXCEPT ![at[Event]] = r]
    BY <1>8 DEF RejoinWriter
  <2>2. /\ pc[Event] = "rejoin" /\ pc'[Event] = "bind" /\ at[Event] \in Ssrcs
        /\ r \in Recs /\ held[Event] = {r} /\ held'[Event] = {}
        /\ \A x \in Tasks \ {Event} : held'[x] = held[x] /\ pc'[x] = pc[x]
        /\ UNCHANGED <<paused, row, finished>>
    BY <1>0, <1>8 DEF RejoinWriter, Goto, TypeInv, LocalsOK, WorksAtOK, HandsInv
  <2>3. /\ RecUser[r] = SsrcUser[at[Event]] /\ r # writers[at[Event]]
        /\ \A s \in Ssrcs : writers[s] # r
    BY <2>2 DEF OwnerInv, CarriedOpen, HeldAlone
  <2>4. /\ writers'[at[Event]] = r
        /\ \A s \in Ssrcs \ {at[Event]} :
             writers'[s] = IF writers[s] = r THEN NoRec ELSE writers[s]
    BY <1>0, <2>1, <2>2, <2>3
  <2> QED BY <2>2, <2>3, <2>4, TakesSsrc
<1>9. ASSUME MapUser PROVE LedgerStep
  BY <1>0, <1>9, NothingMoves DEF MapUser, Goto
<1>10. ASSUME ClaimSsrc PROVE LedgerStep
  BY <1>0, <1>10, NothingMoves DEF ClaimSsrc, Goto, Return
<1>11. ASSUME NEW r \in Recs, CreateWriter(r) PROVE LedgerStep
  <2>1. /\ pc[Event] = "create" /\ pc'[Event] = "observe" /\ at[Event] \in Ssrcs
        /\ writers[at[Event]] = NoRec /\ row[r] = "none"
        /\ UNCHANGED <<paused, finished, held>>
        /\ row' = [row EXCEPT ![r] = "open"]
        /\ writers' = [writers EXCEPT ![at[Event]] = r]
        /\ \A x \in Tasks \ {Event} : pc'[x] = pc[x]
    BY <1>0, <1>11 DEF CreateWriter, Goto, TypeInv, LocalsOK, WorksAtOK, ClaimedInv
  <2>2. Stage(r) = "none"
    BY <2>1, StageOf
  <2>3. IsRecording(r)'
    BY <1>0, <2>1 DEF IsRecording
  <2>4. Stage(r)' = "recording"
    BY <1>0, <2>1, <2>3, StageOfNext
  <2>5. ASSUME NEW x \in Recs \ {r} PROVE Stage(x)' = Stage(x)
    <3>1. IsRecording(x)' <=> IsRecording(x)
      BY <1>0, <2>1 DEF IsRecording
    <3>2. (IsPaused(x)' <=> IsPaused(x)) /\ (IsClosing(x)' <=> IsClosing(x))
      BY <2>1 DEF IsPaused, IsClosing
    <3> QED BY <1>0, <2>1, <3>1, <3>2, StageKept
  <2> QED BY <2>2, <2>4, <2>5, LedgerMoves
<1>12. ASSUME InsertFails PROVE LedgerStep
  BY <1>0, <1>12, NothingMoves DEF InsertFails, Goto, Return
<1>13. ASSUME NEW r \in Recs, FileFails(r) PROVE LedgerStep
  <2>1. /\ pc[Event] = "create" /\ pc'[Event] = "idle" /\ row[r] = "none"
        /\ UNCHANGED <<writers, paused, finished, held>>
        /\ row' = [row EXCEPT ![r] = "open"]
        /\ \A x \in Tasks \ {Event} : pc'[x] = pc[x]
    BY <1>0, <1>13 DEF FileFails, Goto, Return
  <2>2. Stage(r) = "none"
    BY <2>1, StageOf
  <2>3. /\ \A s \in Ssrcs : writers[s] # r
        /\ \A u \in Users : paused[u].rec # r
        /\ \A t \in Tasks : r \notin held[t]
    BY <2>1 DEF OwnerInv, MapsOpen, HeldOpen
  <2>4. ~IsRecording(r)' /\ ~IsPaused(r)' /\ ~IsClosing(r)'
    BY <2>1, <2>3 DEF IsRecording, IsPaused, IsClosing
  <2>5. Stage(r)' = "lost"
    BY <1>0, <2>1, <2>4, StageOfNext
  <2>6. ASSUME NEW x \in Recs \ {r} PROVE Stage(x)' = Stage(x)
    <3>1. /\ IsRecording(x)' <=> IsRecording(x)
          /\ IsPaused(x)' <=> IsPaused(x)
          /\ IsClosing(x)' <=> IsClosing(x)
      BY <2>1 DEF IsRecording, IsPaused, IsClosing
    <3> QED BY <1>0, <2>1, <3>1, StageKept
  <2> QED BY <2>2, <2>5, <2>6, LedgerMoves
<1>14. ASSUME CountStarted PROVE LedgerStep
  BY <1>0, <1>14, NothingMoves DEF CountStarted, Goto, Return
<1>15. ASSUME NEW u \in Users, BotLeaves(u) PROVE LedgerStep
  BY <1>0, <1>15, NothingMoves DEF BotLeaves
<1>16. ASSUME NEW u \in Users, UserLeaves(u) PROVE LedgerStep
  BY <1>0, <1>16, NothingMoves DEF UserLeaves, Goto
<1>17. ASSUME DetachWriter PROVE LedgerStep
  <2>1. CASE writers[at[Event]] = NoRec
    BY <1>0, <1>17, <2>1, NothingMoves DEF DetachWriter, Goto, Return
  <2>2. CASE writers[at[Event]] # NoRec
    <3> DEFINE s == at[Event]
    <3>1. /\ s \in Ssrcs /\ pc[Event] = "detach" /\ pc'[Event] = "park"
          /\ held[Event] = {} /\ held'[Event] = {writers[s]} /\ writers[s] # NoRec
          /\ \A x \in Tasks \ {Event} : held'[x] = held[x] /\ pc'[x] = pc[x]
          /\ writers' = [writers EXCEPT ![s] = NoRec] /\ UNCHANGED <<paused, row, finished>>
      BY <1>0, <1>17, <2>2 DEF DetachWriter, Goto, TypeInv, LocalsOK, WorksAtOK, HandsInv
    <3>2. ASSUME NEW r \in Recs PROVE Stage(r)' = Stage(r)
      <4>1. IsRecording(r)' <=> IsRecording(r)
        BY <1>0, <3>1 DEF IsRecording
      <4>2. IsPaused(r)' <=> IsPaused(r)
        BY <3>1 DEF IsPaused
      <4>3. IsClosing(r)' <=> IsClosing(r)
        BY <3>1 DEF IsClosing
      <4> QED BY <3>1, <4>1, <4>2, <4>3, StageKept
    <3> QED BY <3>2, LedgerStutters
  <2> QED BY <2>1, <2>2
<1>18. ASSUME ParkRecording PROVE LedgerStep
  <2> DEFINE u == SsrcUser[at[Event]]
  <2>1. PICK r \in held[Event] : paused' = [paused EXCEPT ![u] = [rec |-> r, token |-> nextToken]]
    BY <1>18 DEF ParkRecording
  <2>2. /\ u \in Users /\ pc[Event] = "park" /\ r \in Recs /\ held[Event] = {r}
        /\ paused[u].rec = NoRec
    BY <1>0, <1>18 DEF ParkRecording, TypeInv, LocalsOK, WorksAtOK, HandsInv,
       NotPausedInv, NoPauseIsReplaced
  <2>3. /\ held'[Event] = {} /\ pc'[Event] = "schedule"
        /\ \A x \in Tasks \ {Event} : held'[x] = held[x] /\ pc'[x] = pc[x]
        /\ UNCHANGED <<writers, row, finished>>
    BY <1>0, <1>18, <2>2 DEF ParkRecording, Goto, CallFinalize
  <2>4. row[r] = "open" /\ \A s \in Ssrcs : writers[s] # r
    BY <2>2 DEF OwnerInv, HeldAlone, HeldOpen
  <2>5. Stage(r) = "recording"
    BY <2>2, <2>4, StageOf DEF IsRecording
  <2>6. ~IsRecording(r)' /\ IsPaused(r)'
    BY <1>0, <2>1, <2>2, <2>3, <2>4 DEF IsRecording, IsPaused
  <2>7. Stage(r)' = "paused"
    BY <2>2, <2>3, <2>4, <2>6, StageOfNext
  <2>8. ASSUME NEW x \in Recs \ {r} PROVE Stage(x)' = Stage(x)
    <3>1. IsRecording(x)' <=> IsRecording(x)
      BY <2>2, <2>3 DEF IsRecording
    <3>2. IsPaused(x)' <=> IsPaused(x)
      BY <1>0, <2>1, <2>2, <2>3 DEF IsPaused
    <3>3. IsClosing(x)' <=> IsClosing(x)
      BY <2>2, <2>3 DEF IsClosing
    <3> QED BY <2>3, <3>1, <3>2, <3>3, StageKept
  <2> QED BY <2>2, <2>5, <2>7, <2>8, LedgerMoves
<1>19. ASSUME ScheduleRejoin PROVE LedgerStep
  BY <1>0, <1>19, NothingMoves DEF ScheduleRejoin
<1>20. ASSUME NEW k \in 1..MaxPauses, RejoinTimeout(k) PROVE LedgerStep
  <2> DEFINE t == Rejoin(k)
             u == SsrcUser[at[t]]
  <2>1. CASE paused[u].token # k
    BY <1>0, <1>20, <2>1, NothingMoves DEF RejoinTimeout, Goto, PausedTimeoutMatches
  <2>2. CASE paused[u].token = k
    <3>1. /\ u \in Users /\ t \in Tasks /\ held[t] = {} /\ paused[u].rec \in Recs
      BY <1>0, <1>20, <2>2 DEF RejoinTimeout, TypeInv, LocalsOK, WorksAtOK, ArmedOK, HandsInv,
         Pauses, NoPause
    <3>2. /\ held'[t] = {paused[u].rec} /\ pc'[t] = "finish"
          /\ paused' = [paused EXCEPT ![u] = NoPause] /\ UNCHANGED <<writers, row, finished>>
          /\ \A x \in Tasks \ {t} : held'[x] = held[x] /\ pc'[x] = pc[x]
      BY <1>0, <1>20, <2>2, <3>1 DEF RejoinTimeout, Goto, CallFinalize, PausedTimeoutMatches
    <3>3. /\ \A s \in Ssrcs : writers[s] # paused[u].rec
          /\ \A v \in Users : paused[v].rec = paused[u].rec => v = u
      BY <3>1 DEF OwnerInv, MapsDisjoint
    <3>4. \A v \in Users :
            paused'[v].rec = IF paused[v].rec \in {paused[u].rec} THEN NoRec ELSE paused[v].rec
      BY <1>0, <3>1, <3>2, <3>3 DEF NoPause
    <3> QED BY <3>1, <3>2, <3>3, <3>4, TakenToClose
  <2> QED BY <2>1, <2>2
<1>21. ASSUME RecoverableDisconnect PROVE LedgerStep
  BY <1>0, <1>21, NothingMoves DEF RecoverableDisconnect, Goto
<1>22. ASSUME FinalDisconnect PROVE LedgerStep
  BY <1>0, <1>22, NothingMoves DEF FinalDisconnect, Goto
<1>23. ASSUME NEW e \in 1..MaxOutages, OutageTimeout(e) PROVE LedgerStep
  BY <1>0, <1>23, NothingMoves DEF OutageTimeout, Goto
<1>24. ASSUME DriverConnects PROVE LedgerStep
  BY <1>0, <1>24, NothingMoves DEF DriverConnects, Goto
<1>25. ASSUME SurveyUsers PROVE LedgerStep
  BY <1>0, <1>25, NothingMoves DEF SurveyUsers, Goto
<1>26. ASSUME HealthCheck PROVE LedgerStep
  BY <1>0, <1>26, NothingMoves DEF HealthCheck, Goto
<1>27. ASSUME NEW t \in Reapers, NEW s \in Ssrcs, ReapUser(t, s) PROVE LedgerStep
  BY <1>0, <1>27, NothingMoves DEF ReapUser, Goto
<1>28. ASSUME NEW t \in Reapers, ReapWriter(t) PROVE LedgerStep
  <2>1. held[t] = {} /\ at[t] \in Ssrcs /\ t \in Tasks
    BY <1>28 DEF ReapWriter, TypeInv, LocalsOK, ReapsOK, HandsInv
  <2> QED BY <1>0, <1>28, <2>1, WriterTaken DEF ReapWriter
<1>29. ASSUME NEW t \in Reapers, ReapDone(t) PROVE LedgerStep
  BY <1>0, <1>29, NothingMoves DEF ReapDone, Goto
<1>30. ASSUME NEW t \in Closers, SnapshotWriters(t) PROVE LedgerStep
  BY <1>0, <1>30, NothingMoves DEF SnapshotWriters, Goto
<1>31. ASSUME NEW t \in Closers, NEW s \in Ssrcs, CloseWriter(t, s) PROVE LedgerStep
  <2>1. held[t] = {} /\ t \in Tasks
    BY <1>31 DEF CloseWriter, HandsInv
  <2> QED BY <1>0, <1>31, <2>1, WriterTaken DEF CloseWriter
<1>32. ASSUME NEW t \in Closers, DrainPaused(t) PROVE LedgerStep
  <2>1. /\ t \in Tasks /\ held[t] = {} /\ PausedNow \in SUBSET Recs
    BY <1>0, <1>32 DEF DrainPaused, HandsInv, PausedNow, Pauses, NoPause
  <2>2. /\ held'[t] = PausedNow /\ pc'[t] = "paused"
        /\ UNCHANGED <<writers, row, finished>>
        /\ \A x \in Tasks \ {t} : held'[x] = held[x] /\ pc'[x] = pc[x]
    BY <1>0, <1>32, <2>1 DEF DrainPaused, Goto
  <2>3. \A u \in Users : paused'[u].rec = NoRec
    BY <1>32 DEF DrainPaused, NoPause
  <2>4. /\ \A r \in PausedNow : \E u \in Users : paused[u].rec = r
        /\ \A u \in Users : paused[u].rec \in PausedNow \/ paused[u].rec = NoRec
    BY DEF PausedNow
  <2>5. \A s \in Ssrcs : writers[s] \notin PausedNow
    BY <1>0, <2>1, <2>4 DEF OwnerInv, MapsDisjoint
  <2> QED BY <2>1, <2>2, <2>3, <2>4, <2>5, TakenToClose
<1>33. ASSUME NEW t \in Closers, ClosePaused(t) PROVE LedgerStep
  BY <1>0, <1>33, NothingMoves DEF ClosePaused, Goto, CallFinalize
<1>34. ASSUME NEW t \in Closers, ClearUsers(t) PROVE LedgerStep
  BY <1>0, <1>34, NothingMoves DEF ClearUsers, Goto
<1>35. ASSUME NEW t \in Closers, ClearPaused(t) PROVE LedgerStep
  <2>1. /\ t \in Tasks /\ UNCHANGED <<writers, row, finished, held>>
        /\ \A u \in Users : paused'[u].rec = NoRec
        /\ pc'[Event] = pc[Event] \/ {pc[Event], pc'[Event]} \cap {"rejoin", "park"} = {}
    BY <1>0, <1>35 DEF ClearPaused, Goto, EndOf, NoPause
  <2> DEFINE S == {r \in Recs : \E u \in Users : paused[u].rec = r}
  <2>2. \A r \in Recs : /\ IsRecording(r)' <=> IsRecording(r)
                        /\ IsClosing(r)' <=> IsClosing(r)
    BY <2>1 DEF IsRecording, IsClosing
  <2>3. ASSUME NEW r \in S PROVE Stage(r) = "paused" /\ Stage(r)' = "lost"
    <3>1. /\ row[r] = "open" /\ \A x \in Tasks : r \notin held[x]
          /\ \A s \in Ssrcs : writers[s] # r
      BY DEF OwnerInv, MapsDisjoint, MapsOpen, HeldAlone
    <3>2. IsPaused(r) /\ ~IsRecording(r) /\ ~IsClosing(r)
      BY <3>1 DEF IsPaused, IsRecording, IsClosing
    <3>3. ~IsPaused(r)'
      BY <2>1, <3>1 DEF IsPaused
    <3> QED BY <2>1, <2>2, <3>1, <3>2, <3>3, StageOf, StageOfNext
  <2>4. ASSUME NEW r \in Recs \ S PROVE Stage(r)' = Stage(r)
    <3>1. IsPaused(r)' <=> IsPaused(r)
      BY <2>1 DEF IsPaused
    <3> QED BY <2>1, <2>2, <3>1, StageKept
  <2> QED BY <2>3, <2>4, LedgerForgets
<1>36. ASSUME NEW t \in Tasks, FinishWriter(t) PROVE LedgerStep
  <2>1. PICK r \in held[t] : finished' = finished \cup {r}
    BY <1>36 DEF FinishWriter
  <2>2. /\ r \in Recs /\ row[r] = "open" /\ r \notin finished /\ pc[t] = "finish"
        /\ \A s \in Ssrcs : writers[s] # r
        /\ \A u \in Users : paused[u].rec # r
        /\ \A x \in Tasks : r \in held[x] => x = t
    BY <1>0, <1>36 DEF FinishWriter, OwnerInv, HeldOpen, HeldAlone
  <2>3. /\ UNCHANGED <<writers, paused, row, held>>
        /\ pc' = [pc EXCEPT ![t] = "update"]
    BY <1>36 DEF FinishWriter, Goto
  <2>4. \A x \in Recs : /\ IsRecording(x)' <=> IsRecording(x)
                        /\ IsPaused(x)' <=> IsPaused(x)
                        /\ IsClosing(x)' <=> IsClosing(x)
    BY <1>0, <2>2, <2>3 DEF IsRecording, IsPaused, IsClosing
  <2>5. ~IsRecording(r) /\ ~IsPaused(r) /\ IsClosing(r)
    BY <2>2 DEF IsRecording, IsPaused, IsClosing
  <2>6. Stage(r) = "closing" /\ Stage(r)' = "finished"
    BY <2>1, <2>2, <2>3, <2>4, <2>5, StageOf, StageOfNext
  <2>7. \A x \in Recs \ {r} : Stage(x)' = Stage(x)
    BY <2>1, <2>3, <2>4, StageKept
  <2> QED BY <2>2, <2>6, <2>7, LedgerMoves
<1>37. ASSUME NEW t \in Tasks, UpdateRow(t) PROVE LedgerStep
  <2>1. PICK r \in held[t] \cap finished :
          /\ held' = [held EXCEPT ![t] = @ \ {r}]
          /\ row' = [row EXCEPT ![r] = "closed"] \/ row' = row
    BY <1>37 DEF UpdateRow
  <2>2. /\ r \in Recs /\ row[r] = "open" /\ r \in finished /\ pc[t] = "update"
        /\ \A s \in Ssrcs : writers[s] # r
        /\ \A u \in Users : paused[u].rec # r
        /\ \A x \in Tasks : r \in held[x] => x = t
    BY <1>0, <1>37 DEF UpdateRow, OwnerInv, HeldOpen, HeldAlone
  <2>3. /\ UNCHANGED <<writers, paused, finished>>
        /\ pc'[t] \notin {"rejoin", "park"}
        /\ \A x \in Tasks \ {t} : pc'[x] = pc[x]
    BY <1>0, <1>37 DEF UpdateRow, Goto
  <2>4. ~IsRecording(r) /\ ~IsPaused(r) /\ IsClosing(r)
    BY <2>2 DEF IsRecording, IsPaused, IsClosing
  <2>5. ~IsRecording(r)' /\ ~IsPaused(r)' /\ ~IsClosing(r)'
    BY <1>0, <2>1, <2>2, <2>3 DEF IsRecording, IsPaused, IsClosing
  <2>6. Stage(r) = "finished" /\ Stage(r)' \in {"closed", "lost"}
    <3>1. row'[r] \in {"open", "closed"}
      BY <1>0, <2>1, <2>2
    <3> QED BY <2>2, <2>4, <2>5, <3>1, StageOf, StageOfNext
  <2>7. ASSUME NEW x \in Recs \ {r} PROVE Stage(x)' = Stage(x)
    <3>1. row'[x] = row[x]
      BY <1>0, <2>1
    <3>2. \A y \in Tasks : x \in held'[y] <=> x \in held[y]
      BY <1>0, <2>1
    <3>3. /\ IsRecording(x)' <=> IsRecording(x)
          /\ IsPaused(x)' <=> IsPaused(x)
          /\ IsClosing(x)' <=> IsClosing(x)
      BY <2>2, <2>3, <3>2 DEF IsRecording, IsPaused, IsClosing
    <3> QED BY <2>3, <3>1, <3>3, StageKept
  <2> QED BY <2>2, <2>6, <2>7, LedgerMoves
<1>39. ASSUME ScheduleOutage PROVE LedgerStep
  BY <1>0, <1>39, NothingMoves DEF ScheduleOutage
<1>38. CASE UNCHANGED vars
  BY <1>38, NothingMoves DEF vars
<1> QED
  BY <1>1, <1>2, <1>3, <1>4, <1>5, <1>6, <1>7, <1>8, <1>9, <1>10, <1>11,
     <1>12, <1>13, <1>14, <1>15, <1>16, <1>17, <1>18, <1>19, <1>20, <1>21,
     <1>22, <1>23, <1>24, <1>25, <1>26, <1>27, <1>28, <1>29, <1>30, <1>31,
     <1>32, <1>33, <1>34, <1>35, <1>36, <1>37, <1>38, <1>39
     DEF Next, Deliver, EventStep, Timeout, SharedStep

\* VoiceReceiver implements the ledger: a recording is opened once, is paused,
\* resumed and closed by whoever has it, is finished once and given its end_ts
\* after that, and a live one is only lost to another recording of its user.
THEOREM LedgerKept == Spec => BookSpec
<1>1. Init => Book!Init
  <2>1. ASSUME Init, NEW r \in Recs PROVE Stage(r) = "none"
    BY <2>1 DEF Init, Stage
  <2> QED BY <2>1 DEF Book!Init
<1>2. BookInv /\ [Next]_vars => [Book!Next]_([r \in Recs |-> Stage(r)])
  BY NextLedger DEF LedgerStep
<1> QED BY <1>1, <1>2, BookInvInductive, PTL DEF Spec, BookSpec, Book!Spec
====
