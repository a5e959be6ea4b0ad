---- MODULE VoiceReceiver_proofs ----
(***************************************************************************)
(* VoiceReceiver, for every value of its constants: its types, who holds a *)
(* recording, and that an outage and a pause have their timeout.  TypeOK   *)
(* is inductive together with LocalsOK, which says that what a label reads *)
(* out of a local has been put there before.                               *)
(***************************************************************************)
EXTENDS VoiceReceiver, TLAPS

----
(***************************************************************************)
(* The inductive invariant.                                                *)
(***************************************************************************)

\* The locals a label relies on have been set by the labels before it: of the
\* event task while it handles an event, of a sleeping timeout, and of a task
\* that drops a user.
WorksAtOK ==
  /\ pc[Event] \in {"remap", "bind", "lookup", "rejoin", "map", "claim", "create",
                    "detach", "park", "schedule"} => at[Event] \in Ssrcs
  /\ pc[Event] \in {"finish", "update"} /\ back[Event] = "schedule" => at[Event] \in Ssrcs
CarriesOK ==
  /\ pc[Event] = "remap" => prev \in Ssrcs
  /\ pc[Event] = "observe" => opened \in Recs
  /\ pc[Event] \in {"detach", "park"} => nextToken <= MaxPauses
ArmedOK == \A t \in RejoinTasks : pc[t] = "armed" => at[t] \in Ssrcs
ReapsOK == \A t \in Reapers : pc[t] = "reap_writer" => at[t] \in Ssrcs

LocalsOK == WorksAtOK /\ CarriesOK /\ ArmedOK /\ ReapsOK

TypeInv == TypeOK /\ LocalsOK

----
(***************************************************************************)
(* Tasks and labels.                                                       *)
(***************************************************************************)

\* The tasks are pairwise different: a step of one leaves the locals of the
\* others alone.
LEMMA TaskFacts ==
  /\ Event \in Tasks /\ Health \in Tasks /\ Event # Health
  /\ Event \notin RejoinTasks /\ Event \notin OutageTasks
  /\ Health \notin RejoinTasks /\ Health \notin OutageTasks
  /\ OutageTasks \cap RejoinTasks = {}
  /\ Closers \subseteq Tasks /\ Reapers \subseteq Tasks
  /\ RejoinTasks \subseteq Tasks /\ OutageTasks \subseteq Tasks
  /\ \A k \in 1..MaxPauses : Rejoin(k) \in RejoinTasks /\ Rejoin(k) \in Tasks
  /\ \A e \in 1..MaxOutages : Outage(e) \in OutageTasks /\ Outage(e) \in Tasks
  /\ \A j, k : Rejoin(j) = Rejoin(k) => j = k
  /\ \A d, e : Outage(d) = Outage(e) => d = e
BY DEF Event, Health, Outage, Rejoin, OutageTasks, RejoinTasks, Tasks, Closers, Reapers

\* Init establishes the types.
LEMMA InitTypeInv == Init => TypeInv
<1> SUFFICES ASSUME Init PROVE TypeInv
  OBVIOUS
<1> USE TaskFacts, BoundAssumption
<1>1. TypeOK
  BY DEF Init, TypeOK, Labels, Pauses
<1>2. LocalsOK
  BY DEF Init, LocalsOK, WorksAtOK, CarriesOK, ArmedOK, ReapsOK, Tasks, Reapers, RejoinTasks
<1> QED BY <1>1, <1>2 DEF TypeInv

\* A step of one task to a label that relies on few of its locals.
LEMMA LocalsKept ==
  ASSUME NEW t \in Tasks, LocalsOK,
         \A x \in Tasks \ {t} : pc'[x] = pc[x] /\ at'[x] = at[x] /\ back'[x] = back[x],
         t # Event => prev' = prev /\ opened' = opened,
         nextToken' = nextToken,
         pc'[t] \in {"idle", "create", "park", "finish", "reap", "writers", "clear_users"},
         pc'[t] \in {"create", "park"} => at'[t] \in Ssrcs,
         pc'[t] = "park" => nextToken <= MaxPauses,
         pc'[t] = "finish" => back'[t] # "schedule"
  PROVE  LocalsOK'
<1> USE TaskFacts
<1>1. CASE t = Event
  <2>1. WorksAtOK' /\ CarriesOK'
    BY <1>1 DEF WorksAtOK, CarriesOK
  <2>2. ArmedOK' /\ ReapsOK'
    BY <1>1 DEF LocalsOK, ArmedOK, ReapsOK
  <2> QED BY <2>1, <2>2 DEF LocalsOK
<1>2. CASE t # Event
  <2>1. WorksAtOK' /\ CarriesOK'
    BY <1>2 DEF LocalsOK, WorksAtOK, CarriesOK
  <2>2. ArmedOK' /\ ReapsOK'
    BY <1>2 DEF LocalsOK, ArmedOK, ReapsOK
  <2> QED BY <2>1, <2>2 DEF LocalsOK
<1> QED BY <1>1, <1>2

\* Every step keeps the types.
LEMMA NextTypeInv == TypeInv /\ [Next]_vars => TypeInv'
<1> SUFFICES ASSUME TypeOK, LocalsOK, [Next]_vars PROVE TypeOK' /\ LocalsOK'
  BY DEF TypeInv
<1> USE TaskFacts, SsrcAssumption, RecAssumption, BoundAssumption
    DEF maps, bots, link, books, local, event, WorksAtOK, CarriesOK, ArmedOK, ReapsOK
<1>1. ASSUME NEW s \in Ssrcs, SpeakingKnownBot(s)
      PROVE  TypeOK' /\ LocalsOK'
  <2>1. botUser' \in [Users -> Ssrcs \cup {NoSsrc}]
    BY <1>1 DEF TypeOK, LocalsOK, SpeakingKnownBot
  <2>2. TypeOK'
    BY <1>1, <2>1 DEF TypeOK, SpeakingKnownBot
  <2>3. LocalsOK'
    BY <1>1 DEF TypeOK, LocalsOK, SpeakingKnownBot
  <2> QED BY <2>2, <2>3
<1>2. ASSUME NEW s \in Ssrcs, Speaking(s)
      PROVE  TypeOK' /\ LocalsOK'
  <2>1. pc' \in [Tasks -> Labels]
    BY <1>2 DEF TypeOK, LocalsOK, Speaking, Goto, Labels
  <2>2. at' \in [Tasks -> Ssrcs \cup {NoSsrc}]
    BY <1>2 DEF TypeOK, LocalsOK, Speaking, Goto
  <2>3. TypeOK'
    BY <1>2, <2>1, <2>2 DEF TypeOK, Speaking, Goto
  <2>4. LocalsOK'
    BY <1>2 DEF TypeOK, LocalsOK, Speaking, Goto
  <2> QED BY <2>3, <2>4
<1>3. ASSUME Remap
      PROVE  TypeOK' /\ LocalsOK'
  <2>1. pc' \in [Tasks -> Labels]
    BY <1>3 DEF TypeOK, LocalsOK, Remap, Goto, Labels
  <2>2. writers' \in [Ssrcs -> Recs \cup {NoRec}]
    BY <1>3 DEF TypeOK, LocalsOK, Remap, Goto
  <2>3. TypeOK'
    BY <1>3, <2>1, <2>2 DEF TypeOK, Remap, Goto
  <2>4. /\ pc'[Event] \in {"bind", "lookup"}
        /\ \A x \in Tasks \ {Event} : pc'[x] = pc[x]
        /\ at[Event] \in Ssrcs /\ UNCHANGED <<at, back, nextToken, event>>
    BY <1>3 DEF TypeOK, LocalsOK, Remap, Goto
  <2>5. LocalsOK'
    BY <2>4 DEF LocalsOK
  <2> QED BY <2>3, <2>5
<1>4. ASSUME Bind
      PROVE  TypeOK' /\ LocalsOK'
  <2>1. pc' \in [Tasks -> Labels]
    BY <1>4 DEF TypeOK, LocalsOK, Bind, Goto, Return, Labels
  <2>2. userSsrc' \in [Users -> Ssrcs \cup {NoSsrc}]
    BY <1>4 DEF TypeOK, LocalsOK, Bind, Goto, Return
  <2>3. at' \in [Tasks -> Ssrcs \cup {NoSsrc}]
    BY <1>4 DEF TypeOK, LocalsOK, Bind, Goto, Return
  <2>4. TypeOK'
    BY <1>4, <2>1, <2>2, <2>3 DEF TypeOK, Bind, Goto, Return
  <2>5. LocalsOK'
    BY <1>4 DEF TypeOK, LocalsOK, Bind, Goto, Return
  <2> QED BY <2>4, <2>5
<1>5. ASSUME LookupFails
      PROVE  TypeOK' /\ LocalsOK'
  <2>1. pc' \in [Tasks -> Labels]
    BY <1>5 DEF TypeOK, LocalsOK, LookupFails, Goto, Return, Labels
  <2>2. at' \in [Tasks -> Ssrcs \cup {NoSsrc}]
    BY <1>5 DEF TypeOK, LocalsOK, LookupFails, Goto, Return
  <2>3. TypeOK'
    BY <1>5, <2>1, <2>2 DEF TypeOK, LookupFails, Goto, Return
  <2>4. LocalsOK'
    BY <1>5 DEF TypeOK, LocalsOK, LookupFails, Goto, Return
  <2> QED BY <2>3, <2>4
<1>6. ASSUME LookupBot
      PROVE  TypeOK' /\ LocalsOK'
  <2>1. pc' \in [Tasks -> Labels]
    BY <1>6 DEF TypeOK, LocalsOK, LookupBot, Goto, Return, Labels
  <2>2. at' \in [Tasks -> Ssrcs \cup {NoSsrc}]
    BY <1>6 DEF TypeOK, LocalsOK, LookupBot, Goto, Return
  <2>3. botUser' \in [Users -> Ssrcs \cup {NoSsrc}]
    BY <1>6 DEF TypeOK, LocalsOK, LookupBot, Goto, Return
  <2>4. TypeOK'
    BY <1>6, <2>1, <2>2, <2>3 DEF TypeOK, LocalsOK, LookupBot, Goto, Return
  <2>5. LocalsOK'
    BY <1>6 DEF TypeOK, LocalsOK, LookupBot, Goto, Return
  <2> QED BY <2>4, <2>5
<1>7. ASSUME LookupHuman
      PROVE  TypeOK' /\ LocalsOK'
  <2>1. pc' \in [Tasks -> Labels]
    BY <1>7 DEF TypeOK, LocalsOK, LookupHuman, Goto, Labels
  <2>2. held' \in [Tasks -> SUBSET Recs]
    BY <1>7 DEF TypeOK, LocalsOK, LookupHuman, Goto, Pauses, NoPause
  <2>3. paused' \in [Users -> Pauses \cup {NoPause}]
    BY <1>7 DEF TypeOK, LocalsOK, LookupHuman, Goto, Pauses, NoPause
  <2>4. TypeOK'
    BY <1>7, <2>1, <2>2, <2>3 DEF TypeOK, LookupHuman, Goto
  <2>5. /\ pc'[Event] \in {"rejoin", "map"}
        /\ \A x \in Tasks \ {Event} : pc'[x] = pc[x]
        /\ at[Event] \in Ssrcs /\ UNCHANGED <<at, back, nextToken, event>>
    BY <1>7 DEF TypeOK, LocalsOK, LookupHuman, Goto
  <2>6. LocalsOK'
    BY <2>5 DEF LocalsOK
  <2> QED BY <2>4, <2>6
<1>8. ASSUME RejoinWriter
      PROVE  TypeOK' /\ LocalsOK'
  <2>1. pc' \in [Tasks -> Labels]
    BY <1>8 DEF TypeOK, LocalsOK, RejoinWriter, Goto, Labels
  <2>2. writers' \in [Ssrcs -> Recs \cup {NoRec}]
    BY <1>8 DEF TypeOK, LocalsOK, RejoinWriter, Goto
  <2>3. held' \in [Tasks -> SUBSET Recs]
    BY <1>8 DEF TypeOK, LocalsOK, RejoinWriter, Goto
  <2>4. TypeOK'
    BY <1>8, <2>1, <2>2, <2>3 DEF TypeOK, RejoinWriter, Goto
  <2>5. LocalsOK'
    BY <1>8 DEF TypeOK, LocalsOK, RejoinWriter, Goto
  <2> QED BY <2>4, <2>5
<1>9. ASSUME MapUser
      PROVE  TypeOK' /\ LocalsOK'
  <2>1. pc' \in [Tasks -> Labels]
    BY <1>9 DEF TypeOK, LocalsOK, MapUser, Goto, Labels
  <2>2. userSsrc' \in [Users -> Ssrcs \cup {NoSsrc}]
    BY <1>9 DEF TypeOK, LocalsOK, MapUser, Goto
  <2>3. TypeOK'
    BY <1>9, <2>1, <2>2 DEF TypeOK, MapUser, Goto
  <2>4. LocalsOK'
    BY <1>9 DEF TypeOK, LocalsOK, MapUser, Goto
  <2> QED BY <2>3, <2>4
<1>10. ASSUME ClaimSsrc
      PROVE  TypeOK' /\ LocalsOK'
  <2>1. pc' \in [Tasks -> Labels]
    BY <1>10 DEF TypeOK, LocalsOK, ClaimSsrc, Goto, Return, Labels
  <2>2. at' \in [Tasks -> Ssrcs \cup {NoSsrc}]
    BY <1>10 DEF TypeOK, LocalsOK, ClaimSsrc, Goto, Return
  <2>3. TypeOK'
    BY <1>10, <2>1, <2>2 DEF TypeOK, ClaimSsrc, Goto, Return
  <2>4. /\ pc'[Event] \in {"idle", "create"}
        /\ \A x \in Tasks \ {Event} : pc'[x] = pc[x]
        /\ \A x \in Tasks \ {Event} : at'[x] = at[x] /\ back'[x] = back[x]
        /\ nextToken' = nextToken
        /\ pc'[Event] = "create" => at'[Event] \in Ssrcs
    BY <1>10 DEF TypeOK, LocalsOK, ClaimSsrc, Goto, Return
  <2>5. LocalsOK'
    BY <2>4, LocalsKept
  <2> QED BY <2>3, <2>5
<1>11. ASSUME NEW r \in Recs, CreateWriter(r)
      PROVE  TypeOK' /\ LocalsOK'
  <2>1. pc' \in [Tasks -> Labels]
    BY <1>11 DEF TypeOK, LocalsOK, CreateWriter, Goto, Labels
  <2>2. row' \in [Recs -> {"none", "open", "closed"}]
    BY <1>11 DEF TypeOK, LocalsOK, CreateWriter, Goto
  <2>3. writers' \in [Ssrcs -> Recs \cup {NoRec}]
    BY <1>11 DEF TypeOK, LocalsOK, CreateWriter, Goto
  <2>4. TypeOK'
    BY <1>11, <2>1, <2>2, <2>3 DEF TypeOK, CreateWriter, Goto
  <2>5. LocalsOK'
    BY <1>11 DEF TypeOK, LocalsOK, CreateWriter, Goto
  <2> QED BY <2>4, <2>5
<1>12. ASSUME InsertFails
      PROVE  TypeOK' /\ LocalsOK'
  <2>1. pc' \in [Tasks -> Labels]
    BY <1>12 DEF TypeOK, LocalsOK, InsertFails, Goto, Return, Labels
  <2>2. at' \in [Tasks -> Ssrcs \cup {NoSsrc}]
    BY <1>12 DEF TypeOK, LocalsOK, InsertFails, Goto, Return
  <2>3. TypeOK'
    BY <1>12, <2>1, <2>2 DEF TypeOK, InsertFails, Goto, Return
  <2>4. LocalsOK'
    BY <1>12 DEF TypeOK, LocalsOK, InsertFails, Goto, Return
  <2> QED BY <2>3, <2>4
<1>13. ASSUME NEW r \in Recs, FileFails(r)
      PROVE  TypeOK' /\ LocalsOK'
  <2>1. pc' \in [Tasks -> Labels]
    BY <1>13 DEF TypeOK, LocalsOK, FileFails, Goto, Return, Labels
  <2>2. at' \in [Tasks -> Ssrcs \cup {NoSsrc}]
    BY <1>13 DEF TypeOK, LocalsOK, FileFails, Goto, Return
  <2>3. row' \in [Recs -> {"none", "open", "closed"}]
    BY <1>13 DEF TypeOK, LocalsOK, FileFails, Goto, Return
  <2>4. TypeOK'
    BY <1>13, <2>1, <2>2, <2>3 DEF TypeOK, FileFails, Goto, Return
  <2>5. LocalsOK'
    BY <1>13 DEF TypeOK, LocalsOK, FileFails, Goto, Return
  <2> QED BY <2>4, <2>5
<1>14. ASSUME CountStarted
      PROVE  TypeOK' /\ LocalsOK'
  <2>1. pc' \in [Tasks -> Labels]
    BY <1>14 DEF TypeOK, LocalsOK, CountStarted, Goto, Return, Labels
  <2>2. at' \in [Tasks -> Ssrcs \cup {NoSsrc}]
    BY <1>14 DEF TypeOK, LocalsOK, CountStarted, Goto, Return
  <2>3. TypeOK'
    BY <1>14, <2>1, <2>2 DEF TypeOK, LocalsOK, CountStarted, Goto, Return
  <2>4. LocalsOK'
    BY <1>14 DEF TypeOK, LocalsOK, CountStarted, Goto, Return
  <2> QED BY <2>3, <2>4
<1>15. ASSUME NEW u \in Users, BotLeaves(u)
      PROVE  TypeOK' /\ LocalsOK'
  <2>1. botUser' \in [Users -> Ssrcs \cup {NoSsrc}]
    BY <1>15 DEF TypeOK, LocalsOK, BotLeaves
  <2>2. TypeOK'
    BY <1>15, <2>1 DEF TypeOK, BotLeaves
  <2>3. LocalsOK'
    BY <1>15 DEF TypeOK, LocalsOK, BotLeaves
  <2> QED BY <2>2, <2>3
<1>16. ASSUME NEW u \in Users, UserLeaves(u)
      PROVE  TypeOK' /\ LocalsOK'
  <2>1. pc' \in [Tasks -> Labels]
    BY <1>16 DEF TypeOK, LocalsOK, UserLeaves, Goto, Labels
  <2>2. userSsrc' \in [Users -> Ssrcs \cup {NoSsrc}]
    BY <1>16 DEF TypeOK, LocalsOK, UserLeaves, Goto
  <2>3. at' \in [Tasks -> Ssrcs \cup {NoSsrc}]
    BY <1>16 DEF TypeOK, LocalsOK, UserLeaves, Goto
  <2>4. TypeOK'
    BY <1>16, <2>1, <2>2, <2>3 DEF TypeOK, UserLeaves, Goto
  <2>5. LocalsOK'
    BY <1>16 DEF TypeOK, LocalsOK, UserLeaves, Goto
  <2> QED BY <2>4, <2>5
<1>17. ASSUME DetachWriter
      PROVE  TypeOK' /\ LocalsOK'
  <2>1. pc' \in [Tasks -> Labels]
    BY <1>17 DEF TypeOK, LocalsOK, DetachWriter, Goto, Return, Labels
  <2>2. writers' \in [Ssrcs -> Recs \cup {NoRec}]
    BY <1>17 DEF TypeOK, LocalsOK, DetachWriter, Goto, Return
  <2>3. held' \in [Tasks -> SUBSET Recs]
    BY <1>17 DEF TypeOK, LocalsOK, DetachWriter, Goto, Return
  <2>4. at' \in [Tasks -> Ssrcs \cup {NoSsrc}]
    BY <1>17 DEF TypeOK, LocalsOK, DetachWriter, Goto, Return
  <2>5. TypeOK'
    BY <1>17, <2>1, <2>2, <2>3, <2>4 DEF TypeOK, DetachWriter, Goto, Return
  <2>6. /\ pc'[Event] \in {"idle", "park"}
        /\ \A x \in Tasks \ {Event} : pc'[x] = pc[x]
        /\ \A x \in Tasks \ {Event} : at'[x] = at[x] /\ back'[x] = back[x]
        /\ nextToken' = nextToken
        /\ nextToken <= MaxPauses
        /\ pc'[Event] = "park" => at'[Event] \in Ssrcs
    BY <1>17 DEF TypeOK, LocalsOK, DetachWriter, Goto, Return
  <2>7. LocalsOK'
    BY <2>6, LocalsKept
  <2> QED BY <2>5, <2>7
<1>18. ASSUME ParkRecording
      PROVE  TypeOK' /\ LocalsOK'
  <2>1. pc' \in [Tasks -> Labels]
    BY <1>18 DEF TypeOK, LocalsOK, ParkRecording, Goto, CallFinalize, Labels
  <2>2. nextToken' \in 1..MaxPauses + 1
    BY <1>18 DEF TypeOK, LocalsOK, ParkRecording, Goto, CallFinalize
  <2>3. paused' \in [Users -> Pauses \cup {NoPause}]
    BY <1>18 DEF TypeOK, LocalsOK, ParkRecording, Goto, CallFinalize, Pauses, NoPause
  <2>4. held' \in [Tasks -> SUBSET Recs]
    BY <1>18 DEF TypeOK, LocalsOK, ParkRecording, Goto, CallFinalize, Pauses, NoPause
  <2>5. back' \in [Tasks -> {"off", "schedule", "reap", "writers", "paused", "done"}]
    BY <1>18 DEF TypeOK, LocalsOK, ParkRecording, Goto, CallFinalize
  <2>6. TypeOK'
    BY <1>18, <2>1, <2>2, <2>3, <2>4, <2>5 DEF TypeOK, ParkRecording, Goto, CallFinalize
  <2>7. /\ pc'[Event] \in {"finish", "schedule"}
        /\ \A x \in Tasks \ {Event} : pc'[x] = pc[x]
        /\ at[Event] \in Ssrcs /\ UNCHANGED <<at, event>>
    BY <1>18 DEF TypeOK, LocalsOK, ParkRecording, Goto, CallFinalize
  <2>8. LocalsOK'
    BY <2>7 DEF LocalsOK
  <2> QED BY <2>6, <2>8
<1>19. ASSUME ScheduleRejoin
      PROVE  TypeOK' /\ LocalsOK'
  <2>1. pc' \in [Tasks -> Labels]
    BY <1>19 DEF TypeOK, LocalsOK, ScheduleRejoin, Labels
  <2>2. at' \in [Tasks -> Ssrcs \cup {NoSsrc}]
    BY <1>19 DEF TypeOK, LocalsOK, ScheduleRejoin
  <2>3. TypeOK'
    BY <1>19, <2>1, <2>2 DEF TypeOK, ScheduleRejoin
  <2>4. LocalsOK'
    BY <1>19 DEF TypeOK, LocalsOK, ScheduleRejoin
  <2> QED BY <2>3, <2>4
<1>20. ASSUME NEW k \in 1..MaxPauses, RejoinTimeout(k)
      PROVE  TypeOK' /\ LocalsOK'
  <2>1. pc' \in [Tasks -> Labels]
    BY <1>20 DEF TypeOK, LocalsOK, RejoinTimeout, Goto, CallFinalize, PausedTimeoutMatches, Labels
  <2>2. held' \in [Tasks -> SUBSET Recs]
    BY <1>20 DEF TypeOK, LocalsOK, RejoinTimeout, Goto, CallFinalize, PausedTimeoutMatches, Pauses, NoPause
  <2>3. paused' \in [Users -> Pauses \cup {NoPause}]
    BY <1>20 DEF TypeOK, LocalsOK, RejoinTimeout, Goto, CallFinalize, PausedTimeoutMatches, Pauses, NoPause
  <2>4. back' \in [Tasks -> {"off", "schedule", "reap", "writers", "paused", "done"}]
    BY <1>20 DEF TypeOK, LocalsOK, RejoinTimeout, Goto, CallFinalize, PausedTimeoutMatches
  <2>5. TypeOK'
    BY <1>20, <2>1, <2>2, <2>3, <2>4 DEF TypeOK, RejoinTimeout, Goto, CallFinalize, PausedTimeoutMatches
  <2>6. /\ pc'[Rejoin(k)] \in {"finish", "done"}
        /\ \A x \in Tasks \ {Rejoin(k)} : pc'[x] = pc[x]
        /\ UNCHANGED <<at, nextToken, event>>
        /\ back'[Event] = back[Event]
    BY <1>20 DEF TypeOK, LocalsOK, RejoinTimeout, Goto, CallFinalize, PausedTimeoutMatches
  <2>7. LocalsOK'
    BY <2>6 DEF LocalsOK
  <2> QED BY <2>5, <2>7
<1>21. ASSUME RecoverableDisconnect
      PROVE  TypeOK' /\ LocalsOK'
  <2>1. pc' \in [Tasks -> Labels]
    BY <1>21 DEF TypeOK, LocalsOK, RecoverableDisconnect, Goto, Labels
  <2>2. TypeOK'
    BY <1>21, <2>1 DEF TypeOK, RecoverableDisconnect, Goto
  <2>3. LocalsOK'
    BY <1>21 DEF TypeOK, LocalsOK, RecoverableDisconnect, Goto
  <2> QED BY <2>2, <2>3
<1>22. ASSUME FinalDisconnect
      PROVE  TypeOK' /\ LocalsOK'
  <2>1. pc' \in [Tasks -> Labels]
    BY <1>22 DEF TypeOK, LocalsOK, FinalDisconnect, Goto, Labels
  <2>2. TypeOK'
    BY <1>22, <2>1 DEF TypeOK, FinalDisconnect, Goto
  <2>3. LocalsOK'
    BY <1>22 DEF TypeOK, LocalsOK, FinalDisconnect, Goto
  <2> QED BY <2>2, <2>3
<1>23. ASSUME NEW e \in 1..MaxOutages, OutageTimeout(e)
      PROVE  TypeOK' /\ LocalsOK'
  <2>1. pc' \in [Tasks -> Labels]
    BY <1>23 DEF TypeOK, LocalsOK, OutageTimeout, Goto, Labels
  <2>2. TypeOK'
    BY <1>23, <2>1 DEF TypeOK, OutageTimeout, Goto
  <2>3. /\ pc'[Outage(e)] \in {"close_all", "done"}
        /\ \A x \in Tasks \ {Outage(e)} : pc'[x] = pc[x]
        /\ UNCHANGED <<at, back, nextToken, event>>
    BY <1>23 DEF TypeOK, LocalsOK, OutageTimeout, Goto
  <2>4. LocalsOK'
    BY <2>3 DEF LocalsOK
  <2> QED BY <2>2, <2>4
<1>24. ASSUME DriverConnects
      PROVE  TypeOK' /\ LocalsOK'
  <2>1. pc' \in [Tasks -> Labels]
    BY <1>24 DEF TypeOK, LocalsOK, DriverConnects, Goto, Labels
  <2>2. TypeOK'
    BY <1>24, <2>1 DEF TypeOK, DriverConnects, Goto
  <2>3. /\ pc'[Event] \in {"idle", "survey"}
        /\ \A x \in Tasks \ {Event} : pc'[x] = pc[x]
        /\ UNCHANGED <<at, back, nextToken, event>>
    BY <1>24 DEF TypeOK, LocalsOK, DriverConnects, Goto
  <2>4. LocalsOK'
    BY <2>3 DEF LocalsOK
  <2> QED BY <2>2, <2>4
<1>25. ASSUME SurveyUsers
      PROVE  TypeOK' /\ LocalsOK'
  <2>1. pc' \in [Tasks -> Labels]
    BY <1>25 DEF TypeOK, LocalsOK, SurveyUsers, Goto, Mapped, Labels
  <2>2. todo' \in [Tasks -> SUBSET Ssrcs]
    BY <1>25 DEF TypeOK, LocalsOK, SurveyUsers, Goto, Mapped
  <2>3. TypeOK'
    BY <1>25, <2>1, <2>2 DEF TypeOK, SurveyUsers, Goto, Mapped
  <2>4. LocalsOK'
    BY <1>25 DEF TypeOK, LocalsOK, SurveyUsers, Goto, Mapped
  <2> QED BY <2>3, <2>4
<1>26. ASSUME HealthCheck
      PROVE  TypeOK' /\ LocalsOK'
  <2>1. pc' \in [Tasks -> Labels]
    BY <1>26 DEF TypeOK, LocalsOK, HealthCheck, Goto, Mapped, Labels
  <2>2. todo' \in [Tasks -> SUBSET Ssrcs]
    BY <1>26 DEF TypeOK, LocalsOK, HealthCheck, Goto, Mapped
  <2>3. TypeOK'
    BY <1>26, <2>1, <2>2 DEF TypeOK, HealthCheck, Goto, Mapped
  <2>4. LocalsOK'
    BY <1>26 DEF TypeOK, LocalsOK, HealthCheck, Goto, Mapped
  <2> QED BY <2>3, <2>4
<1>27. ASSUME NEW t \in Reapers, NEW s \in Ssrcs, ReapUser(t, s)
      PROVE  TypeOK' /\ LocalsOK'
  <2>1. pc' \in [Tasks -> Labels]
    BY <1>27 DEF TypeOK, LocalsOK, ReapUser, Goto, Labels
  <2>2. todo' \in [Tasks -> SUBSET Ssrcs]
    BY <1>27 DEF TypeOK, LocalsOK, ReapUser, Goto
  <2>3. at' \in [Tasks -> Ssrcs \cup {NoSsrc}]
    BY <1>27 DEF TypeOK, LocalsOK, ReapUser, Goto
  <2>4. userSsrc' \in [Users -> Ssrcs \cup {NoSsrc}]
    BY <1>27 DEF TypeOK, LocalsOK, ReapUser, Goto
  <2>5. TypeOK'
    BY <1>27, <2>1, <2>2, <2>3, <2>4 DEF TypeOK, ReapUser, Goto
  <2>6. LocalsOK'
    BY <1>27 DEF TypeOK, LocalsOK, ReapUser, Goto
  <2> QED BY <2>5, <2>6
<1>28. ASSUME NEW t \in Reapers, ReapWriter(t)
      PROVE  TypeOK' /\ LocalsOK'
  <2>1. pc' \in [Tasks -> Labels]
    BY <1>28 DEF TypeOK, LocalsOK, ReapWriter, Goto, TakeWriter, CallFinalize, Labels
  <2>2. held' \in [Tasks -> SUBSET Recs]
    BY <1>28 DEF TypeOK, LocalsOK, ReapWriter, Goto, TakeWriter, CallFinalize
  <2>3. writers' \in [Ssrcs -> Recs \cup {NoRec}]
    BY <1>28 DEF TypeOK, LocalsOK, ReapWriter, Goto, TakeWriter, CallFinalize
  <2>4. back' \in [Tasks -> {"off", "schedule", "reap", "writers", "paused", "done"}]
    BY <1>28 DEF TypeOK, LocalsOK, ReapWriter, Goto, TakeWriter, CallFinalize
  <2>5. at' \in [Tasks -> Ssrcs \cup {NoSsrc}]
    BY <1>28 DEF TypeOK, LocalsOK, ReapWriter, Goto, TakeWriter, CallFinalize
  <2>6. TypeOK'
    BY <1>28, <2>1, <2>2, <2>3, <2>4, <2>5 DEF TypeOK, ReapWriter, Goto, TakeWriter, CallFinalize
  <2>7. /\ pc'[t] \in {"finish", "reap"}
        /\ \A x \in Tasks \ {t} : pc'[x] = pc[x]
        /\ \A x \in Tasks \ {t} : at'[x] = at[x] /\ back'[x] = back[x]
        /\ nextToken' = nextToken
        /\ UNCHANGED event
        /\ pc'[t] = "finish" => back'[t] # "schedule"
    BY <1>28 DEF TypeOK, LocalsOK, ReapWriter, Goto, TakeWriter, CallFinalize
  <2>8. LocalsOK'
    BY <2>7, LocalsKept
  <2> QED BY <2>6, <2>8
<1>29. ASSUME NEW t \in Reapers, ReapDone(t)
      PROVE  TypeOK' /\ LocalsOK'
  <2>1. pc' \in [Tasks -> Labels]
    BY <1>29 DEF TypeOK, LocalsOK, ReapDone, Goto, Labels
  <2>2. TypeOK'
    BY <1>29, <2>1 DEF TypeOK, ReapDone, Goto
  <2>3. LocalsOK'
    BY <1>29 DEF TypeOK, LocalsOK, ReapDone, Goto
  <2> QED BY <2>2, <2>3
<1>30. ASSUME NEW t \in Closers, SnapshotWriters(t)
      PROVE  TypeOK' /\ LocalsOK'
  <2>1. pc' \in [Tasks -> Labels]
    BY <1>30 DEF TypeOK, LocalsOK, SnapshotWriters, Goto, Labels
  <2>2. todo' \in [Tasks -> SUBSET Ssrcs]
    BY <1>30 DEF TypeOK, LocalsOK, SnapshotWriters, Goto
  <2>3. TypeOK'
    BY <1>30, <2>1, <2>2 DEF TypeOK, SnapshotWriters, Goto
  <2>4. LocalsOK'
    BY <1>30 DEF TypeOK, LocalsOK, SnapshotWriters, Goto
  <2> QED BY <2>3, <2>4
<1>31. ASSUME NEW t \in Closers, NEW s \in Ssrcs, CloseWriter(t, s)
      PROVE  TypeOK' /\ LocalsOK'
  <2>1. pc' \in [Tasks -> Labels]
    BY <1>31 DEF TypeOK, LocalsOK, CloseWriter, Goto, TakeWriter, CallFinalize, Labels
  <2>2. todo' \in [Tasks -> SUBSET Ssrcs]
    BY <1>31 DEF TypeOK, LocalsOK, CloseWriter, Goto, TakeWriter, CallFinalize
  <2>3. held' \in [Tasks -> SUBSET Recs]
    BY <1>31 DEF TypeOK, LocalsOK, CloseWriter, Goto, TakeWriter, CallFinalize
  <2>4. writers' \in [Ssrcs -> Recs \cup {NoRec}]
    BY <1>31 DEF TypeOK, LocalsOK, CloseWriter, Goto, TakeWriter, CallFinalize
  <2>5. back' \in [Tasks -> {"off", "schedule", "reap", "writers", "paused", "done"}]
    BY <1>31 DEF TypeOK, LocalsOK, CloseWriter, Goto, TakeWriter, CallFinalize
  <2>6. TypeOK'
    BY <1>31, <2>1, <2>2, <2>3, <2>4, <2>5 DEF TypeOK, CloseWriter, Goto, TakeWriter, CallFinalize
  <2>7. /\ pc'[t] \in {"finish", "writers"}
        /\ \A x \in Tasks \ {t} : pc'[x] = pc[x]
        /\ \A x \in Tasks \ {t} : at'[x] = at[x] /\ back'[x] = back[x]
        /\ nextToken' = nextToken
        /\ UNCHANGED event
        /\ pc'[t] = "finish" => back'[t] # "schedule"
    BY <1>31 DEF TypeOK, LocalsOK, CloseWriter, Goto, TakeWriter, CallFinalize
  <2>8. LocalsOK'
    BY <2>7, LocalsKept
  <2> QED BY <2>6, <2>8
<1>32. ASSUME NEW t \in Closers, DrainPaused(t)
      PROVE  TypeOK' /\ LocalsOK'
  <2>1. pc' \in [Tasks -> Labels]
    BY <1>32 DEF TypeOK, LocalsOK, DrainPaused, Goto, PausedNow, Labels
  <2>2. held' \in [Tasks -> SUBSET Recs]
    BY <1>32 DEF TypeOK, LocalsOK, DrainPaused, Goto, PausedNow, Pauses, NoPause
  <2>3. paused' \in [Users -> Pauses \cup {NoPause}]
    BY <1>32 DEF TypeOK, LocalsOK, DrainPaused, Goto, PausedNow, Pauses, NoPause
  <2>4. TypeOK'
    BY <1>32, <2>1, <2>2, <2>3 DEF TypeOK, DrainPaused, Goto, PausedNow
  <2>5. LocalsOK'
    BY <1>32 DEF TypeOK, LocalsOK, DrainPaused, Goto, PausedNow
  <2> QED BY <2>4, <2>5
<1>33. ASSUME NEW t \in Closers, ClosePaused(t)
      PROVE  TypeOK' /\ LocalsOK'
  <2>1. pc' \in [Tasks -> Labels]
    BY <1>33 DEF TypeOK, LocalsOK, ClosePaused, Goto, CallFinalize, Labels
  <2>2. back' \in [Tasks -> {"off", "schedule", "reap", "writers", "paused", "done"}]
    BY <1>33 DEF TypeOK, LocalsOK, ClosePaused, Goto, CallFinalize
  <2>3. TypeOK'
    BY <1>33, <2>1, <2>2 DEF TypeOK, ClosePaused, Goto, CallFinalize
  <2>4. /\ pc'[t] \in {"finish", "clear_users"}
        /\ \A x \in Tasks \ {t} : pc'[x] = pc[x]
        /\ \A x \in Tasks \ {t} : at'[x] = at[x] /\ back'[x] = back[x]
        /\ nextToken' = nextToken
        /\ UNCHANGED event
        /\ pc'[t] = "finish" => back'[t] # "schedule"
    BY <1>33 DEF TypeOK, LocalsOK, ClosePaused, Goto, CallFinalize
  <2>5. LocalsOK'
    BY <2>4, LocalsKept
  <2> QED BY <2>3, <2>5
<1>34. ASSUME NEW t \in Closers, ClearUsers(t)
      PROVE  TypeOK' /\ LocalsOK'
  <2>1. pc' \in [Tasks -> Labels]
    BY <1>34 DEF TypeOK, LocalsOK, ClearUsers, Goto, Labels
  <2>2. userSsrc' \in [Users -> Ssrcs \cup {NoSsrc}]
    BY <1>34 DEF TypeOK, LocalsOK, ClearUsers, Goto
  <2>3. TypeOK'
    BY <1>34, <2>1, <2>2 DEF TypeOK, ClearUsers, Goto
  <2>4. LocalsOK'
    BY <1>34 DEF TypeOK, LocalsOK, ClearUsers, Goto
  <2> QED BY <2>3, <2>4
<1>35. ASSUME NEW t \in Closers, ClearPaused(t)
      PROVE  TypeOK' /\ LocalsOK'
  <2>1. pc' \in [Tasks -> Labels]
    BY <1>35 DEF TypeOK, LocalsOK, ClearPaused, Goto, EndOf, Labels
  <2>2. paused' \in [Users -> Pauses \cup {NoPause}]
    BY <1>35 DEF TypeOK, LocalsOK, ClearPaused, Goto, EndOf, Pauses, NoPause
  <2>3. botUser' \in [Users -> Ssrcs \cup {NoSsrc}]
    BY <1>35 DEF TypeOK, LocalsOK, ClearPaused, Goto, EndOf
  <2>4. TypeOK'
    BY <1>35, <2>1, <2>2, <2>3 DEF TypeOK, ClearPaused, Goto, EndOf
  <2>5. LocalsOK'
    BY <1>35 DEF TypeOK, LocalsOK, ClearPaused, Goto, EndOf
  <2> QED BY <2>4, <2>5
<1>36. ASSUME NEW t \in Tasks, FinishWriter(t)
      PROVE  TypeOK' /\ LocalsOK'
  <2>1. pc' \in [Tasks -> Labels]
    BY <1>36 DEF TypeOK, LocalsOK, FinishWriter, Goto, Labels
  <2>2. TypeOK'
    BY <1>36, <2>1 DEF TypeOK, FinishWriter, Goto
  <2>3. LocalsOK'
    BY <1>36 DEF TypeOK, LocalsOK, FinishWriter, Goto
  <2> QED BY <2>2, <2>3
<1>37. ASSUME NEW t \in Tasks, UpdateRow(t)
      PROVE  TypeOK' /\ LocalsOK'
  <2>1. pc' \in [Tasks -> Labels]
    BY <1>37 DEF TypeOK, LocalsOK, UpdateRow, Goto, Labels
  <2>2. held' \in [Tasks -> SUBSET Recs]
    BY <1>37 DEF TypeOK, LocalsOK, UpdateRow, Goto
  <2>3. row' \in [Recs -> {"none", "open", "closed"}]
    BY <1>37 DEF TypeOK, LocalsOK, UpdateRow, Goto
  <2>4. back' \in [Tasks -> {"off", "schedule", "reap", "writers", "paused", "done"}]
    BY <1>37 DEF TypeOK, LocalsOK, UpdateRow, Goto
  <2>5. TypeOK'
    BY <1>37, <2>1, <2>2, <2>3, <2>4 DEF TypeOK, UpdateRow, Goto
  <2>6. /\ pc'[t] \in {"off", "schedule", "reap", "writers", "paused", "done"}
        /\ \A x \in Tasks \ {t} : pc'[x] = pc[x]
        /\ UNCHANGED <<at, nextToken, event>>
        /\ pc[t] = "update" /\ pc'[t] = back[t]
        /\ \A x \in Tasks \ {t} : back'[x] = back[x]
    BY <1>37 DEF TypeOK, LocalsOK, UpdateRow, Goto
  <2>7. LocalsOK'
    BY <2>6 DEF LocalsOK
  <2> QED BY <2>5, <2>7
<1>39. ASSUME ScheduleOutage
      PROVE  TypeOK' /\ LocalsOK'
  <2>1. pc' \in [Tasks -> Labels]
    BY <1>39 DEF TypeOK, LocalsOK, ScheduleOutage, Labels
  <2>2. TypeOK'
    BY <1>39, <2>1 DEF TypeOK, ScheduleOutage
  <2>3. /\ pc'[Event] = "idle" /\ pc'[Health] = pc[Health]
        /\ \A x \in RejoinTasks : pc'[x] = pc[x]
        /\ UNCHANGED <<at, back, nextToken, event, prev, opened>>
    BY <1>39 DEF TypeOK, ScheduleOutage, Event, Health, Outage, Rejoin, Tasks, RejoinTasks
  <2>4. WorksAtOK' /\ CarriesOK'
    BY <2>3
  <2>5. ArmedOK'
    BY <2>3 DEF LocalsOK
  <2>6. ReapsOK'
    BY <2>3 DEF LocalsOK, Reapers
  <2> QED BY <2>2, <2>4, <2>5, <2>6 DEF LocalsOK
<1>38. CASE UNCHANGED vars
  BY <1>38 DEF vars, TypeOK, LocalsOK
<1> QED
  BY <1>1, <1>2, <1>3, <1>4, <1>5, <1>6, <1>7, <1>8, <1>9, <1>10, <1>11, <1>12, <1>13, <1>14, <1>15, <1>16, <1>17, <1>18, <1>19, <1>20, <1>21, <1>22, <1>23, <1>24, <1>25, <1>26, <1>27, <1>28, <1>29, <1>30, <1>31, <1>32, <1>33, <1>34, <1>35, <1>36, <1>37, <1>38, <1>39
     DEF Next, Deliver, EventStep, Timeout, SharedStep

\* The variables keep their types in every reachable state.  The part worth
\* having is the arithmetic of the bounds: a token is never handed to a timeout
\* task that does not exist, and an outage is never named that has no task.
THEOREM TypeCorrect == Spec => []TypeOK
<1>1. Init => TypeInv
  BY InitTypeInv
<1>2. TypeInv /\ [Next]_vars => TypeInv'
  BY NextTypeInv
<1>3. TypeInv => TypeOK
  BY DEF TypeInv
<1> QED BY <1>1, <1>2, <1>3, PTL DEF Spec

----
(***************************************************************************)
(* Who holds a recording: SingleOwner, FinalizedOnce and RecordsItsUser    *)
(* are invariants for any users, SSRCs and recordings.                     *)
(* The inductive invariant states them point by point, and adds what the   *)
(* steps rely on: what the maps say of users (MappedInv), and what a task  *)
(* knows of the recordings it has taken out of the maps.                   *)
(***************************************************************************)

\* A user is mapped to an SSRC of his own, and so is the event task's prev.
MappedInv ==
  /\ \A u \in Users : userSsrc[u] # NoSsrc => SsrcUser[userSsrc[u]] = u
  /\ pc[Event] = "remap" => SsrcUser[prev] = SsrcUser[at[Event]]

\* A timeout task that has not been spawned has done nothing: the one the
\* event task is about to spawn, those of later pauses, of later outages.
Scheduling ==
  \/ pc[Event] = "schedule"
  \/ pc[Event] \in {"finish", "update"} /\ back[Event] = "schedule"
SpawnInv ==
  /\ \A k \in 1..MaxPauses : k >= nextToken => pc[Rejoin(k)] = "off"
  /\ Scheduling => nextToken > 1 /\ pc[Rejoin(nextToken - 1)] = "off"
  /\ \A e \in 1..MaxOutages : e > outages => pc[Outage(e)] = "off"
  /\ pc[Event] = "suspend" => outages > 0 /\ pc[Outage(outages)] = "off"

\* No recording is under two SSRCs, paused twice, or both.
MapsDisjoint ==
  /\ \A s1, s2 \in Ssrcs :
       s1 # s2 /\ writers[s1] \in Recs => writers[s1] # writers[s2]
  /\ \A u1, u2 \in Users :
       u1 # u2 /\ paused[u1].rec \in Recs => paused[u1].rec # paused[u2].rec
  /\ \A s \in Ssrcs, u \in Users :
       writers[s] \in Recs => writers[s] # paused[u].rec

\* What a task holds is in no map and held by no other task.
HeldAlone ==
  /\ \A t \in Tasks, s \in Ssrcs : writers[s] \notin held[t]
  /\ \A t \in Tasks, u \in Users : paused[u].rec \notin held[t]
  /\ \A t1, t2 \in Tasks : t1 # t2 => \A r \in held[t1] : r \notin held[t2]

\* What is in the maps has an open row, is not finished, and is its user's.
MapsOpen ==
  /\ \A s \in Ssrcs : writers[s] \in Recs =>
       /\ row[writers[s]] = "open" /\ writers[s] \notin finished
       /\ RecUser[writers[s]] = SsrcUser[s]
  /\ \A u \in Users : paused[u].rec \in Recs =>
       /\ row[paused[u].rec] = "open" /\ paused[u].rec \notin finished
       /\ RecUser[paused[u].rec] = u

\* What a task holds has an open row; a task finishes one recording at a
\* time, and only between its Ogg stream's end and its UPDATE.
HeldOpen ==
  \A t \in Tasks :
    /\ \A r \in held[t] : row[r] = "open" /\ (r \in finished => pc[t] = "update")
    /\ \A r1, r2 \in held[t] : r1 \in finished /\ r2 \in finished => r1 = r2

\* What the event task carries while it resumes or parks a recording is of the
\* user it works for; the user it creates one for is no bot.
CarriedOpen ==
  /\ pc[Event] \in {"rejoin", "park"} =>
       \A r \in held[Event] : RecUser[r] = SsrcUser[at[Event]]
  /\ pc[Event] \in {"map", "claim", "create"} => SsrcUser[at[Event]] \notin Bots

\* A recording without a row was not finished, and a bot's never has a row.
RowsOpen ==
  /\ \A r \in finished : row[r] # "none"
  /\ \A r \in Recs : RecUser[r] \in Bots => row[r] = "none"

OwnerInv ==
  MapsDisjoint /\ HeldAlone /\ MapsOpen /\ HeldOpen /\ CarriedOpen /\ RowsOpen

IInv == TypeInv /\ MappedInv /\ SpawnInv /\ OwnerInv

----
LEMMA InitOwner == Init => MappedInv /\ SpawnInv /\ OwnerInv
<1> SUFFICES ASSUME Init PROVE MappedInv /\ SpawnInv /\ OwnerInv
  OBVIOUS
<1> USE TaskFacts, RecAssumption
<1>1. MappedInv
  BY DEF Init, MappedInv, Tasks, Reapers
<1>2. MapsDisjoint /\ MapsOpen
  BY DEF Init, MapsDisjoint, MapsOpen, NoPause
<1>3. HeldAlone /\ HeldOpen
  BY DEF Init, HeldAlone, HeldOpen
<1>4. CarriedOpen /\ RowsOpen
  BY DEF Init, CarriedOpen, RowsOpen, Reapers
<1>5. SpawnInv
  BY DEF Init, SpawnInv, Scheduling, Reapers
<1> QED BY <1>1, <1>2, <1>3, <1>4, <1>5 DEF OwnerInv


\* Every step keeps MappedInv: an entry is only ever written for the user of
\* the SSRC, and prev is read from the entry of the user who is speaking.
LEMMA NextMapped == TypeInv /\ MappedInv /\ [Next]_vars => MappedInv'
<1> SUFFICES ASSUME TypeInv, MappedInv, [Next]_vars PROVE MappedInv'
  OBVIOUS
<1> USE TaskFacts, SsrcAssumption
<1>0. /\ userSsrc \in [Users -> Ssrcs \cup {NoSsrc}]
      /\ pc \in [Tasks -> Labels] /\ at \in [Tasks -> Ssrcs \cup {NoSsrc}]
      /\ back \in [Tasks -> {"off", "schedule", "reap", "writers", "paused", "done"}]
      /\ LocalsOK
  BY DEF TypeInv, TypeOK
<1>1. ASSUME NEW s \in Ssrcs, SpeakingKnownBot(s) PROVE MappedInv'
  BY <1>0, <1>1 DEF maps, bots, link, books, local, event, MappedInv, SpeakingKnownBot
<1>2. ASSUME NEW s \in Ssrcs, Speaking(s) PROVE MappedInv'
  BY <1>0, <1>2 DEF maps, bots, link, books, local, event, MappedInv, Speaking, Goto
<1>3. ASSUME Remap PROVE MappedInv'
  BY <1>0, <1>3 DEF maps, bots, link, books, local, event, MappedInv, Remap, Goto
<1>4. ASSUME Bind PROVE MappedInv'
  BY <1>0, <1>4 DEF maps, bots, link, books, local, event, MappedInv, Bind, Goto, Return, LocalsOK, WorksAtOK
<1>5. ASSUME LookupFails PROVE MappedInv'
  BY <1>0, <1>5 DEF maps, bots, link, books, local, event, MappedInv, LookupFails, Goto, Return
<1>6. ASSUME LookupBot PROVE MappedInv'
  BY <1>0, <1>6 DEF maps, bots, link, books, local, event, MappedInv, LookupBot, Goto, Return
<1>7. ASSUME LookupHuman PROVE MappedInv'
  BY <1>0, <1>7 DEF maps, bots, link, books, local, event, MappedInv, LookupHuman, Goto
<1>8. ASSUME RejoinWriter PROVE MappedInv'
  BY <1>0, <1>8 DEF maps, bots, link, books, local, event, MappedInv, RejoinWriter, Goto
<1>9. ASSUME MapUser PROVE MappedInv'
  BY <1>0, <1>9 DEF maps, bots, link, books, local, event, MappedInv, MapUser, Goto, LocalsOK, WorksAtOK
<1>10. ASSUME ClaimSsrc PROVE MappedInv'
  BY <1>0, <1>10 DEF maps, bots, link, books, local, event, MappedInv, ClaimSsrc, Goto, Return
<1>11. ASSUME NEW r \in Recs, CreateWriter(r) PROVE MappedInv'
  BY <1>0, <1>11 DEF maps, bots, link, books, local, event, MappedInv, CreateWriter, Goto
<1>12. ASSUME InsertFails PROVE MappedInv'
  BY <1>0, <1>12 DEF maps, bots, link, books, local, event, MappedInv, InsertFails, Goto, Return
<1>13. ASSUME NEW r \in Recs, FileFails(r) PROVE MappedInv'
  BY <1>0, <1>13 DEF maps, bots, link, books, local, event, MappedInv, FileFails, Goto, Return
<1>14. ASSUME CountStarted PROVE MappedInv'
  BY <1>0, <1>14 DEF maps, bots, link, books, local, event, MappedInv, CountStarted, Goto, Return
<1>15. ASSUME NEW u \in Users, BotLeaves(u) PROVE MappedInv'
  BY <1>0, <1>15 DEF maps, bots, link, books, local, event, MappedInv, BotLeaves
<1>16. ASSUME NEW u \in Users, UserLeaves(u) PROVE MappedInv'
  BY <1>0, <1>16 DEF maps, bots, link, books, local, event, MappedInv, UserLeaves, Goto
<1>17. ASSUME DetachWriter PROVE MappedInv'
  BY <1>0, <1>17 DEF maps, bots, link, books, local, event, MappedInv, DetachWriter, Goto, Return
<1>18. ASSUME ParkRecording PROVE MappedInv'
  BY <1>0, <1>18 DEF maps, bots, link, books, local, event, MappedInv, ParkRecording, Goto, CallFinalize
<1>19. ASSUME ScheduleRejoin PROVE MappedInv'
  BY <1>0, <1>19 DEF maps, bots, link, books, local, event, MappedInv, ScheduleRejoin
<1>20. ASSUME NEW k \in 1..MaxPauses, RejoinTimeout(k) PROVE MappedInv'
  BY <1>0, <1>20 DEF maps, bots, link, books, local, event, MappedInv, RejoinTimeout, Goto, CallFinalize, PausedTimeoutMatches
<1>21. ASSUME RecoverableDisconnect PROVE MappedInv'
  BY <1>0, <1>21 DEF maps, bots, link, books, local, event, MappedInv, RecoverableDisconnect, Goto
<1>22. ASSUME FinalDisconnect PROVE MappedInv'
  BY <1>0, <1>22 DEF maps, bots, link, books, local, event, MappedInv, FinalDisconnect, Goto
<1>23. ASSUME NEW e \in 1..MaxOutages, OutageTimeout(e) PROVE MappedInv'
  BY <1>0, <1>23 DEF maps, bots, link, books, local, event, MappedInv, OutageTimeout, Goto
<1>24. ASSUME DriverConnects PROVE MappedInv'
  BY <1>0, <1>24 DEF maps, bots, link, books, local, event, MappedInv, DriverConnects, Goto
<1>25. ASSUME SurveyUsers PROVE MappedInv'
  BY <1>0, <1>25 DEF maps, bots, link, books, local, event, MappedInv, SurveyUsers, Goto, Mapped
<1>26. ASSUME HealthCheck PROVE MappedInv'
  BY <1>0, <1>26 DEF maps, bots, link, books, local, event, MappedInv, HealthCheck, Goto, Mapped
<1>27. ASSUME NEW t \in Reapers, NEW s \in Ssrcs, ReapUser(t, s) PROVE MappedInv'
  BY <1>0, <1>27 DEF maps, bots, link, books, local, event, MappedInv, ReapUser, Goto
<1>28. ASSUME NEW t \in Reapers, ReapWriter(t) PROVE MappedInv'
  BY <1>0, <1>28 DEF maps, bots, link, books, local, event, MappedInv, ReapWriter, Goto, TakeWriter, CallFinalize
<1>29. ASSUME NEW t \in Reapers, ReapDone(t) PROVE MappedInv'
  BY <1>0, <1>29 DEF maps, bots, link, books, local, event, MappedInv, ReapDone, Goto
<1>30. ASSUME NEW t \in Closers, SnapshotWriters(t) PROVE MappedInv'
  BY <1>0, <1>30 DEF maps, bots, link, books, local, event, MappedInv, SnapshotWriters, Goto
<1>31. ASSUME NEW t \in Closers, NEW s \in Ssrcs, CloseWriter(t, s) PROVE MappedInv'
  BY <1>0, <1>31 DEF maps, bots, link, books, local, event, MappedInv, CloseWriter, Goto, TakeWriter, CallFinalize
<1>32. ASSUME NEW t \in Closers, DrainPaused(t) PROVE MappedInv'
  BY <1>0, <1>32 DEF maps, bots, link, books, local, event, MappedInv, DrainPaused, Goto, PausedNow
<1>33. ASSUME NEW t \in Closers, ClosePaused(t) PROVE MappedInv'
  BY <1>0, <1>33 DEF maps, bots, link, books, local, event, MappedInv, ClosePaused, Goto, CallFinalize
<1>34. ASSUME NEW t \in Closers, ClearUsers(t) PROVE MappedInv'
  BY <1>0, <1>34 DEF maps, bots, link, books, local, event, MappedInv, ClearUsers, Goto
<1>35. ASSUME NEW t \in Closers, ClearPaused(t) PROVE MappedInv'
  BY <1>0, <1>35 DEF maps, bots, link, books, local, event, MappedInv, ClearPaused, Goto, EndOf
<1>36. ASSUME NEW t \in Tasks, FinishWriter(t) PROVE MappedInv'
  BY <1>0, <1>36 DEF maps, bots, link, books, local, event, MappedInv, FinishWriter, Goto
<1>37. ASSUME NEW t \in Tasks, UpdateRow(t) PROVE MappedInv'
  BY <1>0, <1>37 DEF maps, bots, link, books, local, event, MappedInv, UpdateRow, Goto
<1>39. ASSUME ScheduleOutage PROVE MappedInv'
  BY <1>0, <1>39 DEF maps, bots, link, books, local, event, MappedInv, ScheduleOutage
<1>38. CASE UNCHANGED vars
  BY <1>38 DEF vars, maps, local, event, MappedInv
<1> QED
  BY <1>1, <1>2, <1>3, <1>4, <1>5, <1>6, <1>7, <1>8, <1>9, <1>10, <1>11,
     <1>12, <1>13, <1>14, <1>15, <1>16, <1>17, <1>18, <1>19, <1>20, <1>21,
     <1>22, <1>23, <1>24, <1>25, <1>26, <1>27, <1>28, <1>29, <1>30, <1>31,
     <1>32, <1>33, <1>34, <1>35, <1>36, <1>37, <1>38, <1>39
     DEF Next, Deliver, EventStep, Timeout, SharedStep

\* Every step keeps SpawnInv: a task moves on only after it has been spawned.
LEMMA NextSpawn == TypeInv /\ SpawnInv /\ [Next]_vars => SpawnInv'
<1> SUFFICES ASSUME TypeInv, SpawnInv, [Next]_vars PROVE SpawnInv'
  OBVIOUS
<1> USE TaskFacts, BoundAssumption
<1>0. /\ nextToken \in 1..MaxPauses + 1 /\ outages \in 0..MaxOutages
      /\ pc \in [Tasks -> Labels]
      /\ back \in [Tasks -> {"off", "schedule", "reap", "writers", "paused", "done"}]
      /\ LocalsOK
  BY DEF TypeInv, TypeOK
<1>1. ASSUME NEW s \in Ssrcs, SpeakingKnownBot(s) PROVE SpawnInv'
  BY <1>0, <1>1 DEF link, local, SpawnInv, Scheduling, SpeakingKnownBot
<1>2. ASSUME NEW s \in Ssrcs, Speaking(s) PROVE SpawnInv'
  BY <1>0, <1>2 DEF link, local, SpawnInv, Scheduling, Speaking, Goto
<1>3. ASSUME Remap PROVE SpawnInv'
  BY <1>0, <1>3 DEF link, local, SpawnInv, Scheduling, Remap, Goto
<1>4. ASSUME Bind PROVE SpawnInv'
  BY <1>0, <1>4 DEF link, local, SpawnInv, Scheduling, Bind, Goto, Return
<1>5. ASSUME LookupFails PROVE SpawnInv'
  BY <1>0, <1>5 DEF link, local, SpawnInv, Scheduling, LookupFails, Goto, Return
<1>6. ASSUME LookupBot PROVE SpawnInv'
  BY <1>0, <1>6 DEF link, local, SpawnInv, Scheduling, LookupBot, Goto, Return
<1>7. ASSUME LookupHuman PROVE SpawnInv'
  BY <1>0, <1>7 DEF link, local, SpawnInv, Scheduling, LookupHuman, Goto
<1>8. ASSUME RejoinWriter PROVE SpawnInv'
  BY <1>0, <1>8 DEF link, local, SpawnInv, Scheduling, RejoinWriter, Goto
<1>9. ASSUME MapUser PROVE SpawnInv'
  BY <1>0, <1>9 DEF link, local, SpawnInv, Scheduling, MapUser, Goto
<1>10. ASSUME ClaimSsrc PROVE SpawnInv'
  BY <1>0, <1>10 DEF link, local, SpawnInv, Scheduling, ClaimSsrc, Goto, Return
<1>11. ASSUME NEW r \in Recs, CreateWriter(r) PROVE SpawnInv'
  BY <1>0, <1>11 DEF link, local, SpawnInv, Scheduling, CreateWriter, Goto
<1>12. ASSUME InsertFails PROVE SpawnInv'
  BY <1>0, <1>12 DEF link, local, SpawnInv, Scheduling, InsertFails, Goto, Return
<1>13. ASSUME NEW r \in Recs, FileFails(r) PROVE SpawnInv'
  BY <1>0, <1>13 DEF link, local, SpawnInv, Scheduling, FileFails, Goto, Return
<1>14. ASSUME CountStarted PROVE SpawnInv'
  BY <1>0, <1>14 DEF link, local, SpawnInv, Scheduling, CountStarted, Goto, Return
<1>15. ASSUME NEW u \in Users, BotLeaves(u) PROVE SpawnInv'
  BY <1>0, <1>15 DEF link, local, SpawnInv, Scheduling, BotLeaves
<1>16. ASSUME NEW u \in Users, UserLeaves(u) PROVE SpawnInv'
  BY <1>0, <1>16 DEF link, local, SpawnInv, Scheduling, UserLeaves, Goto
<1>17. ASSUME DetachWriter PROVE SpawnInv'
  BY <1>0, <1>17 DEF link, local, SpawnInv, Scheduling, DetachWriter, Goto, Return
<1>18. ASSUME ParkRecording PROVE SpawnInv'
  BY <1>0, <1>18 DEF link, local, SpawnInv, Scheduling, ParkRecording, Goto, CallFinalize, LocalsOK, CarriesOK
<1>19. ASSUME ScheduleRejoin PROVE SpawnInv'
  BY <1>0, <1>19 DEF link, local, SpawnInv, Scheduling, ScheduleRejoin
<1>20. ASSUME NEW k \in 1..MaxPauses, RejoinTimeout(k) PROVE SpawnInv'
  BY <1>0, <1>20 DEF link, local, SpawnInv, Scheduling, RejoinTimeout, Goto, CallFinalize, PausedTimeoutMatches
<1>21. ASSUME RecoverableDisconnect PROVE SpawnInv'
  BY <1>0, <1>21 DEF link, local, SpawnInv, Scheduling, RecoverableDisconnect, Goto
<1>22. ASSUME FinalDisconnect PROVE SpawnInv'
  BY <1>0, <1>22 DEF link, local, SpawnInv, Scheduling, FinalDisconnect, Goto
<1>23. ASSUME NEW e \in 1..MaxOutages, OutageTimeout(e) PROVE SpawnInv'
  BY <1>0, <1>23 DEF link, local, SpawnInv, Scheduling, OutageTimeout, Goto
<1>24. ASSUME DriverConnects PROVE SpawnInv'
  BY <1>0, <1>24 DEF link, local, SpawnInv, Scheduling, DriverConnects, Goto
<1>25. ASSUME SurveyUsers PROVE SpawnInv'
  BY <1>0, <1>25 DEF link, local, SpawnInv, Scheduling, SurveyUsers, Goto, Mapped
<1>26. ASSUME HealthCheck PROVE SpawnInv'
  BY <1>0, <1>26 DEF link, local, SpawnInv, Scheduling, HealthCheck, Goto, Mapped
<1>27. ASSUME NEW t \in Reapers, NEW s \in Ssrcs, ReapUser(t, s) PROVE SpawnInv'
  BY <1>0, <1>27 DEF link, local, SpawnInv, Scheduling, ReapUser, Goto
<1>28. ASSUME NEW t \in Reapers, ReapWriter(t) PROVE SpawnInv'
  BY <1>0, <1>28 DEF link, local, SpawnInv, Scheduling, ReapWriter, Goto, TakeWriter, CallFinalize
<1>29. ASSUME NEW t \in Reapers, ReapDone(t) PROVE SpawnInv'
  BY <1>0, <1>29 DEF link, local, SpawnInv, Scheduling, ReapDone, Goto
<1>30. ASSUME NEW t \in Closers, SnapshotWriters(t) PROVE SpawnInv'
  BY <1>0, <1>30 DEF link, local, SpawnInv, Scheduling, SnapshotWriters, Goto
<1>31. ASSUME NEW t \in Closers, NEW s \in Ssrcs, CloseWriter(t, s) PROVE SpawnInv'
  BY <1>0, <1>31 DEF link, local, SpawnInv, Scheduling, CloseWriter, Goto, TakeWriter, CallFinalize
<1>32. ASSUME NEW t \in Closers, DrainPaused(t) PROVE SpawnInv'
  BY <1>0, <1>32 DEF link, local, SpawnInv, Scheduling, DrainPaused, Goto, PausedNow
<1>33. ASSUME NEW t \in Closers, ClosePaused(t) PROVE SpawnInv'
  BY <1>0, <1>33 DEF link, local, SpawnInv, Scheduling, ClosePaused, Goto, CallFinalize
<1>34. ASSUME NEW t \in Closers, ClearUsers(t) PROVE SpawnInv'
  BY <1>0, <1>34 DEF link, local, SpawnInv, Scheduling, ClearUsers, Goto
<1>35. ASSUME NEW t \in Closers, ClearPaused(t) PROVE SpawnInv'
  BY <1>0, <1>35 DEF link, local, SpawnInv, Scheduling, ClearPaused, Goto, EndOf
<1>36. ASSUME NEW t \in Tasks, FinishWriter(t) PROVE SpawnInv'
  BY <1>0, <1>36 DEF link, local, SpawnInv, Scheduling, FinishWriter, Goto
<1>37. ASSUME NEW t \in Tasks, UpdateRow(t) PROVE SpawnInv'
  BY <1>0, <1>37 DEF link, local, SpawnInv, Scheduling, UpdateRow, Goto
<1>39. ASSUME ScheduleOutage PROVE SpawnInv'
  BY <1>0, <1>39 DEF link, local, SpawnInv, Scheduling, ScheduleOutage
<1>38. CASE UNCHANGED vars
  BY <1>38 DEF vars, link, local, SpawnInv, Scheduling
<1> QED
  BY <1>1, <1>2, <1>3, <1>4, <1>5, <1>6, <1>7, <1>8, <1>9, <1>10, <1>11,
     <1>12, <1>13, <1>14, <1>15, <1>16, <1>17, <1>18, <1>19, <1>20, <1>21,
     <1>22, <1>23, <1>24, <1>25, <1>26, <1>27, <1>28, <1>29, <1>30, <1>31,
     <1>32, <1>33, <1>34, <1>35, <1>36, <1>37, <1>38, <1>39
     DEF Next, Deliver, EventStep, Timeout, SharedStep

\* A step that leaves the maps, the hands of the tasks and the books alone,
\* ends no UPDATE and starts no work on a recording, keeps OwnerInv.
LEMMA OwnerKept ==
  ASSUME OwnerInv,
         writers' = writers, paused' = paused, held' = held,
         row' = row, finished' = finished,
         \A t \in Tasks : pc[t] = "update" => pc'[t] = "update",
         pc'[Event] \in {"rejoin", "park"} =>
           pc[Event] = pc'[Event] /\ at'[Event] = at[Event],
         pc'[Event] \in {"map", "claim", "create"} =>
           \/ pc[Event] \in {"map", "claim", "create"} /\ at'[Event] = at[Event]
           \/ SsrcUser[at'[Event]] \notin Bots
  PROVE  OwnerInv'
<1>1. MapsDisjoint' /\ MapsOpen'
  BY DEF OwnerInv, MapsDisjoint, MapsOpen
<1>2. HeldAlone' /\ HeldOpen'
  BY DEF OwnerInv, HeldAlone, HeldOpen
<1>3. CarriedOpen' /\ RowsOpen'
  BY DEF OwnerInv, CarriedOpen, RowsOpen
<1> QED BY <1>1, <1>2, <1>3 DEF OwnerInv

\* Taking a writer out of the map, or a paused recording, into the hands of a
\* task leaves each recording in one place.
LEMMA TakenFromWriters ==
  ASSUME OwnerInv,
         writers \in [Ssrcs -> Recs \cup {NoRec}], held \in [Tasks -> SUBSET Recs],
         NEW t \in Tasks, NEW s \in Ssrcs, writers[s] \in Recs,
         writers' = [writers EXCEPT ![s] = NoRec],
         held' = [held EXCEPT ![t] = {writers[s]}],
         paused' = paused, row' = row, finished' = finished,
         \A x \in Tasks \ {t} : pc'[x] = pc[x],
         CarriedOpen'
  PROVE  OwnerInv'
<1> USE RecAssumption
<1>1. /\ writers'[s] = NoRec
      /\ \A x \in Ssrcs \ {s} : writers'[x] = writers[x] /\ (x # s => writers[x] # writers[s])
  BY DEF OwnerInv, MapsDisjoint
<1>2. held'[t] = {writers[s]} /\ \A x \in Tasks \ {t} : held'[x] = held[x]
  OBVIOUS
<1>3. MapsDisjoint'
  BY <1>1 DEF OwnerInv, MapsDisjoint
<1>4. HeldAlone'
  BY <1>1, <1>2 DEF OwnerInv, HeldAlone, MapsDisjoint
<1>5. MapsOpen'
  BY <1>1 DEF OwnerInv, MapsOpen
<1>6. HeldOpen'
  <2>1. row[writers[s]] = "open" /\ writers[s] \notin finished
    BY DEF OwnerInv, MapsOpen
  <2> QED BY <2>1, <1>2 DEF OwnerInv, HeldOpen
<1>7. RowsOpen'
  BY DEF OwnerInv, RowsOpen
<1> QED BY <1>3, <1>4, <1>5, <1>6, <1>7 DEF OwnerInv

LEMMA TakenFromPaused ==
  ASSUME OwnerInv,
         writers \in [Ssrcs -> Recs \cup {NoRec}], held \in [Tasks -> SUBSET Recs],
         paused \in [Users -> Pauses \cup {NoPause}],
         NEW t \in Tasks, NEW u \in Users, paused[u].rec \in Recs,
         writers' = writers,
         held' = [held EXCEPT ![t] = {paused[u].rec}],
         paused' = [paused EXCEPT ![u] = NoPause],
         row' = row, finished' = finished,
         \A x \in Tasks \ {t} : pc'[x] = pc[x],
         CarriedOpen'
  PROVE  OwnerInv'
<1> USE RecAssumption
<1>1. /\ paused'[u].rec = NoRec
      /\ \A x \in Users \ {u} : paused'[x] = paused[x] /\ paused[x].rec # paused[u].rec
  BY DEF OwnerInv, MapsDisjoint, NoPause
<1>2. held'[t] = {paused[u].rec} /\ \A x \in Tasks \ {t} : held'[x] = held[x]
  OBVIOUS
<1>3. MapsDisjoint'
  BY <1>1 DEF OwnerInv, MapsDisjoint
<1>4. HeldAlone'
  BY <1>1, <1>2 DEF OwnerInv, HeldAlone, MapsDisjoint
<1>5. MapsOpen'
  BY <1>1 DEF OwnerInv, MapsOpen
<1>6. HeldOpen'
  <2>1. row[paused[u].rec] = "open" /\ paused[u].rec \notin finished
    BY DEF OwnerInv, MapsOpen
  <2> QED BY <2>1, <1>2 DEF OwnerInv, HeldOpen
<1>7. RowsOpen'
  BY DEF OwnerInv, RowsOpen
<1> QED BY <1>3, <1>4, <1>5, <1>6, <1>7 DEF OwnerInv

\* Every step keeps OwnerInv.
LEMMA NextOwner ==
  TypeInv /\ MappedInv /\ SpawnInv /\ OwnerInv /\ [Next]_vars => OwnerInv'
<1> SUFFICES ASSUME TypeInv, MappedInv, SpawnInv, OwnerInv, [Next]_vars
             PROVE  OwnerInv'
  OBVIOUS
<1> USE TaskFacts, SsrcAssumption, RecAssumption
<1>a. /\ userSsrc \in [Users -> Ssrcs \cup {NoSsrc}]
      /\ writers \in [Ssrcs -> Recs \cup {NoRec}]
      /\ paused \in [Users -> Pauses \cup {NoPause}]
      /\ row \in [Recs -> {"none", "open", "closed"}]
      /\ finished \in SUBSET Recs /\ held \in [Tasks -> SUBSET Recs]
  BY DEF TypeInv, TypeOK
<1>b. /\ pc \in [Tasks -> Labels] /\ at \in [Tasks -> Ssrcs \cup {NoSsrc}]
      /\ back \in [Tasks -> {"off", "schedule", "reap", "writers", "paused", "done"}]
      /\ LocalsOK /\ nextToken \in 1..MaxPauses + 1 /\ outages \in 0..MaxOutages
  BY DEF TypeInv, TypeOK
<1>c. \A u \in Users : paused[u].rec \in Recs \cup {NoRec}
  BY <1>a DEF Pauses, NoPause
<1>1. ASSUME NEW s \in Ssrcs, SpeakingKnownBot(s) PROVE OwnerInv'
  BY <1>b, <1>1, OwnerKept DEF maps, books, local, SpeakingKnownBot
<1>2. ASSUME NEW s \in Ssrcs, Speaking(s) PROVE OwnerInv'
  BY <1>b, <1>2, OwnerKept DEF maps, books, local, Speaking, Goto
<1>3. ASSUME Remap PROVE OwnerInv'
  <2>1. /\ prev \in Ssrcs /\ at[Event] \in Ssrcs
        /\ SsrcUser[prev] = SsrcUser[at[Event]]
    BY <1>b, <1>3 DEF MappedInv, LocalsOK, WorksAtOK, CarriesOK, Remap
  <2>2. CASE writers[prev] = NoRec
    BY <1>b, <1>3, <2>2, OwnerKept DEF maps, books, local, Remap, Goto
  <2>3. CASE writers[prev] # NoRec
    <3>1. /\ paused' = paused /\ held' = held /\ row' = row /\ finished' = finished
          /\ pc[Event] = "remap" /\ pc'[Event] = "bind"
          /\ \A t \in Tasks \ {Event} : pc'[t] = pc[t]
      BY <1>b, <1>3, <2>3 DEF maps, books, local, Remap, Goto
    <3>2. writers' = [writers EXCEPT ![prev] = NoRec, ![at[Event]] = writers[prev]]
      BY <1>3, <2>3 DEF Remap
    <3>3. /\ writers'[at[Event]] = writers[prev]
          /\ prev # at[Event] => writers'[prev] = NoRec
          /\ \A s \in Ssrcs \ {prev, at[Event]} : writers'[s] = writers[s]
      BY <1>a, <2>1, <3>2
    <3>4. MapsDisjoint'
      <4> DEFINE from(s) == IF s = at[Event] THEN prev ELSE s
      <4>1. \A s \in Ssrcs : writers'[s] \in Recs =>
              from(s) \in Ssrcs /\ writers'[s] = writers[from(s)]
        BY <2>1, <3>3
      <4>2. \A s1, s2 \in Ssrcs : writers'[s1] \in Recs /\ writers'[s2] \in Recs /\ s1 # s2 =>
              from(s1) # from(s2)
        BY <2>1, <3>3
      <4> HIDE DEF from
      <4>3. \A s1, s2 \in Ssrcs : s1 # s2 /\ writers'[s1] \in Recs => writers'[s1] # writers'[s2]
        BY <4>1, <4>2 DEF OwnerInv, MapsDisjoint
      <4>4. \A s \in Ssrcs, u \in Users : writers'[s] \in Recs => writers'[s] # paused'[u].rec
        BY <3>1, <4>1 DEF OwnerInv, MapsDisjoint
      <4> QED BY <3>1, <4>3, <4>4 DEF OwnerInv, MapsDisjoint
    <3>5. HeldAlone'
      BY <1>a, <2>1, <3>1, <3>3 DEF OwnerInv, HeldAlone
    <3>6. MapsOpen'
      BY <1>a, <2>1, <3>1, <3>3 DEF OwnerInv, MapsOpen
    <3>7. HeldOpen' /\ CarriedOpen' /\ RowsOpen'
      BY <3>1 DEF OwnerInv, HeldOpen, CarriedOpen, RowsOpen
    <3> QED BY <3>4, <3>5, <3>6, <3>7 DEF OwnerInv
  <2> QED BY <2>2, <2>3
<1>4. ASSUME Bind PROVE OwnerInv'
  BY <1>b, <1>4, OwnerKept DEF maps, books, local, Bind, Goto, Return
<1>5. ASSUME LookupFails PROVE OwnerInv'
  BY <1>b, <1>5, OwnerKept DEF maps, books, local, LookupFails, Goto, Return
<1>6. ASSUME LookupBot PROVE OwnerInv'
  BY <1>b, <1>6, OwnerKept DEF maps, books, local, LookupBot, Goto, Return
<1>7. ASSUME LookupHuman PROVE OwnerInv'
  <2>1. SsrcUser[at[Event]] \in Users
    BY <1>b, <1>7 DEF LocalsOK, WorksAtOK, ArmedOK, ReapsOK, LookupHuman
  <2>2. /\ row' = row /\ finished' = finished /\ writers' = writers
        /\ \A x \in Tasks \ {Event} : pc'[x] = pc[x]
    BY <1>b, <1>7 DEF books, maps, LookupHuman, Goto
  <2>3. CASE paused[SsrcUser[at[Event]]].rec \in Recs
    <3>1. /\ paused[SsrcUser[at[Event]]].rec \in Recs
          /\ paused' = [paused EXCEPT ![SsrcUser[at[Event]]] = NoPause]
          /\ held' = [held EXCEPT ![Event] = {paused[SsrcUser[at[Event]]].rec}]
      BY <1>a, <1>7, <2>1, <2>3 DEF Pauses, NoPause, LookupHuman, Goto, IsBot, NoPause
    <3>2. CarriedOpen'
      BY <1>a, <1>b, <1>7, <2>1, <2>3 DEF OwnerInv, CarriedOpen, MapsOpen, local, LookupHuman, Goto, IsBot, NoPause
    <3> QED BY <1>a, <2>1, <2>2, <3>1, <3>2, TakenFromPaused
  <2>4. CASE ~(paused[SsrcUser[at[Event]]].rec \in Recs)
    BY <1>a, <1>b, <1>c, <1>7, <2>1, <2>4, OwnerKept DEF OwnerInv, CarriedOpen, maps, books, local, LookupHuman, Goto, IsBot, NoPause
  <2> QED BY <2>3, <2>4
<1>8. ASSUME RejoinWriter PROVE OwnerInv'
  <2>1. MapsDisjoint'
    BY <1>a, <1>b, <1>c, <1>8 DEF OwnerInv, MapsDisjoint, HeldAlone, MapsOpen, HeldOpen, CarriedOpen, RowsOpen, maps, books, local, LocalsOK, WorksAtOK, RejoinWriter, Goto
  <2>2. HeldAlone'
    BY <1>a, <1>b, <1>c, <1>8 DEF OwnerInv, MapsDisjoint, HeldAlone, MapsOpen, HeldOpen, CarriedOpen, RowsOpen, maps, books, local, LocalsOK, WorksAtOK, RejoinWriter, Goto
  <2>3. MapsOpen'
    BY <1>a, <1>b, <1>c, <1>8 DEF OwnerInv, MapsDisjoint, HeldAlone, MapsOpen, HeldOpen, CarriedOpen, RowsOpen, maps, books, local, LocalsOK, WorksAtOK, RejoinWriter, Goto
  <2>4. HeldOpen'
    BY <1>a, <1>b, <1>c, <1>8 DEF OwnerInv, MapsDisjoint, HeldAlone, MapsOpen, HeldOpen, CarriedOpen, RowsOpen, maps, books, local, LocalsOK, WorksAtOK, RejoinWriter, Goto
  <2>5. CarriedOpen'
    BY <1>a, <1>b, <1>c, <1>8 DEF OwnerInv, MapsDisjoint, HeldAlone, MapsOpen, HeldOpen, CarriedOpen, RowsOpen, maps, books, local, LocalsOK, WorksAtOK, RejoinWriter, Goto
  <2>6. RowsOpen'
    BY <1>a, <1>b, <1>c, <1>8 DEF OwnerInv, MapsDisjoint, HeldAlone, MapsOpen, HeldOpen, CarriedOpen, RowsOpen, maps, books, local, LocalsOK, WorksAtOK, RejoinWriter, Goto
  <2> QED BY <2>1, <2>2, <2>3, <2>4, <2>5, <2>6 DEF OwnerInv
<1>9. ASSUME MapUser PROVE OwnerInv'
  BY <1>b, <1>9, OwnerKept DEF maps, books, local, MapUser, Goto
<1>10. ASSUME ClaimSsrc PROVE OwnerInv'
  BY <1>b, <1>10, OwnerKept DEF maps, books, local, ClaimSsrc, Goto, Return
<1>11. ASSUME NEW r \in Recs, CreateWriter(r) PROVE OwnerInv'
  <2>1. MapsDisjoint'
    BY <1>a, <1>b, <1>c, <1>11 DEF OwnerInv, MapsDisjoint, HeldAlone, MapsOpen, HeldOpen, CarriedOpen, RowsOpen, maps, books, local, LocalsOK, WorksAtOK, CreateWriter, Goto
  <2>2. HeldAlone'
    BY <1>a, <1>b, <1>c, <1>11 DEF OwnerInv, MapsDisjoint, HeldAlone, MapsOpen, HeldOpen, CarriedOpen, RowsOpen, maps, books, local, LocalsOK, WorksAtOK, CreateWriter, Goto
  <2>3. MapsOpen'
    BY <1>a, <1>b, <1>c, <1>11 DEF OwnerInv, MapsDisjoint, HeldAlone, MapsOpen, HeldOpen, CarriedOpen, RowsOpen, maps, books, local, LocalsOK, WorksAtOK, CreateWriter, Goto
  <2>4. HeldOpen'
    BY <1>a, <1>b, <1>c, <1>11 DEF OwnerInv, MapsDisjoint, HeldAlone, MapsOpen, HeldOpen, CarriedOpen, RowsOpen, maps, books, local, LocalsOK, WorksAtOK, CreateWriter, Goto
  <2>5. CarriedOpen'
    BY <1>a, <1>b, <1>c, <1>11 DEF OwnerInv, MapsDisjoint, HeldAlone, MapsOpen, HeldOpen, CarriedOpen, RowsOpen, maps, books, local, LocalsOK, WorksAtOK, CreateWriter, Goto
  <2>6. RowsOpen'
    BY <1>a, <1>b, <1>c, <1>11 DEF OwnerInv, MapsDisjoint, HeldAlone, MapsOpen, HeldOpen, CarriedOpen, RowsOpen, maps, books, local, LocalsOK, WorksAtOK, CreateWriter, Goto
  <2> QED BY <2>1, <2>2, <2>3, <2>4, <2>5, <2>6 DEF OwnerInv
<1>12. ASSUME InsertFails PROVE OwnerInv'
  BY <1>b, <1>12, OwnerKept DEF maps, books, local, InsertFails, Goto, Return
<1>13. ASSUME NEW r \in Recs, FileFails(r) PROVE OwnerInv'
  <2>1. MapsDisjoint'
    BY <1>a, <1>b, <1>c, <1>13 DEF OwnerInv, MapsDisjoint, HeldAlone, MapsOpen, HeldOpen, CarriedOpen, RowsOpen, maps, books, local, LocalsOK, WorksAtOK, FileFails, Goto, Return
  <2>2. HeldAlone'
    BY <1>a, <1>b, <1>c, <1>13 DEF OwnerInv, MapsDisjoint, HeldAlone, MapsOpen, HeldOpen, CarriedOpen, RowsOpen, maps, books, local, LocalsOK, WorksAtOK, FileFails, Goto, Return
  <2>3. MapsOpen'
    BY <1>a, <1>b, <1>c, <1>13 DEF OwnerInv, MapsDisjoint, HeldAlone, MapsOpen, HeldOpen, CarriedOpen, RowsOpen, maps, books, local, LocalsOK, WorksAtOK, FileFails, Goto, Return
  <2>4. HeldOpen'
    BY <1>a, <1>b, <1>c, <1>13 DEF OwnerInv, MapsDisjoint, HeldAlone, MapsOpen, HeldOpen, CarriedOpen, RowsOpen, maps, books, local, LocalsOK, WorksAtOK, FileFails, Goto, Return
  <2>5. CarriedOpen'
    BY <1>a, <1>b, <1>c, <1>13 DEF OwnerInv, MapsDisjoint, HeldAlone, MapsOpen, HeldOpen, CarriedOpen, RowsOpen, maps, books, local, LocalsOK, WorksAtOK, FileFails, Goto, Return
  <2>6. RowsOpen'
    BY <1>a, <1>b, <1>c, <1>13 DEF OwnerInv, MapsDisjoint, HeldAlone, MapsOpen, HeldOpen, CarriedOpen, RowsOpen, maps, books, local, LocalsOK, WorksAtOK, FileFails, Goto, Return
  <2> QED BY <2>1, <2>2, <2>3, <2>4, <2>5, <2>6 DEF OwnerInv
<1>14. ASSUME CountStarted PROVE OwnerInv'
  BY <1>b, <1>14, OwnerKept DEF maps, books, local, CountStarted, Goto, Return
<1>15. ASSUME NEW u \in Users, BotLeaves(u) PROVE OwnerInv'
  BY <1>b, <1>15, OwnerKept DEF maps, books, local, BotLeaves
<1>16. ASSUME NEW u \in Users, UserLeaves(u) PROVE OwnerInv'
  BY <1>b, <1>16, OwnerKept DEF maps, books, local, UserLeaves, Goto
<1>17. ASSUME DetachWriter PROVE OwnerInv'
  <2>1. at[Event] \in Ssrcs
    BY <1>b, <1>17 DEF LocalsOK, WorksAtOK, ArmedOK, ReapsOK, DetachWriter
  <2>2. /\ row' = row /\ finished' = finished /\ paused' = paused
        /\ \A x \in Tasks \ {Event} : pc'[x] = pc[x]
    BY <1>b, <1>17 DEF books, maps, DetachWriter, Goto, Return
  <2>3. CASE writers[at[Event]] \in Recs
    <3>1. /\ writers[at[Event]] \in Recs
          /\ writers' = [writers EXCEPT ![at[Event]] = NoRec]
          /\ held' = [held EXCEPT ![Event] = {writers[at[Event]]}]
      BY <1>a, <1>17, <2>1, <2>3 DEF Pauses, NoPause, DetachWriter, Goto, Return
    <3>2. CarriedOpen'
      BY <1>a, <1>b, <1>17, <2>1, <2>3 DEF OwnerInv, CarriedOpen, MapsOpen, local, DetachWriter, Goto, Return
    <3> QED BY <1>a, <2>1, <2>2, <3>1, <3>2, TakenFromWriters
  <2>4. CASE ~(writers[at[Event]] \in Recs)
    BY <1>a, <1>b, <1>c, <1>17, <2>1, <2>4, OwnerKept DEF OwnerInv, CarriedOpen, maps, books, local, DetachWriter, Goto, Return
  <2> QED BY <2>3, <2>4
<1>18. ASSUME ParkRecording PROVE OwnerInv'
  <2>1. MapsDisjoint'
    BY <1>a, <1>b, <1>c, <1>18 DEF OwnerInv, MapsDisjoint, HeldAlone, MapsOpen, HeldOpen, CarriedOpen, RowsOpen, maps, books, local, LocalsOK, WorksAtOK, ParkRecording, Goto, CallFinalize
  <2>2. HeldAlone'
    BY <1>a, <1>b, <1>c, <1>18 DEF OwnerInv, MapsDisjoint, HeldAlone, MapsOpen, HeldOpen, CarriedOpen, RowsOpen, maps, books, local, LocalsOK, WorksAtOK, ParkRecording, Goto, CallFinalize
  <2>3. MapsOpen'
    BY <1>a, <1>b, <1>c, <1>18 DEF OwnerInv, MapsDisjoint, HeldAlone, MapsOpen, HeldOpen, CarriedOpen, RowsOpen, maps, books, local, LocalsOK, WorksAtOK, ParkRecording, Goto, CallFinalize
  <2>4. HeldOpen'
    BY <1>a, <1>b, <1>c, <1>18 DEF OwnerInv, MapsDisjoint, HeldAlone, MapsOpen, HeldOpen, CarriedOpen, RowsOpen, maps, books, local, LocalsOK, WorksAtOK, ParkRecording, Goto, CallFinalize
  <2>5. CarriedOpen'
    BY <1>a, <1>b, <1>c, <1>18 DEF OwnerInv, MapsDisjoint, HeldAlone, MapsOpen, HeldOpen, CarriedOpen, RowsOpen, maps, books, local, LocalsOK, WorksAtOK, ParkRecording, Goto, CallFinalize
  <2>6. RowsOpen'
    BY <1>a, <1>b, <1>c, <1>18 DEF OwnerInv, MapsDisjoint, HeldAlone, MapsOpen, HeldOpen, CarriedOpen, RowsOpen, maps, books, local, LocalsOK, WorksAtOK, ParkRecording, Goto, CallFinalize
  <2> QED BY <2>1, <2>2, <2>3, <2>4, <2>5, <2>6 DEF OwnerInv
<1>19. ASSUME ScheduleRejoin PROVE OwnerInv'
  <2>1. pc[Rejoin(nextToken - 1)] = "off"
    BY <1>b, <1>19 DEF SpawnInv, Scheduling, ScheduleRejoin
  <2> QED
    BY <1>b, <1>19, <2>1, BoundAssumption, OwnerKept DEF maps, books, local, ScheduleRejoin
<1>20. ASSUME NEW k \in 1..MaxPauses, RejoinTimeout(k) PROVE OwnerInv'
  <2>1. SsrcUser[at[Rejoin(k)]] \in Users
    BY <1>b, <1>20 DEF LocalsOK, WorksAtOK, ArmedOK, ReapsOK, RejoinTimeout
  <2>2. /\ row' = row /\ finished' = finished /\ writers' = writers
        /\ \A x \in Tasks \ {Rejoin(k)} : pc'[x] = pc[x]
    BY <1>b, <1>20 DEF books, maps, RejoinTimeout, Goto, CallFinalize, PausedTimeoutMatches
  <2>3. CASE paused[SsrcUser[at[Rejoin(k)]]].token = k
    <3>1. /\ paused[SsrcUser[at[Rejoin(k)]]].rec \in Recs
          /\ paused' = [paused EXCEPT ![SsrcUser[at[Rejoin(k)]]] = NoPause]
          /\ held' = [held EXCEPT ![Rejoin(k)] = {paused[SsrcUser[at[Rejoin(k)]]].rec}]
      BY <1>a, <1>20, <2>1, <2>3 DEF Pauses, NoPause, RejoinTimeout, Goto, CallFinalize, PausedTimeoutMatches, NoPause
    <3>2. CarriedOpen'
      BY <1>a, <1>b, <1>20, <2>1, <2>3 DEF OwnerInv, CarriedOpen, MapsOpen, local, RejoinTimeout, Goto, CallFinalize, PausedTimeoutMatches, NoPause
    <3> QED BY <1>a, <2>1, <2>2, <3>1, <3>2, TakenFromPaused
  <2>4. CASE ~(paused[SsrcUser[at[Rejoin(k)]]].token = k)
    BY <1>a, <1>b, <1>c, <1>20, <2>1, <2>4, OwnerKept DEF OwnerInv, CarriedOpen, maps, books, local, RejoinTimeout, Goto, CallFinalize, PausedTimeoutMatches, NoPause
  <2> QED BY <2>3, <2>4
<1>21. ASSUME RecoverableDisconnect PROVE OwnerInv'
  BY <1>b, <1>21, OwnerKept DEF maps, books, local, RecoverableDisconnect, Goto
<1>22. ASSUME FinalDisconnect PROVE OwnerInv'
  BY <1>b, <1>22, OwnerKept DEF maps, books, local, FinalDisconnect, Goto
<1>23. ASSUME NEW e \in 1..MaxOutages, OutageTimeout(e) PROVE OwnerInv'
  BY <1>b, <1>23, OwnerKept DEF maps, books, local, OutageTimeout, Goto
<1>24. ASSUME DriverConnects PROVE OwnerInv'
  BY <1>b, <1>24, OwnerKept DEF maps, books, local, DriverConnects, Goto
<1>25. ASSUME SurveyUsers PROVE OwnerInv'
  BY <1>b, <1>25, OwnerKept DEF maps, books, local, SurveyUsers, Goto, Mapped
<1>26. ASSUME HealthCheck PROVE OwnerInv'
  BY <1>b, <1>26, OwnerKept DEF maps, books, local, HealthCheck, Goto, Mapped
<1>27. ASSUME NEW t \in Reapers, NEW s \in Ssrcs, ReapUser(t, s) PROVE OwnerInv'
  BY <1>b, <1>27, OwnerKept DEF maps, books, local, ReapUser, Goto
<1>28. ASSUME NEW t \in Reapers, ReapWriter(t) PROVE OwnerInv'
  <2>1. at[t] \in Ssrcs
    BY <1>b, <1>28 DEF LocalsOK, WorksAtOK, ArmedOK, ReapsOK, ReapWriter
  <2>2. /\ row' = row /\ finished' = finished /\ paused' = paused
        /\ \A x \in Tasks \ {t} : pc'[x] = pc[x]
    BY <1>b, <1>28 DEF books, maps, ReapWriter, Goto, TakeWriter, CallFinalize
  <2>3. CASE writers[at[t]] \in Recs
    <3>1. /\ writers[at[t]] \in Recs
          /\ writers' = [writers EXCEPT ![at[t]] = NoRec]
          /\ held' = [held EXCEPT ![t] = {writers[at[t]]}]
      BY <1>a, <1>28, <2>1, <2>3 DEF Pauses, NoPause, ReapWriter, Goto, TakeWriter, CallFinalize
    <3>2. CarriedOpen'
      BY <1>a, <1>b, <1>28, <2>1, <2>3 DEF OwnerInv, CarriedOpen, MapsOpen, local, ReapWriter, Goto, TakeWriter, CallFinalize
    <3> QED BY <1>a, <2>1, <2>2, <3>1, <3>2, TakenFromWriters
  <2>4. CASE ~(writers[at[t]] \in Recs)
    BY <1>a, <1>b, <1>c, <1>28, <2>1, <2>4, OwnerKept DEF OwnerInv, CarriedOpen, maps, books, local, ReapWriter, Goto, TakeWriter, CallFinalize
  <2> QED BY <2>3, <2>4
<1>29. ASSUME NEW t \in Reapers, ReapDone(t) PROVE OwnerInv'
  BY <1>b, <1>29, OwnerKept DEF maps, books, local, ReapDone, Goto
<1>30. ASSUME NEW t \in Closers, SnapshotWriters(t) PROVE OwnerInv'
  BY <1>b, <1>30, OwnerKept DEF maps, books, local, SnapshotWriters, Goto
<1>31. ASSUME NEW t \in Closers, NEW s \in Ssrcs, CloseWriter(t, s) PROVE OwnerInv'
  <2>1. s \in Ssrcs
    BY <1>b, <1>31 DEF LocalsOK, WorksAtOK, ArmedOK, ReapsOK, CloseWriter
  <2>2. /\ row' = row /\ finished' = finished /\ paused' = paused
        /\ \A x \in Tasks \ {t} : pc'[x] = pc[x]
    BY <1>b, <1>31 DEF books, maps, CloseWriter, Goto, TakeWriter, CallFinalize
  <2>3. CASE writers[s] \in Recs
    <3>1. /\ writers[s] \in Recs
          /\ writers' = [writers EXCEPT ![s] = NoRec]
          /\ held' = [held EXCEPT ![t] = {writers[s]}]
      BY <1>a, <1>31, <2>1, <2>3 DEF Pauses, NoPause, CloseWriter, Goto, TakeWriter, CallFinalize
    <3>2. CarriedOpen'
      BY <1>a, <1>b, <1>31, <2>1, <2>3 DEF OwnerInv, CarriedOpen, MapsOpen, local, CloseWriter, Goto, TakeWriter, CallFinalize
    <3> QED BY <1>a, <2>1, <2>2, <3>1, <3>2, TakenFromWriters
  <2>4. CASE ~(writers[s] \in Recs)
    BY <1>a, <1>b, <1>c, <1>31, <2>1, <2>4, OwnerKept DEF OwnerInv, CarriedOpen, maps, books, local, CloseWriter, Goto, TakeWriter, CallFinalize
  <2> QED BY <2>3, <2>4
<1>32. ASSUME NEW t \in Closers, DrainPaused(t) PROVE OwnerInv'
  <2>1. MapsDisjoint'
    BY <1>a, <1>b, <1>c, <1>32 DEF OwnerInv, MapsDisjoint, HeldAlone, MapsOpen, HeldOpen, CarriedOpen, RowsOpen, maps, books, local, LocalsOK, WorksAtOK, DrainPaused, Goto, PausedNow, PausedNow, NoPause
  <2>2. HeldAlone'
    BY <1>a, <1>b, <1>c, <1>32 DEF OwnerInv, MapsDisjoint, HeldAlone, MapsOpen, HeldOpen, CarriedOpen, RowsOpen, maps, books, local, LocalsOK, WorksAtOK, DrainPaused, Goto, PausedNow, PausedNow, NoPause
  <2>3. MapsOpen'
    BY <1>a, <1>b, <1>c, <1>32 DEF OwnerInv, MapsDisjoint, HeldAlone, MapsOpen, HeldOpen, CarriedOpen, RowsOpen, maps, books, local, LocalsOK, WorksAtOK, DrainPaused, Goto, PausedNow, PausedNow, NoPause
  <2>4. HeldOpen'
    BY <1>a, <1>b, <1>c, <1>32 DEF OwnerInv, MapsDisjoint, HeldAlone, MapsOpen, HeldOpen, CarriedOpen, RowsOpen, maps, books, local, LocalsOK, WorksAtOK, DrainPaused, Goto, PausedNow, PausedNow, NoPause
  <2>5. CarriedOpen'
    BY <1>a, <1>b, <1>c, <1>32 DEF OwnerInv, MapsDisjoint, HeldAlone, MapsOpen, HeldOpen, CarriedOpen, RowsOpen, maps, books, local, LocalsOK, WorksAtOK, DrainPaused, Goto, PausedNow, PausedNow, NoPause
  <2>6. RowsOpen'
    BY <1>a, <1>b, <1>c, <1>32 DEF OwnerInv, MapsDisjoint, HeldAlone, MapsOpen, HeldOpen, CarriedOpen, RowsOpen, maps, books, local, LocalsOK, WorksAtOK, DrainPaused, Goto, PausedNow, PausedNow, NoPause
  <2> QED BY <2>1, <2>2, <2>3, <2>4, <2>5, <2>6 DEF OwnerInv
<1>33. ASSUME NEW t \in Closers, ClosePaused(t) PROVE OwnerInv'
  BY <1>b, <1>33, OwnerKept DEF maps, books, local, ClosePaused, Goto, CallFinalize
<1>34. ASSUME NEW t \in Closers, ClearUsers(t) PROVE OwnerInv'
  BY <1>b, <1>34, OwnerKept DEF maps, books, local, ClearUsers, Goto
<1>35. ASSUME NEW t \in Closers, ClearPaused(t) PROVE OwnerInv'
  <2>1. MapsDisjoint'
    BY <1>a, <1>b, <1>c, <1>35 DEF OwnerInv, MapsDisjoint, HeldAlone, MapsOpen, HeldOpen, CarriedOpen, RowsOpen, maps, books, local, LocalsOK, WorksAtOK, ClearPaused, Goto, EndOf, NoPause
  <2>2. HeldAlone'
    BY <1>a, <1>b, <1>c, <1>35 DEF OwnerInv, MapsDisjoint, HeldAlone, MapsOpen, HeldOpen, CarriedOpen, RowsOpen, maps, books, local, LocalsOK, WorksAtOK, ClearPaused, Goto, EndOf, NoPause
  <2>3. MapsOpen'
    BY <1>a, <1>b, <1>c, <1>35 DEF OwnerInv, MapsDisjoint, HeldAlone, MapsOpen, HeldOpen, CarriedOpen, RowsOpen, maps, books, local, LocalsOK, WorksAtOK, ClearPaused, Goto, EndOf, NoPause
  <2>4. HeldOpen'
    BY <1>a, <1>b, <1>c, <1>35 DEF OwnerInv, MapsDisjoint, HeldAlone, MapsOpen, HeldOpen, CarriedOpen, RowsOpen, maps, books, local, LocalsOK, WorksAtOK, ClearPaused, Goto, EndOf, NoPause
  <2>5. CarriedOpen'
    BY <1>a, <1>b, <1>c, <1>35 DEF OwnerInv, MapsDisjoint, HeldAlone, MapsOpen, HeldOpen, CarriedOpen, RowsOpen, maps, books, local, LocalsOK, WorksAtOK, ClearPaused, Goto, EndOf, NoPause
  <2>6. RowsOpen'
    BY <1>a, <1>b, <1>c, <1>35 DEF OwnerInv, MapsDisjoint, HeldAlone, MapsOpen, HeldOpen, CarriedOpen, RowsOpen, maps, books, local, LocalsOK, WorksAtOK, ClearPaused, Goto, EndOf, NoPause
  <2> QED BY <2>1, <2>2, <2>3, <2>4, <2>5, <2>6 DEF OwnerInv
<1>36. ASSUME NEW t \in Tasks, FinishWriter(t) PROVE OwnerInv'
  <2>1. MapsDisjoint'
    BY <1>a, <1>b, <1>c, <1>36 DEF OwnerInv, MapsDisjoint, HeldAlone, MapsOpen, HeldOpen, CarriedOpen, RowsOpen, maps, books, local, LocalsOK, WorksAtOK, FinishWriter, Goto
  <2>2. HeldAlone'
    BY <1>a, <1>b, <1>c, <1>36 DEF OwnerInv, MapsDisjoint, HeldAlone, MapsOpen, HeldOpen, CarriedOpen, RowsOpen, maps, books, local, LocalsOK, WorksAtOK, FinishWriter, Goto
  <2>3. MapsOpen'
    BY <1>a, <1>b, <1>c, <1>36 DEF OwnerInv, MapsDisjoint, HeldAlone, MapsOpen, HeldOpen, CarriedOpen, RowsOpen, maps, books, local, LocalsOK, WorksAtOK, FinishWriter, Goto
  <2>4. HeldOpen'
    BY <1>a, <1>b, <1>c, <1>36 DEF OwnerInv, MapsDisjoint, HeldAlone, MapsOpen, HeldOpen, CarriedOpen, RowsOpen, maps, books, local, LocalsOK, WorksAtOK, FinishWriter, Goto
  <2>5. CarriedOpen'
    BY <1>a, <1>b, <1>c, <1>36 DEF OwnerInv, MapsDisjoint, HeldAlone, MapsOpen, HeldOpen, CarriedOpen, RowsOpen, maps, books, local, LocalsOK, WorksAtOK, FinishWriter, Goto
  <2>6. RowsOpen'
    BY <1>a, <1>b, <1>c, <1>36 DEF OwnerInv, MapsDisjoint, HeldAlone, MapsOpen, HeldOpen, CarriedOpen, RowsOpen, maps, books, local, LocalsOK, WorksAtOK, FinishWriter, Goto
  <2> QED BY <2>1, <2>2, <2>3, <2>4, <2>5, <2>6 DEF OwnerInv
<1>37. ASSUME NEW t \in Tasks, UpdateRow(t) PROVE OwnerInv'
  <2>1. MapsDisjoint'
    BY <1>a, <1>b, <1>c, <1>37 DEF OwnerInv, MapsDisjoint, HeldAlone, MapsOpen, HeldOpen, CarriedOpen, RowsOpen, maps, books, local, LocalsOK, WorksAtOK, UpdateRow, Goto
  <2>2. HeldAlone'
    BY <1>a, <1>b, <1>c, <1>37 DEF OwnerInv, MapsDisjoint, HeldAlone, MapsOpen, HeldOpen, CarriedOpen, RowsOpen, maps, books, local, LocalsOK, WorksAtOK, UpdateRow, Goto
  <2>3. MapsOpen'
    BY <1>a, <1>b, <1>c, <1>37 DEF OwnerInv, MapsDisjoint, HeldAlone, MapsOpen, HeldOpen, CarriedOpen, RowsOpen, maps, books, local, LocalsOK, WorksAtOK, UpdateRow, Goto
  <2>4. HeldOpen'
    BY <1>a, <1>b, <1>c, <1>37 DEF OwnerInv, MapsDisjoint, HeldAlone, MapsOpen, HeldOpen, CarriedOpen, RowsOpen, maps, books, local, LocalsOK, WorksAtOK, UpdateRow, Goto
  <2>5. CarriedOpen'
    BY <1>a, <1>b, <1>c, <1>37 DEF OwnerInv, MapsDisjoint, HeldAlone, MapsOpen, HeldOpen, CarriedOpen, RowsOpen, maps, books, local, LocalsOK, WorksAtOK, UpdateRow, Goto
  <2>6. RowsOpen'
    BY <1>a, <1>b, <1>c, <1>37 DEF OwnerInv, MapsDisjoint, HeldAlone, MapsOpen, HeldOpen, CarriedOpen, RowsOpen, maps, books, local, LocalsOK, WorksAtOK, UpdateRow, Goto
  <2> QED BY <2>1, <2>2, <2>3, <2>4, <2>5, <2>6 DEF OwnerInv
<1>39. ASSUME ScheduleOutage PROVE OwnerInv'
  BY <1>b, <1>39, BoundAssumption, OwnerKept DEF maps, books, local, ScheduleOutage, SpawnInv
<1>38. CASE UNCHANGED vars
  BY <1>38, OwnerKept DEF vars, maps, books, local
<1> QED
  BY <1>1, <1>2, <1>3, <1>4, <1>5, <1>6, <1>7, <1>8, <1>9, <1>10, <1>11,
     <1>12, <1>13, <1>14, <1>15, <1>16, <1>17, <1>18, <1>19, <1>20, <1>21,
     <1>22, <1>23, <1>24, <1>25, <1>26, <1>27, <1>28, <1>29, <1>30, <1>31,
     <1>32, <1>33, <1>34, <1>35, <1>36, <1>37, <1>38, <1>39
     DEF Next, Deliver, EventStep, Timeout, SharedStep

LEMMA IInvInductive ==
  /\ Init => IInv
  /\ IInv /\ [Next]_vars => IInv'
BY InitTypeInv, NextTypeInv, InitOwner, NextMapped, NextSpawn, NextOwner DEF IInv

\* Point by point, IInv says what the three invariants say of whole sets.
LEMMA IInvIsEnough == IInv => SingleOwner /\ FinalizedOnce /\ RecordsItsUser
<1> SUFFICES ASSUME IInv PROVE SingleOwner /\ FinalizedOnce /\ RecordsItsUser
  OBVIOUS
<1> USE RecAssumption
<1>1. /\ writers \in [Ssrcs -> Recs \cup {NoRec}]
      /\ paused \in [Users -> Pauses \cup {NoPause}]
      /\ held \in [Tasks -> SUBSET Recs] /\ finished \in SUBSET Recs
  BY DEF IInv, TypeInv, TypeOK
<1>2. \A u \in Users : paused[u].rec \in Recs \cup {NoRec}
  BY <1>1 DEF Pauses, NoPause
<1>3. SingleOwner
  <2>1. /\ \A s1, s2 \in Ssrcs :
             writers[s1] = writers[s2] /\ s1 # s2 => writers[s1] = NoRec
        /\ \A u1, u2 \in Users :
             paused[u1].rec = paused[u2].rec /\ u1 # u2 => paused[u1].rec = NoRec
    BY <1>1, <1>2 DEF IInv, OwnerInv, MapsDisjoint
  <2>2. Written \cap PausedNow = {}
    BY <1>1, <1>2 DEF IInv, OwnerInv, MapsDisjoint, Written, PausedNow
  <2>3. \A t \in Tasks : held[t] \cap (Written \cup PausedNow) = {}
    BY DEF IInv, OwnerInv, HeldAlone, Written, PausedNow
  <2>4. \A t1, t2 \in Tasks : t1 # t2 => held[t1] \cap held[t2] = {}
    BY DEF IInv, OwnerInv, HeldAlone
  <2> QED BY <2>1, <2>2, <2>3, <2>4 DEF SingleOwner
<1>4. FinalizedOnce
  <2>1. \A r \in finished : r \notin Written \cup PausedNow
    BY <1>1, <1>2 DEF IInv, OwnerInv, MapsOpen, Written, PausedNow
  <2>2. \A r \in finished, t \in Tasks :
          r \in held[t] => pc[t] = "update" /\ row[r] = "open"
    BY DEF IInv, OwnerInv, HeldOpen
  <2> QED BY <2>1, <2>2 DEF FinalizedOnce
<1>5. RecordsItsUser
  BY <1>1, <1>2 DEF IInv, OwnerInv, MapsOpen, RowsOpen, RecordsItsUser
<1> QED BY <1>3, <1>4, <1>5

\* A recording is in one place at a time, however the events, the health
\* checker and any number of timeouts interleave.
THEOREM SingleOwnerHolds == Spec => []SingleOwner
<1>1. IInv => SingleOwner
  BY IInvIsEnough
<1> QED BY <1>1, IInvInductive, PTL DEF Spec

\* No recording is finalized twice or used after its end.
THEOREM FinalizedOnceHolds == Spec => []FinalizedOnce
<1>1. IInv => FinalizedOnce
  BY IInvIsEnough
<1> QED BY <1>1, IInvInductive, PTL DEF Spec

\* A user's audio goes to a recording of that user, and no bot is recorded.
THEOREM RecordsItsUserHolds == Spec => []RecordsItsUser
<1>1. IInv => RecordsItsUser
  BY IInvIsEnough
<1> QED BY <1>1, IInvInductive, PTL DEF Spec

\* A row is opened by the event task and closed by the task that finished its
\* recording, which by then is in no map and held by no one else.
THEOREM RowsOpenAndCloseOnceHolds == Spec => RowsOpenAndCloseOnce
<1> DEFINE A == \A r \in Recs : row'[r] # row[r] =>
                  \/ row[r] = "none" /\ row'[r] = "open" /\ pc[Event] = "create"
                  \/ /\ row[r] = "open" /\ row'[r] = "closed"
                     /\ r \in finished /\ r \notin Reachable'
<1>1. IInv /\ [Next]_vars => [A]_vars
  <2> SUFFICES ASSUME IInv, Next PROVE A
    BY DEF vars
  <2>0. row \in [Recs -> {"none", "open", "closed"}] /\ held \in [Tasks -> SUBSET Recs]
    BY DEF IInv, TypeInv, TypeOK
  <2>1. ASSUME NEW x \in Recs, CreateWriter(x) \/ FileFails(x) PROVE A
    <3>1. pc[Event] = "create" /\ row[x] = "none" /\ row' = [row EXCEPT ![x] = "open"]
      BY <2>1 DEF CreateWriter, FileFails
    <3> QED BY <2>0, <3>1
  <2>2. ASSUME NEW t \in Tasks, UpdateRow(t) PROVE A
    <3>1. PICK x \in held[t] \cap finished :
            /\ held' = [held EXCEPT ![t] = @ \ {x}]
            /\ row' = [row EXCEPT ![x] = "closed"] \/ row' = row
      BY <2>2 DEF UpdateRow
    <3>2. writers' = writers /\ paused' = paused
      BY <2>2 DEF UpdateRow, maps
    <3>3. row[x] = "open" /\ x \in Recs
      BY <2>0, <3>1 DEF IInv, OwnerInv, HeldOpen
    <3>4. x \notin Written' /\ x \notin PausedNow'
      BY <3>1, <3>2 DEF IInv, OwnerInv, HeldAlone, Written, PausedNow
    <3>5. \A y \in Tasks : x \notin held'[y]
      BY <2>0, <3>1 DEF IInv, OwnerInv, HeldAlone
    <3>6. x \notin Reachable'
      BY <3>4, <3>5 DEF Reachable
    <3> QED BY <2>0, <3>1, <3>3, <3>6
  <2>3. ASSUME row' = row PROVE A
    BY <2>3
  <2>4. row' = row \/ (\E x \in Recs : CreateWriter(x) \/ FileFails(x))
                   \/ (\E t \in Tasks : UpdateRow(t))
    BY DEF Next, Deliver, EventStep, Timeout, SharedStep, books,
           SpeakingKnownBot, Speaking, Remap, Bind, LookupFails, LookupBot,
           LookupHuman, RejoinWriter, MapUser, ClaimSsrc, InsertFails, CountStarted,
           BotLeaves, UserLeaves, DetachWriter, ParkRecording, ScheduleRejoin,
           RejoinTimeout, RecoverableDisconnect, ScheduleOutage, FinalDisconnect, OutageTimeout,
           DriverConnects, SurveyUsers, HealthCheck, ReapUser, ReapWriter, ReapDone,
           SnapshotWriters, CloseWriter, DrainPaused, ClosePaused, ClearUsers,
           ClearPaused, FinishWriter
  <2> QED BY <2>1, <2>2, <2>3, <2>4
<1>2. IInv /\ [Next]_vars => [\A r \in Recs : row'[r] # row[r] =>
                                \/ row[r] = "none" /\ row'[r] = "open" /\ pc[Event] = "create"
                                \/ /\ row[r] = "open" /\ row'[r] = "closed"
                                   /\ r \in finished /\ r \notin Reachable']_vars
  BY <1>1
<1> QED BY <1>2, IInvInductive, PTL DEF Spec, RowsOpenAndCloseOnce

----
(***************************************************************************)
(* The timeouts of VoiceReceiver: OutageHasTimeout, PausedHasTimeout and   *)
(* NoPauseIsReplaced are invariants for any constants.                     *)
(***************************************************************************)

\* Whoever the event task maps, or was mapped a moment ago, is not paused.
NotPausedInv ==
  /\ NoPauseIsReplaced
  /\ pc[Event] \in {"remap", "bind", "rejoin", "map"} =>
       paused[SsrcUser[at[Event]]].rec = NoRec
  /\ pc[Event] \in {"detach", "park"} => userSsrc[SsrcUser[at[Event]]] = NoSsrc

TimeoutInv == IInv /\ NotPausedInv /\ PausedHasTimeout /\ OutageHasTimeout

LEMMA InitTimeout == Init => NotPausedInv /\ PausedHasTimeout /\ OutageHasTimeout
BY TaskFacts DEF Init, NotPausedInv, NoPauseIsReplaced, PausedHasTimeout,
     OutageHasTimeout, NoPause, Reapers

\* A step that only removes pauses and mappings, and starts no work on an
\* event, keeps NotPausedInv.
LEMMA NotPausedKept ==
  ASSUME NotPausedInv,
         \A u \in Users : paused'[u].rec \in {paused[u].rec, NoRec},
         \A u \in Users : userSsrc'[u] \in {userSsrc[u], NoSsrc},
         WorksAtOK, SsrcUser \in [Ssrcs -> Users],
         \/ pc'[Event] = pc[Event] /\ at'[Event] = at[Event]
         \/ pc'[Event] \in {"finish", "idle", "paused", "clear_users", "clear_paused"}
  PROVE  NotPausedInv'
<1>1. NoPauseIsReplaced'
  BY DEF NotPausedInv, NoPauseIsReplaced
<1>2. pc'[Event] \in {"remap", "bind", "rejoin", "map"} =>
        paused'[SsrcUser[at'[Event]]].rec = NoRec
  BY DEF NotPausedInv, WorksAtOK
<1>3. pc'[Event] \in {"detach", "park"} => userSsrc'[SsrcUser[at'[Event]]] = NoSsrc
  BY DEF NotPausedInv, WorksAtOK
<1> QED BY <1>1, <1>2, <1>3 DEF NotPausedInv

\* A step ends the timeout of the running outage only by ending the outage.
LEMMA NextOutage == TypeInv /\ OutageHasTimeout /\ [Next]_vars => OutageHasTimeout'
<1> SUFFICES ASSUME TypeInv, OutageHasTimeout, [Next]_vars PROVE OutageHasTimeout'
  OBVIOUS
<1> USE TaskFacts, BoundAssumption
<1>0. /\ pc \in [Tasks -> Labels] /\ disconnectedAt \in 0..MaxOutages
      /\ outages \in 0..MaxOutages
  BY DEF TypeInv, TypeOK
<1>1. ASSUME NEW s \in Ssrcs, SpeakingKnownBot(s) PROVE OutageHasTimeout'
  BY <1>0, <1>1 DEF link, OutageHasTimeout, SpeakingKnownBot
<1>2. ASSUME NEW s \in Ssrcs, Speaking(s) PROVE OutageHasTimeout'
  BY <1>0, <1>2 DEF link, OutageHasTimeout, Speaking, Goto
<1>3. ASSUME Remap PROVE OutageHasTimeout'
  BY <1>0, <1>3 DEF link, OutageHasTimeout, Remap, Goto
<1>4. ASSUME Bind PROVE OutageHasTimeout'
  BY <1>0, <1>4 DEF link, OutageHasTimeout, Bind, Goto, Return
<1>5. ASSUME LookupFails PROVE OutageHasTimeout'
  BY <1>0, <1>5 DEF link, OutageHasTimeout, LookupFails, Goto, Return
<1>6. ASSUME LookupBot PROVE OutageHasTimeout'
  BY <1>0, <1>6 DEF link, OutageHasTimeout, LookupBot, Goto, Return
<1>7. ASSUME LookupHuman PROVE OutageHasTimeout'
  BY <1>0, <1>7 DEF link, OutageHasTimeout, LookupHuman, Goto
<1>8. ASSUME RejoinWriter PROVE OutageHasTimeout'
  BY <1>0, <1>8 DEF link, OutageHasTimeout, RejoinWriter, Goto
<1>9. ASSUME MapUser PROVE OutageHasTimeout'
  BY <1>0, <1>9 DEF link, OutageHasTimeout, MapUser, Goto
<1>10. ASSUME ClaimSsrc PROVE OutageHasTimeout'
  BY <1>0, <1>10 DEF link, OutageHasTimeout, ClaimSsrc, Goto, Return
<1>11. ASSUME NEW r \in Recs, CreateWriter(r) PROVE OutageHasTimeout'
  BY <1>0, <1>11 DEF link, OutageHasTimeout, CreateWriter, Goto
<1>12. ASSUME InsertFails PROVE OutageHasTimeout'
  BY <1>0, <1>12 DEF link, OutageHasTimeout, InsertFails, Goto, Return
<1>13. ASSUME NEW r \in Recs, FileFails(r) PROVE OutageHasTimeout'
  BY <1>0, <1>13 DEF link, OutageHasTimeout, FileFails, Goto, Return
<1>14. ASSUME CountStarted PROVE OutageHasTimeout'
  BY <1>0, <1>14 DEF link, OutageHasTimeout, CountStarted, Goto, Return
<1>15. ASSUME NEW u \in Users, BotLeaves(u) PROVE OutageHasTimeout'
  BY <1>0, <1>15 DEF link, OutageHasTimeout, BotLeaves
<1>16. ASSUME NEW u \in Users, UserLeaves(u) PROVE OutageHasTimeout'
  BY <1>0, <1>16 DEF link, OutageHasTimeout, UserLeaves, Goto
<1>17. ASSUME DetachWriter PROVE OutageHasTimeout'
  BY <1>0, <1>17 DEF link, OutageHasTimeout, DetachWriter, Goto, Return
<1>18. ASSUME ParkRecording PROVE OutageHasTimeout'
  BY <1>0, <1>18 DEF link, OutageHasTimeout, ParkRecording, Goto, CallFinalize
<1>19. ASSUME ScheduleRejoin PROVE OutageHasTimeout'
  BY <1>0, <1>19 DEF link, OutageHasTimeout, ScheduleRejoin
<1>20. ASSUME NEW k \in 1..MaxPauses, RejoinTimeout(k) PROVE OutageHasTimeout'
  BY <1>0, <1>20 DEF link, OutageHasTimeout, RejoinTimeout, Goto, CallFinalize, PausedTimeoutMatches
<1>21. ASSUME RecoverableDisconnect PROVE OutageHasTimeout'
  BY <1>0, <1>21 DEF link, OutageHasTimeout, RecoverableDisconnect, Goto
<1>22. ASSUME FinalDisconnect PROVE OutageHasTimeout'
  BY <1>0, <1>22 DEF link, OutageHasTimeout, FinalDisconnect, Goto
<1>23. ASSUME NEW e \in 1..MaxOutages, OutageTimeout(e) PROVE OutageHasTimeout'
  BY <1>0, <1>23 DEF link, OutageHasTimeout, OutageTimeout, OutageTimeoutMatches, Goto
<1>24. ASSUME DriverConnects PROVE OutageHasTimeout'
  BY <1>0, <1>24 DEF link, OutageHasTimeout, DriverConnects, Goto
<1>25. ASSUME SurveyUsers PROVE OutageHasTimeout'
  BY <1>0, <1>25 DEF link, OutageHasTimeout, SurveyUsers, Goto, Mapped
<1>26. ASSUME HealthCheck PROVE OutageHasTimeout'
  BY <1>0, <1>26 DEF link, OutageHasTimeout, HealthCheck, Goto, Mapped
<1>27. ASSUME NEW t \in Reapers, NEW s \in Ssrcs, ReapUser(t, s) PROVE OutageHasTimeout'
  BY <1>0, <1>27 DEF link, OutageHasTimeout, ReapUser, Goto
<1>28. ASSUME NEW t \in Reapers, ReapWriter(t) PROVE OutageHasTimeout'
  BY <1>0, <1>28 DEF link, OutageHasTimeout, ReapWriter, Goto, TakeWriter, CallFinalize
<1>29. ASSUME NEW t \in Reapers, ReapDone(t) PROVE OutageHasTimeout'
  BY <1>0, <1>29 DEF link, OutageHasTimeout, ReapDone, Goto
<1>30. ASSUME NEW t \in Closers, SnapshotWriters(t) PROVE OutageHasTimeout'
  BY <1>0, <1>30 DEF link, OutageHasTimeout, SnapshotWriters, Goto
<1>31. ASSUME NEW t \in Closers, NEW s \in Ssrcs, CloseWriter(t, s) PROVE OutageHasTimeout'
  BY <1>0, <1>31 DEF link, OutageHasTimeout, CloseWriter, Goto, TakeWriter, CallFinalize
<1>32. ASSUME NEW t \in Closers, DrainPaused(t) PROVE OutageHasTimeout'
  BY <1>0, <1>32 DEF link, OutageHasTimeout, DrainPaused, Goto, PausedNow
<1>33. ASSUME NEW t \in Closers, ClosePaused(t) PROVE OutageHasTimeout'
  BY <1>0, <1>33 DEF link, OutageHasTimeout, ClosePaused, Goto, CallFinalize
<1>34. ASSUME NEW t \in Closers, ClearUsers(t) PROVE OutageHasTimeout'
  BY <1>0, <1>34 DEF link, OutageHasTimeout, ClearUsers, Goto
<1>35. ASSUME NEW t \in Closers, ClearPaused(t) PROVE OutageHasTimeout'
  BY <1>0, <1>35 DEF link, OutageHasTimeout, ClearPaused, Goto, EndOf
<1>36. ASSUME NEW t \in Tasks, FinishWriter(t) PROVE OutageHasTimeout'
  BY <1>0, <1>36 DEF link, OutageHasTimeout, FinishWriter, Goto
<1>37. ASSUME NEW t \in Tasks, UpdateRow(t) PROVE OutageHasTimeout'
  BY <1>0, <1>37 DEF link, OutageHasTimeout, UpdateRow, Goto
<1>39. ASSUME ScheduleOutage PROVE OutageHasTimeout'
  BY <1>0, <1>39 DEF link, OutageHasTimeout, ScheduleOutage
<1>38. CASE UNCHANGED vars
  BY <1>38 DEF vars, link, OutageHasTimeout
<1> QED
  BY <1>1, <1>2, <1>3, <1>4, <1>5, <1>6, <1>7, <1>8, <1>9, <1>10, <1>11,
     <1>12, <1>13, <1>14, <1>15, <1>16, <1>17, <1>18, <1>19, <1>20, <1>21,
     <1>22, <1>23, <1>24, <1>25, <1>26, <1>27, <1>28, <1>29, <1>30, <1>31,
     <1>32, <1>33, <1>34, <1>35, <1>36, <1>37, <1>38, <1>39
     DEF Next, Deliver, EventStep, Timeout, SharedStep

\* A step maps only users that are not paused and parks only unmapped ones.
LEMMA NextNotPaused == IInv /\ NotPausedInv /\ [Next]_vars => NotPausedInv'
<1> SUFFICES ASSUME IInv, NotPausedInv, [Next]_vars PROVE NotPausedInv'
  OBVIOUS
<1> USE TaskFacts, SsrcAssumption, RecAssumption
<1>0. /\ userSsrc \in [Users -> Ssrcs \cup {NoSsrc}]
      /\ paused \in [Users -> Pauses \cup {NoPause}]
      /\ pc \in [Tasks -> Labels] /\ at \in [Tasks -> Ssrcs \cup {NoSsrc}]
      /\ back \in [Tasks -> {"off", "schedule", "reap", "writers", "paused", "done"}]
      /\ held \in [Tasks -> SUBSET Recs]
      /\ WorksAtOK /\ MappedInv
  BY DEF IInv, TypeInv, TypeOK, LocalsOK
<1>1. ASSUME NEW s \in Ssrcs, SpeakingKnownBot(s) PROVE NotPausedInv'
  BY <1>0, <1>1 DEF maps, local, NotPausedInv, NoPauseIsReplaced, SpeakingKnownBot
<1>2. ASSUME NEW s \in Ssrcs, Speaking(s) PROVE NotPausedInv'
  BY <1>0, <1>2 DEF maps, local, NotPausedInv, NoPauseIsReplaced, Speaking, Goto
<1>3. ASSUME Remap PROVE NotPausedInv'
  BY <1>0, <1>3 DEF maps, local, NotPausedInv, NoPauseIsReplaced, Remap, Goto
<1>4. ASSUME Bind PROVE NotPausedInv'
  BY <1>0, <1>4 DEF maps, local, NotPausedInv, NoPauseIsReplaced, Bind, Goto, Return, WorksAtOK
<1>5. ASSUME LookupFails PROVE NotPausedInv'
  BY <1>0, <1>5 DEF maps, local, NotPausedInv, NoPauseIsReplaced, LookupFails, Goto, Return
<1>6. ASSUME LookupBot PROVE NotPausedInv'
  BY <1>0, <1>6 DEF maps, local, NotPausedInv, NoPauseIsReplaced, LookupBot, Goto, Return
<1>7. ASSUME LookupHuman PROVE NotPausedInv'
  BY <1>0, <1>7 DEF maps, local, NotPausedInv, NoPauseIsReplaced, LookupHuman, Goto, WorksAtOK, NoPause
<1>8. ASSUME RejoinWriter PROVE NotPausedInv'
  BY <1>0, <1>8 DEF maps, local, NotPausedInv, NoPauseIsReplaced, RejoinWriter, Goto, WorksAtOK
<1>9. ASSUME MapUser PROVE NotPausedInv'
  BY <1>0, <1>9 DEF maps, local, NotPausedInv, NoPauseIsReplaced, MapUser, Goto, WorksAtOK
<1>10. ASSUME ClaimSsrc PROVE NotPausedInv'
  BY <1>0, <1>10 DEF maps, local, NotPausedInv, NoPauseIsReplaced, ClaimSsrc, Goto, Return
<1>11. ASSUME NEW r \in Recs, CreateWriter(r) PROVE NotPausedInv'
  BY <1>0, <1>11 DEF maps, local, NotPausedInv, NoPauseIsReplaced, CreateWriter, Goto
<1>12. ASSUME InsertFails PROVE NotPausedInv'
  BY <1>0, <1>12 DEF maps, local, NotPausedInv, NoPauseIsReplaced, InsertFails, Goto, Return
<1>13. ASSUME NEW r \in Recs, FileFails(r) PROVE NotPausedInv'
  BY <1>0, <1>13 DEF maps, local, NotPausedInv, NoPauseIsReplaced, FileFails, Goto, Return
<1>14. ASSUME CountStarted PROVE NotPausedInv'
  BY <1>0, <1>14 DEF maps, local, NotPausedInv, NoPauseIsReplaced, CountStarted, Goto, Return
<1>15. ASSUME NEW u \in Users, BotLeaves(u) PROVE NotPausedInv'
  BY <1>0, <1>15 DEF maps, local, NotPausedInv, NoPauseIsReplaced, BotLeaves
<1>16. ASSUME NEW u \in Users, UserLeaves(u) PROVE NotPausedInv'
  BY <1>0, <1>16 DEF maps, local, NotPausedInv, NoPauseIsReplaced, UserLeaves, Goto, MappedInv
<1>17. ASSUME DetachWriter PROVE NotPausedInv'
  BY <1>0, <1>17 DEF maps, local, NotPausedInv, NoPauseIsReplaced, DetachWriter, Goto, Return, WorksAtOK
<1>18. ASSUME ParkRecording PROVE NotPausedInv'
  BY <1>0, <1>18 DEF maps, local, NotPausedInv, NoPauseIsReplaced, ParkRecording, Goto, CallFinalize, WorksAtOK
<1>19. ASSUME ScheduleRejoin PROVE NotPausedInv'
  BY <1>0, <1>19 DEF maps, local, NotPausedInv, NoPauseIsReplaced, ScheduleRejoin
<1>20. ASSUME NEW k \in 1..MaxPauses, RejoinTimeout(k) PROVE NotPausedInv'
  <2>1. \A u \in Users : paused'[u].rec \in {paused[u].rec, NoRec}
    BY <1>0, <1>20 DEF maps, RejoinTimeout, Goto, CallFinalize, NoPause
  <2>2. \A u \in Users : userSsrc'[u] \in {userSsrc[u], NoSsrc}
    BY <1>0, <1>20 DEF maps, RejoinTimeout, Goto, CallFinalize
  <2>3. \/ pc'[Event] = pc[Event] /\ at'[Event] = at[Event]
        \/ pc'[Event] \in {"finish", "idle", "paused", "clear_users", "clear_paused"}
    BY <1>0, <1>20 DEF local, RejoinTimeout, Goto, CallFinalize
  <2> QED BY <1>0, <2>1, <2>2, <2>3, NotPausedKept
<1>21. ASSUME RecoverableDisconnect PROVE NotPausedInv'
  BY <1>0, <1>21 DEF maps, local, NotPausedInv, NoPauseIsReplaced, RecoverableDisconnect, Goto
<1>22. ASSUME FinalDisconnect PROVE NotPausedInv'
  BY <1>0, <1>22 DEF maps, local, NotPausedInv, NoPauseIsReplaced, FinalDisconnect, Goto
<1>23. ASSUME NEW e \in 1..MaxOutages, OutageTimeout(e) PROVE NotPausedInv'
  BY <1>0, <1>23 DEF maps, local, NotPausedInv, NoPauseIsReplaced, OutageTimeout, Goto
<1>24. ASSUME DriverConnects PROVE NotPausedInv'
  BY <1>0, <1>24 DEF maps, local, NotPausedInv, NoPauseIsReplaced, DriverConnects, Goto
<1>25. ASSUME SurveyUsers PROVE NotPausedInv'
  BY <1>0, <1>25 DEF maps, local, NotPausedInv, NoPauseIsReplaced, SurveyUsers, Goto, Mapped
<1>26. ASSUME HealthCheck PROVE NotPausedInv'
  BY <1>0, <1>26 DEF maps, local, NotPausedInv, NoPauseIsReplaced, HealthCheck, Goto, Mapped
<1>27. ASSUME NEW t \in Reapers, NEW s \in Ssrcs, ReapUser(t, s) PROVE NotPausedInv'
  BY <1>0, <1>27 DEF maps, local, NotPausedInv, NoPauseIsReplaced, ReapUser, Goto
<1>28. ASSUME NEW t \in Reapers, ReapWriter(t) PROVE NotPausedInv'
  BY <1>0, <1>28 DEF maps, local, NotPausedInv, NoPauseIsReplaced, ReapWriter, Goto, TakeWriter, CallFinalize
<1>29. ASSUME NEW t \in Reapers, ReapDone(t) PROVE NotPausedInv'
  BY <1>0, <1>29 DEF maps, local, NotPausedInv, NoPauseIsReplaced, ReapDone, Goto
<1>30. ASSUME NEW t \in Closers, SnapshotWriters(t) PROVE NotPausedInv'
  BY <1>0, <1>30 DEF maps, local, NotPausedInv, NoPauseIsReplaced, SnapshotWriters, Goto
<1>31. ASSUME NEW t \in Closers, NEW s \in Ssrcs, CloseWriter(t, s) PROVE NotPausedInv'
  BY <1>0, <1>31 DEF maps, local, NotPausedInv, NoPauseIsReplaced, CloseWriter, Goto, TakeWriter, CallFinalize
<1>32. ASSUME NEW t \in Closers, DrainPaused(t) PROVE NotPausedInv'
  <2>1. \A u \in Users : paused'[u].rec \in {paused[u].rec, NoRec}
    BY <1>0, <1>32 DEF maps, DrainPaused, Goto, NoPause
  <2>2. \A u \in Users : userSsrc'[u] \in {userSsrc[u], NoSsrc}
    BY <1>0, <1>32 DEF maps, DrainPaused, Goto
  <2>3. \/ pc'[Event] = pc[Event] /\ at'[Event] = at[Event]
        \/ pc'[Event] \in {"finish", "idle", "paused", "clear_users", "clear_paused"}
    BY <1>0, <1>32 DEF local, DrainPaused, Goto
  <2> QED BY <1>0, <2>1, <2>2, <2>3, NotPausedKept
<1>33. ASSUME NEW t \in Closers, ClosePaused(t) PROVE NotPausedInv'
  BY <1>0, <1>33 DEF maps, local, NotPausedInv, NoPauseIsReplaced, ClosePaused, Goto, CallFinalize
<1>34. ASSUME NEW t \in Closers, ClearUsers(t) PROVE NotPausedInv'
  <2>1. \A u \in Users : paused'[u].rec \in {paused[u].rec, NoRec}
    BY <1>0, <1>34 DEF maps, ClearUsers, Goto, NoPause
  <2>2. \A u \in Users : userSsrc'[u] \in {userSsrc[u], NoSsrc}
    BY <1>0, <1>34 DEF maps, ClearUsers, Goto
  <2>3. \/ pc'[Event] = pc[Event] /\ at'[Event] = at[Event]
        \/ pc'[Event] \in {"finish", "idle", "paused", "clear_users", "clear_paused"}
    BY <1>0, <1>34 DEF local, ClearUsers, Goto
  <2> QED BY <1>0, <2>1, <2>2, <2>3, NotPausedKept
<1>35. ASSUME NEW t \in Closers, ClearPaused(t) PROVE NotPausedInv'
  <2>1. \A u \in Users : paused'[u].rec \in {paused[u].rec, NoRec}
    BY <1>0, <1>35 DEF maps, ClearPaused, Goto, EndOf, Reapers, NoPause
  <2>2. \A u \in Users : userSsrc'[u] \in {userSsrc[u], NoSsrc}
    BY <1>0, <1>35 DEF maps, ClearPaused, Goto, EndOf, Reapers
  <2>3. \/ pc'[Event] = pc[Event] /\ at'[Event] = at[Event]
        \/ pc'[Event] \in {"finish", "idle", "paused", "clear_users", "clear_paused"}
    BY <1>0, <1>35 DEF local, ClearPaused, Goto, EndOf, Reapers
  <2> QED BY <1>0, <2>1, <2>2, <2>3, NotPausedKept
<1>36. ASSUME NEW t \in Tasks, FinishWriter(t) PROVE NotPausedInv'
  BY <1>0, <1>36 DEF maps, local, NotPausedInv, NoPauseIsReplaced, FinishWriter, Goto
<1>37. ASSUME NEW t \in Tasks, UpdateRow(t) PROVE NotPausedInv'
  BY <1>0, <1>37 DEF maps, local, NotPausedInv, NoPauseIsReplaced, UpdateRow, Goto
<1>39. ASSUME ScheduleOutage PROVE NotPausedInv'
  BY <1>0, <1>39 DEF maps, local, NotPausedInv, NoPauseIsReplaced, ScheduleOutage
<1>38. CASE UNCHANGED vars
  BY <1>38 DEF vars, maps, local, NotPausedInv, NoPauseIsReplaced
<1> QED
  BY <1>1, <1>2, <1>3, <1>4, <1>5, <1>6, <1>7, <1>8, <1>9, <1>10, <1>11,
     <1>12, <1>13, <1>14, <1>15, <1>16, <1>17, <1>18, <1>19, <1>20, <1>21,
     <1>22, <1>23, <1>24, <1>25, <1>26, <1>27, <1>28, <1>29, <1>30, <1>31,
     <1>32, <1>33, <1>34, <1>35, <1>36, <1>37, <1>38, <1>39
     DEF Next, Deliver, EventStep, Timeout, SharedStep

\* A step parks a recording only on its way to spawn its timeout, and ends the
\* timeout of a pause only by ending the pause.
LEMMA NextPaused == IInv /\ NotPausedInv /\ PausedHasTimeout /\ [Next]_vars => PausedHasTimeout'
<1> SUFFICES ASSUME IInv, NotPausedInv, PausedHasTimeout, [Next]_vars PROVE PausedHasTimeout'
  OBVIOUS
<1> USE TaskFacts, SsrcAssumption, RecAssumption, BoundAssumption
<1>0. /\ paused \in [Users -> Pauses \cup {NoPause}]
      /\ nextToken \in 1..MaxPauses + 1
      /\ pc \in [Tasks -> Labels] /\ at \in [Tasks -> Ssrcs \cup {NoSsrc}]
      /\ held \in [Tasks -> SUBSET Recs]
      /\ WorksAtOK /\ CarriesOK /\ SpawnInv
      /\ \A u \in Users : paused[u].rec # NoRec => paused[u].token \in 1..MaxPauses
  BY DEF IInv, TypeInv, TypeOK, LocalsOK, Pauses, NoPause
<1>1. ASSUME NEW s \in Ssrcs, SpeakingKnownBot(s) PROVE PausedHasTimeout'
  BY <1>0, <1>1 DEF maps, local, PausedHasTimeout, SpeakingKnownBot
<1>2. ASSUME NEW s \in Ssrcs, Speaking(s) PROVE PausedHasTimeout'
  BY <1>0, <1>2 DEF maps, local, PausedHasTimeout, Speaking, Goto
<1>3. ASSUME Remap PROVE PausedHasTimeout'
  BY <1>0, <1>3 DEF maps, local, PausedHasTimeout, Remap, Goto
<1>4. ASSUME Bind PROVE PausedHasTimeout'
  BY <1>0, <1>4 DEF maps, local, PausedHasTimeout, Bind, Goto, Return
<1>5. ASSUME LookupFails PROVE PausedHasTimeout'
  BY <1>0, <1>5 DEF maps, local, PausedHasTimeout, LookupFails, Goto, Return
<1>6. ASSUME LookupBot PROVE PausedHasTimeout'
  BY <1>0, <1>6 DEF maps, local, PausedHasTimeout, LookupBot, Goto, Return
<1>7. ASSUME LookupHuman PROVE PausedHasTimeout'
  BY <1>0, <1>7 DEF maps, local, PausedHasTimeout, LookupHuman, Goto, NoPause
<1>8. ASSUME RejoinWriter PROVE PausedHasTimeout'
  BY <1>0, <1>8 DEF maps, local, PausedHasTimeout, RejoinWriter, Goto
<1>9. ASSUME MapUser PROVE PausedHasTimeout'
  BY <1>0, <1>9 DEF maps, local, PausedHasTimeout, MapUser, Goto
<1>10. ASSUME ClaimSsrc PROVE PausedHasTimeout'
  BY <1>0, <1>10 DEF maps, local, PausedHasTimeout, ClaimSsrc, Goto, Return
<1>11. ASSUME NEW r \in Recs, CreateWriter(r) PROVE PausedHasTimeout'
  BY <1>0, <1>11 DEF maps, local, PausedHasTimeout, CreateWriter, Goto
<1>12. ASSUME InsertFails PROVE PausedHasTimeout'
  BY <1>0, <1>12 DEF maps, local, PausedHasTimeout, InsertFails, Goto, Return
<1>13. ASSUME NEW r \in Recs, FileFails(r) PROVE PausedHasTimeout'
  BY <1>0, <1>13 DEF maps, local, PausedHasTimeout, FileFails, Goto, Return
<1>14. ASSUME CountStarted PROVE PausedHasTimeout'
  BY <1>0, <1>14 DEF maps, local, PausedHasTimeout, CountStarted, Goto, Return
<1>15. ASSUME NEW u \in Users, BotLeaves(u) PROVE PausedHasTimeout'
  BY <1>0, <1>15 DEF maps, local, PausedHasTimeout, BotLeaves
<1>16. ASSUME NEW u \in Users, UserLeaves(u) PROVE PausedHasTimeout'
  BY <1>0, <1>16 DEF maps, local, PausedHasTimeout, UserLeaves, Goto
<1>17. ASSUME DetachWriter PROVE PausedHasTimeout'
  BY <1>0, <1>17 DEF maps, local, PausedHasTimeout, DetachWriter, Goto, Return
<1>18. ASSUME ParkRecording PROVE PausedHasTimeout'
  <2> DEFINE u == SsrcUser[at[Event]]
  <2>1. /\ u \in Users /\ paused[u].rec = NoRec
        /\ nextToken \in 1..MaxPauses /\ pc[Event] = "park"
    <3>1. pc[Event] = "park"
      BY <1>18 DEF ParkRecording
    <3>2. u \in Users
      BY <1>0, <3>1 DEF WorksAtOK
    <3>3. nextToken \in 1..MaxPauses
      BY <1>0, <3>1 DEF CarriesOK
    <3>4. paused[u].rec = NoRec
      BY <3>1, <3>2 DEF NotPausedInv, NoPauseIsReplaced
    <3> QED BY <3>1, <3>2, <3>3, <3>4
  <2>2. /\ pc'[Event] = "schedule" /\ nextToken' = nextToken + 1 /\ at' = at
        /\ \A t \in Tasks \ {Event} : pc'[t] = pc[t]
    BY <1>0, <1>18, <2>1 DEF local, ParkRecording, Goto
  <2>3. PICK r \in held[Event] :
          paused' = [paused EXCEPT ![u] = [rec |-> r, token |-> nextToken]]
    BY <1>18 DEF ParkRecording
  <2>4. /\ paused'[u].token = nextToken
        /\ \A v \in Users \ {u} : paused'[v] = paused[v]
    BY <1>0, <2>1, <2>3
  <2>5. ASSUME NEW v \in Users, v # u, paused'[v].rec # NoRec
        PROVE  LET k == paused'[v].token IN
               pc'[Rejoin(k)] = "armed" /\ SsrcUser[at'[Rejoin(k)]] = v
    <3>1. paused'[v] = paused[v]
      BY <2>4, <2>5
    <3>2. Rejoin(paused[v].token) \in Tasks \ {Event}
      BY <1>0, <2>5, <3>1
    <3> QED BY <2>1, <2>2, <2>5, <3>1, <3>2 DEF PausedHasTimeout
  <2> QED BY <2>1, <2>2, <2>4, <2>5 DEF PausedHasTimeout
<1>19. ASSUME ScheduleRejoin PROVE PausedHasTimeout'
  BY <1>0, <1>19 DEF maps, local, PausedHasTimeout, ScheduleRejoin, SpawnInv, Scheduling, WorksAtOK
<1>20. ASSUME NEW k \in 1..MaxPauses, RejoinTimeout(k) PROVE PausedHasTimeout'
  BY <1>0, <1>20 DEF maps, local, PausedHasTimeout, RejoinTimeout, Goto, CallFinalize, PausedTimeoutMatches, NoPause
<1>21. ASSUME RecoverableDisconnect PROVE PausedHasTimeout'
  BY <1>0, <1>21 DEF maps, local, PausedHasTimeout, RecoverableDisconnect, Goto
<1>22. ASSUME FinalDisconnect PROVE PausedHasTimeout'
  BY <1>0, <1>22 DEF maps, local, PausedHasTimeout, FinalDisconnect, Goto
<1>23. ASSUME NEW e \in 1..MaxOutages, OutageTimeout(e) PROVE PausedHasTimeout'
  BY <1>0, <1>23 DEF maps, local, PausedHasTimeout, OutageTimeout, Goto
<1>24. ASSUME DriverConnects PROVE PausedHasTimeout'
  BY <1>0, <1>24 DEF maps, local, PausedHasTimeout, DriverConnects, Goto
<1>25. ASSUME SurveyUsers PROVE PausedHasTimeout'
  BY <1>0, <1>25 DEF maps, local, PausedHasTimeout, SurveyUsers, Goto, Mapped
<1>26. ASSUME HealthCheck PROVE PausedHasTimeout'
  BY <1>0, <1>26 DEF maps, local, PausedHasTimeout, HealthCheck, Goto, Mapped
<1>27. ASSUME NEW t \in Reapers, NEW s \in Ssrcs, ReapUser(t, s) PROVE PausedHasTimeout'
  BY <1>0, <1>27 DEF maps, local, PausedHasTimeout, ReapUser, Goto
<1>28. ASSUME NEW t \in Reapers, ReapWriter(t) PROVE PausedHasTimeout'
  BY <1>0, <1>28 DEF maps, local, PausedHasTimeout, ReapWriter, Goto, TakeWriter, CallFinalize
<1>29. ASSUME NEW t \in Reapers, ReapDone(t) PROVE PausedHasTimeout'
  BY <1>0, <1>29 DEF maps, local, PausedHasTimeout, ReapDone, Goto
<1>30. ASSUME NEW t \in Closers, SnapshotWriters(t) PROVE PausedHasTimeout'
  BY <1>0, <1>30 DEF maps, local, PausedHasTimeout, SnapshotWriters, Goto
<1>31. ASSUME NEW t \in Closers, NEW s \in Ssrcs, CloseWriter(t, s) PROVE PausedHasTimeout'
  BY <1>0, <1>31 DEF maps, local, PausedHasTimeout, CloseWriter, Goto, TakeWriter, CallFinalize
<1>32. ASSUME NEW t \in Closers, DrainPaused(t) PROVE PausedHasTimeout'
  BY <1>0, <1>32 DEF maps, local, PausedHasTimeout, DrainPaused, Goto, PausedNow, NoPause
<1>33. ASSUME NEW t \in Closers, ClosePaused(t) PROVE PausedHasTimeout'
  BY <1>0, <1>33 DEF maps, local, PausedHasTimeout, ClosePaused, Goto, CallFinalize
<1>34. ASSUME NEW t \in Closers, ClearUsers(t) PROVE PausedHasTimeout'
  BY <1>0, <1>34 DEF maps, local, PausedHasTimeout, ClearUsers, Goto
<1>35. ASSUME NEW t \in Closers, ClearPaused(t) PROVE PausedHasTimeout'
  BY <1>0, <1>35 DEF maps, local, PausedHasTimeout, ClearPaused, Goto, EndOf, NoPause
<1>36. ASSUME NEW t \in Tasks, FinishWriter(t) PROVE PausedHasTimeout'
  BY <1>0, <1>36 DEF maps, local, PausedHasTimeout, FinishWriter, Goto
<1>37. ASSUME NEW t \in Tasks, UpdateRow(t) PROVE PausedHasTimeout'
  BY <1>0, <1>37 DEF maps, local, PausedHasTimeout, UpdateRow, Goto
<1>39. ASSUME ScheduleOutage PROVE PausedHasTimeout'
  BY <1>0, <1>39 DEF maps, local, PausedHasTimeout, ScheduleOutage
<1>38. CASE UNCHANGED vars
  BY <1>38 DEF vars, maps, local, PausedHasTimeout
<1> QED
  BY <1>1, <1>2, <1>3, <1>4, <1>5, <1>6, <1>7, <1>8, <1>9, <1>10, <1>11,
     <1>12, <1>13, <1>14, <1>15, <1>16, <1>17, <1>18, <1>19, <1>20, <1>21,
     <1>22, <1>23, <1>24, <1>25, <1>26, <1>27, <1>28, <1>29, <1>30, <1>31,
     <1>32, <1>33, <1>34, <1>35, <1>36, <1>37, <1>38, <1>39
     DEF Next, Deliver, EventStep, Timeout, SharedStep

LEMMA TimeoutInvInductive ==
  /\ Init => TimeoutInv
  /\ TimeoutInv /\ [Next]_vars => TimeoutInv'
<1>1. Init => TimeoutInv
  BY IInvInductive, InitTimeout DEF TimeoutInv
<1>2. TimeoutInv /\ [Next]_vars => TimeoutInv'
  BY IInvInductive, NextOutage, NextNotPaused, NextPaused DEF TimeoutInv, IInv
<1> QED BY <1>1, <1>2

\* While an outage runs its own timeout sleeps, but for the time the event task
\* takes from recording it to spawning the timeout.
THEOREM OutageHasTimeoutHolds == Spec => []OutageHasTimeout
<1>1. TimeoutInv => OutageHasTimeout
  BY DEF TimeoutInv
<1> QED BY <1>1, TimeoutInvInductive, PTL DEF Spec

\* A parked recording has the timeout of its own token, however many pauses
\* of the same user came before it.
THEOREM PausedHasTimeoutHolds == Spec => []PausedHasTimeout
<1>1. TimeoutInv => PausedHasTimeout
  BY DEF TimeoutInv
<1> QED BY <1>1, TimeoutInvInductive, PTL DEF Spec

\* A user is never both mapped and paused: no paused recording is replaced.
THEOREM NoPauseIsReplacedHolds == Spec => []NoPauseIsReplaced
<1>1. TimeoutInv => NoPauseIsReplaced
  BY DEF TimeoutInv, NotPausedInv
<1> QED BY <1>1, TimeoutInvInductive, PTL DEF Spec

\* A pause ends early only with the session or the user's return: of the
\* timeout tasks only the one of its own token takes it.
THEOREM PauseEndedByItsOwnHolds == Spec => PauseEndedByItsOwn
<1> DEFINE A == \A u \in Users :
                  LET k == paused[u].token IN
                  k # 0 /\ paused'[u].token # k =>
                    \E t \in Closers \cup {Rejoin(k)} : pc'[t] # pc[t]
<1> USE TaskFacts
<1>1. TypeOK /\ Next => A
  <2> SUFFICES ASSUME TypeOK, Next, NEW u \in Users,
                      paused[u].token # 0, paused'[u].token # paused[u].token
               PROVE  \E t \in Closers \cup {Rejoin(paused[u].token)} : pc'[t] # pc[t]
    OBVIOUS
  <2>0. pc \in [Tasks -> Labels] /\ paused \in [Users -> Pauses \cup {NoPause}]
    BY DEF TypeOK
  <2>1. Event \in Closers
    BY DEF Closers
  <2>2. CASE LookupHuman
    BY <2>0, <2>1, <2>2 DEF LookupHuman, Goto
  <2>3. CASE ParkRecording
    BY <2>0, <2>1, <2>3 DEF ParkRecording, Goto, CallFinalize
  <2>4. ASSUME NEW k \in 1..MaxPauses, RejoinTimeout(k)
        PROVE  \E t \in Closers \cup {Rejoin(paused[u].token)} : pc'[t] # pc[t]
    <3>1. paused[u].token = k
      BY <2>0, <2>4 DEF RejoinTimeout, PausedTimeoutMatches
    <3>2. pc[Rejoin(k)] = "armed" /\ pc'[Rejoin(k)] \in {"finish", "done"}
      BY <2>0, <2>4 DEF RejoinTimeout, CallFinalize, Goto
    <3> QED BY <3>1, <3>2
  <2>5. ASSUME NEW t \in Closers, DrainPaused(t) \/ ClearPaused(t) PROVE pc'[t] # pc[t]
    BY <2>0, <2>5 DEF DrainPaused, ClearPaused, Goto, EndOf
  <2>6. ASSUME paused' = paused PROVE FALSE
    BY <2>6
  <2> QED
    BY <2>2, <2>3, <2>4, <2>5, <2>6
       DEF Next, Deliver, EventStep, Timeout, SharedStep, maps,
           SpeakingKnownBot, Speaking, Remap, Bind, LookupFails, LookupBot, RejoinWriter,
           MapUser, ClaimSsrc, CreateWriter, InsertFails, FileFails, CountStarted,
           BotLeaves, UserLeaves, DetachWriter, ScheduleRejoin, RecoverableDisconnect, ScheduleOutage,
           FinalDisconnect, OutageTimeout, DriverConnects, SurveyUsers, HealthCheck,
           ReapUser, ReapWriter, ReapDone, SnapshotWriters, CloseWriter, ClosePaused,
           ClearUsers, FinishWriter, UpdateRow
<1>2. TypeOK /\ [Next]_vars =>
        [\A u \in Users :
           LET k == paused[u].token IN
           k # 0 /\ paused'[u].token # k =>
             \E t \in Closers \cup {Rejoin(k)} : pc'[t] # pc[t]]_vars
  BY <1>1
<1> QED BY <1>2, TypeCorrect, PTL DEF Spec, PauseEndedByItsOwn

\* An outage ends early only with an event: of the timeout tasks only its own
\* ever ends it.
THEOREM OutageEndedByItsOwnHolds == Spec => OutageEndedByItsOwn
<1> DEFINE A == disconnectedAt # 0 /\ disconnectedAt' # disconnectedAt =>
                  \E t \in {Event, Outage(disconnectedAt)} : pc'[t] # pc[t]
<1> USE TaskFacts
<1>1. TypeOK /\ Next => A
  <2> SUFFICES ASSUME TypeOK, Next, disconnectedAt # 0, disconnectedAt' # disconnectedAt
               PROVE  \E t \in {Event, Outage(disconnectedAt)} : pc'[t] # pc[t]
    OBVIOUS
  <2>0. pc \in [Tasks -> Labels]
    BY DEF TypeOK
  <2>1. CASE RecoverableDisconnect
    BY <2>1 DEF RecoverableDisconnect
  <2>2. CASE FinalDisconnect
    BY <2>0, <2>2 DEF FinalDisconnect, Goto
  <2>3. ASSUME NEW e \in 1..MaxOutages, OutageTimeout(e)
        PROVE  \E t \in {Event, Outage(disconnectedAt)} : pc'[t] # pc[t]
    <3>1. disconnectedAt = e
      BY <2>3 DEF OutageTimeout, OutageTimeoutMatches
    <3>2. pc[Outage(e)] = "armed" /\ pc'[Outage(e)] = "close_all"
      BY <2>0, <2>3, <3>1 DEF OutageTimeout, OutageTimeoutMatches, Goto
    <3> QED BY <3>1, <3>2
  <2>4. CASE DriverConnects
    BY <2>0, <2>4 DEF DriverConnects, Goto
  <2>5. ASSUME link' = link PROVE FALSE
    BY <2>5 DEF link
  <2> QED
    BY <2>1, <2>2, <2>3, <2>4, <2>5
       DEF Next, Deliver, EventStep, Timeout, SharedStep,
           SpeakingKnownBot, Speaking, Remap, Bind, LookupFails, LookupBot, LookupHuman,
           RejoinWriter, MapUser, ClaimSsrc, CreateWriter, InsertFails, FileFails,
           CountStarted, BotLeaves, UserLeaves, DetachWriter, ParkRecording,
           ScheduleRejoin, RejoinTimeout, ScheduleOutage, SurveyUsers, HealthCheck,
           ReapUser, ReapWriter, ReapDone, SnapshotWriters, CloseWriter, DrainPaused,
           ClosePaused, ClearUsers, ClearPaused, FinishWriter, UpdateRow
<1>2. TypeOK /\ [Next]_vars =>
        [disconnectedAt # 0 /\ disconnectedAt' # disconnectedAt =>
           \E t \in {Event, Outage(disconnectedAt)} : pc'[t] # pc[t]]_vars
  BY <1>1
<1> QED BY <1>2, TypeCorrect, PTL DEF Spec, OutageEndedByItsOwn
====
