---- MODULE VoiceSession_proofs ----
(***************************************************************************)
(* The leases of VoiceSession, for any instances, humans, channels and     *)
(* bounds: types, that an event is handled by one instance and that the    *)
(* lease of a live one is only taken in a race.  The last two suppose that *)
(* no lease query fails: the code goes on without an answer, by design.    *)
(***************************************************************************)
EXTENDS VoiceSession, FiniteSetTheorems, TLAPS

\* A process that does not run has no tasks, and none has a task for an event
\* that has not happened.
OffInv ==
  \A i \in Instances, e \in EventIds :
    i \notin up \/ e \notin DOMAIN events => task[i][e] = Idle

\* A connect that was let past the lease finds it free or its own, or was
\* overtaken by another owner since.
RacedInv ==
  \A i \in Instances, e \in EventIds :
    task[i][e].pc \in Committed /\ LeaseOwner \notin {NoOne, i} => <<i, e>> \in raced

\* Where the routing of an event has brought a task, if nothing has changed.
Routed(i, label) ==
  IF i \in up
  THEN \/ label = "route"
       \/ label = "skipped" /\ ~Handles(i, FALSE)
       \/ label \notin {"off", "route", "skipped"} /\ Handles(i, FALSE)
  ELSE label = "off"
SettledInv ==
  \A e \in settled : e \in DOMAIN events /\ \A i \in Instances : Routed(i, task[i][e].pc)

----
\* The bounds, one by one.
LEMMA Bounds == /\ MaxEvents \in Nat /\ MaxKicks \in Nat /\ MaxStarts \in Nat /\ MaxCrashes \in Nat
                /\ QueryErrors \in BOOLEAN
BY SessionAssumption

\* What TypeOK says of each variable.
EventsOK == /\ DOMAIN events = 1 .. Cardinality(DOMAIN events)
            /\ \A e \in DOMAIN events : e \in EventIds /\ events[e] \in Event
TasksOK   == task \in [Instances -> [EventIds -> Task]]
VoiceOK   == call \in [Instances -> Maybe(Call)] /\ count \in [Instances -> Int]
RunsOK    == up \subseteq Instances /\ draining \subseteq up
RowsOK    == lease \in Maybe(Instances) /\ fresh \subseteq Instances
CountsOK  == /\ kicks \in 0 .. MaxKicks /\ starts \in 0 .. MaxStarts /\ crashes \in 0 .. MaxCrashes
             /\ blind \subseteq EventIds
HistoryOK == /\ raced \subseteq Instances \X EventIds /\ settled \subseteq EventIds
             /\ kicked \in BOOLEAN /\ overlap \in BOOLEAN

LEMMA TypeParts ==
  TypeOK <=> /\ where \in [Humans -> Maybe(Channels)]
             /\ EventsOK /\ TasksOK /\ VoiceOK /\ RunsOK /\ RowsOK /\ CountsOK /\ HistoryOK
<1>1. {kicked, overlap} \subseteq BOOLEAN <=> kicked \in BOOLEAN /\ overlap \in BOOLEAN
  BY Zenon
<1> QED
  BY <1>1, Zenon DEF TypeOK, EventsOK, TasksOK, VoiceOK, RunsOK, RowsOK, CountsOK, HistoryOK

LEMMA PartsNext ==
  ASSUME where' \in [Humans -> Maybe(Channels)], EventsOK', TasksOK', VoiceOK', RunsOK', RowsOK',
         CountsOK', HistoryOK'
  PROVE  TypeOK'
<1>1. {kicked', overlap'} \subseteq BOOLEAN
  BY Zenon DEF HistoryOK
<1> QED
  BY <1>1, Zenon DEF TypeOK, EventsOK, TasksOK, VoiceOK, RunsOK, RowsOK, CountsOK, HistoryOK

LEMMA RememberTypes == ASSUME Remember, EventsOK' PROVE HistoryOK'
<1>1. raced' \subseteq Instances \X EventIds
  BY DEF Remember
<1>2. settled' \subseteq EventIds
  <2>1. DOMAIN events' \subseteq EventIds
    BY DEF EventsOK
  <2> QED BY <2>1 DEF Remember
<1>3. kicked' \in BOOLEAN
  BY Zenon DEF Remember
<1>4. overlap' \in BOOLEAN
  BY Zenon DEF Remember
<1> QED BY <1>1, <1>2, <1>3, <1>4 DEF HistoryOK

----
\* The task of one instance for one event moves, the others do not.
Moves(i, e) ==
  /\ task' \in [Instances -> [EventIds -> Task]]
  /\ \A j \in Instances, d \in EventIds : j # i \/ d # e => task'[j][d] = task[j][d]

LEMMA SetMoves ==
  ASSUME TasksOK, NEW i \in Instances, NEW e \in EventIds, NEW t \in Task,
         task' = [task EXCEPT ![i] = [task[i] EXCEPT ![e] = t]]
  PROVE  Moves(i, e) /\ task'[i][e] = t
<1>1. task[i] \in [EventIds -> Task]
  BY DEF TasksOK
<1>2. [task[i] EXCEPT ![e] = t] \in [EventIds -> Task]
  BY <1>1
<1>3. task'[i] = [task[i] EXCEPT ![e] = t] /\ \A j \in Instances \ {i} : task'[j] = task[j]
  BY DEF TasksOK
<1>4. task' \in [Instances -> [EventIds -> Task]]
  BY <1>2 DEF TasksOK
<1>5. \A d \in EventIds \ {e} : task'[i][d] = task[i][d]
  BY <1>1, <1>3
<1>6. task'[i][e] = t
  BY <1>1, <1>3
<1> QED BY <1>3, <1>4, <1>5, <1>6 DEF Moves

LEMMA TaskOf ==
  ASSUME TasksOK, NEW i \in Instances, NEW e \in EventIds
  PROVE  task[i][e] \in Task
BY DEF TasksOK

LEMMA IdleTask == Idle \in Task
BY DEF Idle, Task, Labels, Maybe, Modes

LEMMA GotoMoves ==
  ASSUME TasksOK, NEW i \in Instances, NEW e \in EventIds, NEW label \in Labels,
         Goto(i, e, label)
  PROVE  Moves(i, e) /\ task'[i][e].pc = label
<1> DEFINE t == [task[i][e] EXCEPT !.pc = label]
<1>1. t \in Task /\ t.pc = label
  BY TaskOf DEF Task
<1>2. task' = [task EXCEPT ![i] = [task[i] EXCEPT ![e] = t]]
  BY DEF Goto
<1> HIDE DEF t
<1> QED BY <1>1, <1>2, SetMoves

LEMMA FinishMoves ==
  ASSUME TasksOK, NEW i \in Instances, NEW e \in EventIds, Finish(i, e)
  PROVE  Moves(i, e) /\ task'[i][e].pc = "done"
<1> DEFINE t == [Idle EXCEPT !.pc = "done"]
<1>1. t \in Task /\ t.pc = "done"
  BY DEF Idle, Task, Labels, Maybe, Modes
<1>2. task' = [task EXCEPT ![i] = [task[i] EXCEPT ![e] = t]]
  BY DEF Finish
<1> HIDE DEF t
<1> QED BY <1>1, <1>2, SetMoves

GotoChannel(i, e, label, c) ==
  task' = [task EXCEPT ![i][e].pc = label, ![i][e].chan = c]

LEMMA ChannelMoves ==
  ASSUME TasksOK, NEW i \in Instances, NEW e \in EventIds, NEW label \in Labels,
         NEW c \in Maybe(Channels),
         GotoChannel(i, e, label, c)
  PROVE  Moves(i, e) /\ task'[i][e].pc = label
<1> DEFINE t == [task[i][e] EXCEPT !.pc = label, !.chan = c]
<1>1. t \in Task /\ t.pc = label
  BY TaskOf DEF Task
<1>2. task' = [task EXCEPT ![i] = [task[i] EXCEPT ![e] = t]]
  BY TaskOf DEF TasksOK, GotoChannel
<1> HIDE DEF t
<1> QED BY <1>1, <1>2, SetMoves

GotoMode(i, e, label, mode) ==
  task' = [task EXCEPT ![i][e].pc = label, ![i][e].mode = mode]

LEMMA ModeMoves ==
  ASSUME TasksOK, NEW i \in Instances, NEW e \in EventIds, NEW label \in Labels,
         NEW mode \in Modes,
         GotoMode(i, e, label, mode)
  PROVE  Moves(i, e) /\ task'[i][e].pc = label
<1> DEFINE t == [task[i][e] EXCEPT !.pc = label, !.mode = mode]
<1>1. t \in Task /\ t.pc = label
  BY TaskOf DEF Task
<1>2. task' = [task EXCEPT ![i] = [task[i] EXCEPT ![e] = t]]
  BY TaskOf DEF TasksOK, GotoMode
<1> HIDE DEF t
<1> QED BY <1>1, <1>2, SetMoves

----
\* What a step of a task may make of its label and of the lease.
Passes(i, e) ==
  /\ task[i][e].pc \notin Resting \ {"recheck"} /\ task'[i][e].pc \notin {"off", "route"}
  /\ task[i][e].pc = "route" =>
       \E failed \in BOOLEAN : /\ failed => QueryErrors
                               /\ task'[i][e].pc = IF Handles(i, failed) THEN "decide" ELSE "skipped"
  /\ task[i][e].pc # "route" => task'[i][e].pc # "skipped"
  /\ task'[i][e].pc \in Committed /\ task[i][e].pc \notin Committed =>
       \E failed \in BOOLEAN : (failed => QueryErrors) /\ MayConnect(i, failed)
  /\ lease' \in {lease, NoOne, i}
  /\ lease' \notin {lease, NoOne} => task[i][e].pc = "claim"
  /\ lease' # lease => task'[i][e].pc \notin Committed

Steps(i, e) ==
  /\ i \in up /\ e \in DOMAIN events
  /\ Remember
  /\ UNCHANGED <<guild, process, fresh, kicks>>
  /\ blind' \in {blind, blind \cup {e}}
  /\ Moves(i, e) /\ Passes(i, e)
  /\ VoiceOK'

LEMMA SetCall ==
  ASSUME VoiceOK, NEW i \in Instances, NEW c \in Maybe(Call), call' = [call EXCEPT ![i] = c],
         count' \in [Instances -> Int]
  PROVE  VoiceOK'
BY DEF VoiceOK

LEMMA CallOf == ASSUME VoiceOK, NEW i \in Instances, HasCall(i) PROVE call[i] \in Call
BY DEF VoiceOK, HasCall, Maybe

LEMMA RouteSteps ==
  ASSUME TypeOK, NEW i \in Instances, NEW e \in EventIds, NEW failed \in BOOLEAN, Route(i, e, failed)
  PROVE  Steps(i, e)
<1> DEFINE label == IF Handles(i, failed) THEN "decide" ELSE "skipped"
<1>1. Moves(i, e) /\ task'[i][e].pc = label
  BY TypeParts, GotoMoves DEF Route, Labels
<1>2. VoiceOK'
  BY TypeParts DEF Route, VoiceOK, voice
<1>3. Passes(i, e)
  BY <1>1 DEF Route, Passes, At, Resting, Committed, process, rows
<1> QED BY <1>1, <1>2, <1>3 DEF Route, Steps, At, guild, process, rows, mishaps

LEMMA ScheduleLeaveSteps ==
  ASSUME TypeOK, NEW i \in Instances, NEW e \in EventIds, ScheduleLeave(i, e)
  PROVE  Steps(i, e)
<1>1. Moves(i, e) /\ task'[i][e].pc = "recheck"
  <2>1. events[e].from \in Maybe(Channels) /\ "recheck" \in Labels
    BY TypeParts DEF ScheduleLeave, At, EventsOK, Event, Labels
  <2>2. GotoChannel(i, e, "recheck", events[e].from)
    BY DEF ScheduleLeave, GotoChannel
  <2> QED BY <2>1, <2>2, TypeParts, ChannelMoves
<1>2. VoiceOK'
  BY TypeParts DEF ScheduleLeave, VoiceOK, voice
<1>3. Passes(i, e)
  BY <1>1 DEF ScheduleLeave, Passes, At, Resting, Committed, process, rows
<1> QED BY <1>1, <1>2, <1>3 DEF ScheduleLeave, Steps, At, guild, process, rows, mishaps

LEMMA WantChannelSteps ==
  ASSUME TypeOK, NEW i \in Instances, NEW e \in EventIds, NEW c \in Channels, WantChannel(i, e, c)
  PROVE  Steps(i, e)
<1>1. Moves(i, e) /\ task'[i][e].pc = "check"
  <2>1. c \in Maybe(Channels) /\ "check" \in Labels
    BY DEF Maybe, Labels
  <2>2. GotoChannel(i, e, "check", c)
    BY DEF WantChannel, GotoChannel
  <2> QED BY <2>1, <2>2, TypeParts, ChannelMoves
<1>2. VoiceOK'
  BY TypeParts DEF WantChannel, VoiceOK, voice
<1>3. Passes(i, e)
  BY <1>1 DEF WantChannel, Passes, At, Resting, Committed, process, rows
<1> QED BY <1>1, <1>2, <1>3 DEF WantChannel, Steps, At, guild, process, rows, mishaps

LEMMA WantNothingSteps ==
  ASSUME TypeOK, NEW i \in Instances, NEW e \in EventIds, WantNothing(i, e)
  PROVE  Steps(i, e)
<1>1. Moves(i, e) /\ task'[i][e].pc = "done"
  BY TypeParts, FinishMoves DEF WantNothing
<1>2. VoiceOK'
  BY TypeParts DEF WantNothing, VoiceOK, voice
<1>3. Passes(i, e)
  BY <1>1 DEF WantNothing, Passes, At, Resting, Committed, process, rows
<1> QED BY <1>1, <1>2, <1>3 DEF WantNothing, Steps, At, guild, process, rows, mishaps

LEMMA CannotDecideSteps ==
  ASSUME TypeOK, NEW i \in Instances, NEW e \in EventIds, CannotDecide(i, e)
  PROVE  Steps(i, e)
<1>1. Moves(i, e) /\ task'[i][e].pc = "done"
  BY TypeParts, FinishMoves DEF CannotDecide
<1>2. VoiceOK'
  BY TypeParts DEF CannotDecide, VoiceOK, voice
<1>3. Passes(i, e)
  BY <1>1 DEF CannotDecide, Passes, At, Resting, Committed, process, rows
<1> QED BY <1>1, <1>2, <1>3 DEF CannotDecide, Steps, At, guild, process, rows, mishaps

LEMMA CheckSteps ==
  ASSUME TypeOK, NEW i \in Instances, NEW e \in EventIds, NEW failed \in BOOLEAN, Check(i, e, failed)
  PROVE  Steps(i, e)
<1>1. /\ Moves(i, e) /\ task'[i][e].pc \in {"done", "lookup"}
      /\ task'[i][e].pc = "lookup" => MayConnect(i, failed)
  BY TypeParts, FinishMoves, GotoMoves DEF Check, Labels
<1>2. VoiceOK'
  BY TypeParts DEF Check, VoiceOK, voice
<1>3. Passes(i, e)
  BY <1>1 DEF Check, Passes, At, Resting, Committed, process, rows
<1> QED BY <1>1, <1>2, <1>3 DEF Check, Steps, At, guild, process, rows, mishaps

LEMMA LookupSteps ==
  ASSUME TypeOK, NEW i \in Instances, NEW e \in EventIds, Lookup(i, e)
  PROVE  Steps(i, e)
<1>1. Moves(i, e) /\ task'[i][e].pc \in {"done", "enter"}
  <2>1. ModeOf(i) \in Modes /\ "enter" \in Labels
    BY DEF ModeOf, Modes, Labels
  <2>2. Finish(i, e) \/ GotoMode(i, e, "enter", ModeOf(i))
    BY DEF Lookup, GotoMode
  <2> QED BY <2>1, <2>2, TypeParts, ModeMoves, FinishMoves
<1>2. VoiceOK'
  BY TypeParts DEF Lookup, VoiceOK, voice
<1>3. Passes(i, e)
  BY <1>1 DEF Lookup, Passes, At, Resting, Committed, process, rows
<1> QED BY <1>1, <1>2, <1>3 DEF Lookup, Steps, At, guild, process, rows, mishaps

LEMMA EnterSteps ==
  ASSUME TypeOK, NEW i \in Instances, NEW e \in EventIds, Enter(i, e)
  PROVE  Steps(i, e)
<1>1. Moves(i, e) /\ task'[i][e].pc = "joining"
  BY TypeParts, GotoMoves DEF Enter, Labels
<1>2. VoiceOK'
  <2>1. Receiver(i, e) \in Maybe(EventIds)
    BY TypeParts, CallOf DEF Receiver, Maybe, Call
  <2>2. task[i][e].chan \in Maybe(Channels)
    BY TypeParts, TaskOf DEF Task
  <2>3. (HasCall(i) /\ call[i].joined /\ call[i].chan = task[i][e].chan) \in BOOLEAN
    BY Zenon
  <2> DEFINE c == [by |-> Receiver(i, e), joiner |-> e, chan |-> task[i][e].chan,
                   joined |-> HasCall(i) /\ call[i].joined /\ call[i].chan = task[i][e].chan]
  <2>4. c \in Maybe(Call)
    BY <2>1, <2>2, <2>3 DEF Call, Maybe
  <2>5. call' = [call EXCEPT ![i] = c] /\ count' \in [Instances -> Int]
    BY TypeParts DEF Enter, VoiceOK
  <2> HIDE DEF c
  <2> QED BY <2>4, <2>5, TypeParts, SetCall
<1>3. Passes(i, e)
  BY <1>1 DEF Enter, Passes, At, Resting, Committed, process, rows
<1> QED BY <1>1, <1>2, <1>3 DEF Enter, Steps, At, guild, process, rows, mishaps

LEMMA JoinSucceedsSteps ==
  ASSUME TypeOK, NEW i \in Instances, NEW e \in EventIds, JoinSucceeds(i, e)
  PROVE  Steps(i, e)
<1>1. Moves(i, e) /\ task'[i][e].pc = "claim"
  BY TypeParts, GotoMoves DEF JoinSucceeds, Labels
<1>2. VoiceOK'
  <2> DEFINE c == [call[i] EXCEPT !.joined = TRUE]
  <2>1. c \in Maybe(Call)
    BY TypeParts, CallOf DEF JoinSucceeds, Joins, Call, Maybe
  <2>2. call' = [call EXCEPT ![i] = c] /\ count' \in [Instances -> Int]
    BY TypeParts DEF JoinSucceeds, VoiceOK
  <2> HIDE DEF c
  <2> QED BY <2>1, <2>2, TypeParts, SetCall
<1>3. Passes(i, e)
  BY <1>1 DEF JoinSucceeds, Passes, At, Resting, Committed, process, rows
<1> QED BY <1>1, <1>2, <1>3 DEF JoinSucceeds, Steps, At, guild, process, rows, mishaps

LEMMA JoinFailsSteps ==
  ASSUME TypeOK, NEW i \in Instances, NEW e \in EventIds, JoinFails(i, e)
  PROVE  Steps(i, e)
<1>1. Moves(i, e) /\ task'[i][e].pc = "clean"
  BY TypeParts, GotoMoves DEF JoinFails, Labels
<1>2. VoiceOK'
  BY TypeParts DEF JoinFails, VoiceOK, voice
<1>3. Passes(i, e)
  BY <1>1 DEF JoinFails, Passes, At, Resting, Committed, process, rows
<1> QED BY <1>1, <1>2, <1>3 DEF JoinFails, Steps, At, guild, process, rows, mishaps

LEMMA CleanUpSteps ==
  ASSUME TypeOK, NEW i \in Instances, NEW e \in EventIds, CleanUp(i, e)
  PROVE  Steps(i, e)
<1>1. Moves(i, e) /\ task'[i][e].pc = "done"
  BY TypeParts, FinishMoves DEF CleanUp
<1>2. VoiceOK'
  BY TypeParts, SetCall DEF CleanUp, VoiceOK, Maybe
<1>3. Passes(i, e)
  BY <1>1 DEF CleanUp, Passes, At, Resting, Committed, process, rows
<1> QED BY <1>1, <1>2, <1>3 DEF CleanUp, Steps, At, guild, process, rows, mishaps

LEMMA ClaimSteps ==
  ASSUME TypeOK, NEW i \in Instances, NEW e \in EventIds, NEW failed \in BOOLEAN,
         Claim(i, e, failed)
  PROVE  Steps(i, e)
<1>1. Moves(i, e) /\ task'[i][e].pc = "done"
  BY TypeParts, FinishMoves DEF Claim
<1>2. VoiceOK'
  BY TypeParts DEF Claim, VoiceOK, voice
<1>3. Passes(i, e)
  BY <1>1 DEF Claim, Passes, At, Resting, Committed, process, rows
<1> QED BY <1>1, <1>2, <1>3 DEF Claim, Steps, At, guild, process, rows, mishaps

LEMMA RecheckSteps ==
  ASSUME TypeOK, NEW i \in Instances, NEW e \in EventIds, Recheck(i, e)
  PROVE  Steps(i, e)
<1>1. Moves(i, e) /\ task'[i][e].pc \in {"done", "leave"}
  BY TypeParts, FinishMoves, GotoMoves DEF Recheck, Labels
<1>2. VoiceOK'
  BY TypeParts DEF Recheck, VoiceOK, voice
<1>3. Passes(i, e)
  BY <1>1 DEF Recheck, Passes, At, Resting, Committed, process, rows
<1> QED BY <1>1, <1>2, <1>3 DEF Recheck, Steps, At, guild, process, rows, mishaps

LEMMA CannotRecheckSteps ==
  ASSUME TypeOK, NEW i \in Instances, NEW e \in EventIds, CannotRecheck(i, e)
  PROVE  Steps(i, e)
<1>1. Moves(i, e) /\ task'[i][e].pc = "done"
  BY TypeParts, FinishMoves DEF CannotRecheck
<1>2. VoiceOK'
  BY TypeParts DEF CannotRecheck, VoiceOK, voice
<1>3. Passes(i, e)
  BY <1>1 DEF CannotRecheck, Passes, At, Resting, Committed, process, rows
<1> QED BY <1>1, <1>2, <1>3 DEF CannotRecheck, Steps, At, guild, process, rows, mishaps

LEMMA LeaveSteps ==
  ASSUME TypeOK, NEW i \in Instances, NEW e \in EventIds, Leave(i, e)
  PROVE  Steps(i, e)
<1>1. Moves(i, e) /\ task'[i][e].pc \in {"done", "remove"}
  BY TypeParts, FinishMoves, GotoMoves DEF Leave, Labels
<1>2. VoiceOK'
  <2>1. CASE ~HasCall(i)
    BY <2>1, TypeParts DEF Leave, VoiceOK
  <2>2. CASE HasCall(i)
    <3> DEFINE c == [call[i] EXCEPT !.chan = NoOne, !.joined = FALSE]
    <3>1. c \in Maybe(Call)
      BY <2>2, TypeParts, CallOf DEF Call, Maybe
    <3>2. call' = [call EXCEPT ![i] = c] /\ count' \in [Instances -> Int]
      BY <2>2, TypeParts DEF Leave, VoiceOK
    <3> HIDE DEF c
    <3> QED BY <3>1, <3>2, TypeParts, SetCall
  <2> QED BY <2>1, <2>2
<1>3. Passes(i, e)
  BY <1>1 DEF Leave, Passes, At, Resting, Committed, process, rows
<1> QED BY <1>1, <1>2, <1>3 DEF Leave, Steps, At, guild, process, rows, mishaps

LEMMA RemoveSteps ==
  ASSUME TypeOK, NEW i \in Instances, NEW e \in EventIds, Remove(i, e)
  PROVE  Steps(i, e)
<1>1. Moves(i, e) /\ task'[i][e].pc = "release"
  BY TypeParts, GotoMoves DEF Remove, Labels
<1>2. VoiceOK'
  BY TypeParts, SetCall DEF Remove, VoiceOK, Maybe
<1>3. Passes(i, e)
  BY <1>1 DEF Remove, Passes, At, Resting, Committed, process, rows
<1> QED BY <1>1, <1>2, <1>3 DEF Remove, Steps, At, guild, process, rows, mishaps

LEMMA ReleaseSteps ==
  ASSUME TypeOK, NEW i \in Instances, NEW e \in EventIds, NEW failed \in BOOLEAN,
         Release(i, e, failed)
  PROVE  Steps(i, e)
<1>1. Moves(i, e) /\ task'[i][e].pc = "done"
  BY TypeParts, FinishMoves DEF Release
<1>2. VoiceOK'
  BY TypeParts DEF Release, VoiceOK, voice
<1>3. Passes(i, e)
  BY <1>1 DEF Release, Passes, At, Resting, Committed, process, rows
<1> QED BY <1>1, <1>2, <1>3 DEF Release, Steps, At, guild, process, rows, mishaps

LEMMA StepSteps ==
  ASSUME TypeOK, NEW i \in Instances, NEW e \in EventIds, Step(i, e)
  PROVE  Steps(i, e)
BY RouteSteps, ScheduleLeaveSteps, WantChannelSteps, WantNothingSteps,
   CannotDecideSteps, CheckSteps, LookupSteps,
   EnterSteps, JoinSucceedsSteps, JoinFailsSteps, CleanUpSteps, ClaimSteps, RecheckSteps,
   CannotRecheckSteps,
   LeaveSteps, RemoveSteps, ReleaseSteps
   DEF Step

----
\* The events are numbered from one, within the bound.
LEMMA EventCount ==
  ASSUME EventsOK
  PROVE  /\ Cardinality(DOMAIN events) \in Nat /\ DOMAIN events \subseteq EventIds
<1>1. IsFiniteSet(1 .. MaxEvents)
  BY Bounds, FS_Interval
<1>2. DOMAIN events \subseteq EventIds
  BY DEF EventsOK
<1>3. IsFiniteSet(DOMAIN events)
  BY <1>1, <1>2, FS_Subset DEF EventIds
<1> QED BY <1>2, <1>3, FS_CardinalityType

LEMMA SameEvents == ASSUME EventsOK, UNCHANGED events PROVE EventsOK'
BY DEF EventsOK

\* A new event, which every instance that runs has a task for.
Dispatched(e) ==
  /\ Remember
  /\ e \in EventIds \ DOMAIN events
  /\ DOMAIN events' = DOMAIN events \cup {e}
  /\ \A i \in Instances, d \in EventIds : i \notin up \/ d # e => task'[i][d] = task[i][d]
  /\ \A i \in up : task'[i][e].pc = "route"
  /\ UNCHANGED <<voice, process, rows, mishaps>>

LEMMA DispatchMoves ==
  ASSUME TypeOK, NEW event \in Event, Dispatch(event)
  PROVE  EventsOK' /\ TasksOK' /\ \E e \in EventIds : Dispatched(e)
<1> DEFINE e == Cardinality(DOMAIN events) + 1
<1>1. /\ e <= MaxEvents /\ Remember
      /\ events' = [n \in 1 .. e |-> IF n = e THEN event ELSE events[n]]
      /\ task' = [i \in Instances |->
                    IF i \in up THEN [task[i] EXCEPT ![e].pc = "route"] ELSE task[i]]
      /\ UNCHANGED <<voice, process, rows, mishaps>>
  BY DEF Dispatch
<1>2. /\ DOMAIN events = 1 .. Cardinality(DOMAIN events) /\ Cardinality(DOMAIN events) \in Nat
      /\ \A d \in DOMAIN events : d \in EventIds /\ events[d] \in Event
  BY TypeParts, EventCount DEF EventsOK
<1>3. e \in Nat /\ e >= 1 /\ DOMAIN events = 1 .. (e - 1)
  BY <1>2
<1> HIDE DEF e
<1>4. e \in EventIds /\ e \notin DOMAIN events
  BY <1>1, <1>3, Bounds DEF EventIds
<1>5. DOMAIN events' = 1 .. e
  BY <1>1
<1>6. Cardinality(1 .. e) = e
  <2>1. Cardinality(1 .. e) = IF 1 > e THEN 0 ELSE e - 1 + 1
    BY <1>3, FS_Interval
  <2> QED BY <2>1, <1>4 DEF EventIds
<1>7. DOMAIN events' = DOMAIN events \cup {e}
  BY <1>3, <1>4, <1>5 DEF EventIds
<1>8. EventsOK'
  <2>1. \A d \in DOMAIN events' : d \in EventIds
    BY <1>2, <1>4, <1>7
  <2>2. \A d \in DOMAIN events' : events'[d] \in Event
    BY <1>1, <1>2, <1>5, <1>7
  <2> QED BY <1>5, <1>6, <2>1, <2>2 DEF EventsOK
<1>9. TasksOK' /\ \A i \in Instances, d \in EventIds :
        /\ i \notin up \/ d # e => task'[i][d] = task[i][d]
        /\ i \in up /\ d = e => task'[i][d].pc = "route"
  <2> SUFFICES ASSUME NEW i \in Instances
               PROVE  /\ task'[i] \in [EventIds -> Task]
                      /\ \A d \in EventIds :
                           /\ i \notin up \/ d # e => task'[i][d] = task[i][d]
                           /\ i \in up /\ d = e => task'[i][d].pc = "route"
    BY <1>1 DEF TasksOK
  <2>1. task[i] \in [EventIds -> Task] /\ task[i][e] \in Task
    BY <1>4, TypeParts, TaskOf DEF TasksOK
  <2> DEFINE t == [task[i][e] EXCEPT !.pc = "route"]
  <2>2. t \in Task /\ t.pc = "route"
    BY <2>1 DEF Task, Labels
  <2>3. task'[i] = IF i \in up THEN [task[i] EXCEPT ![e] = t] ELSE task[i]
    BY <1>1
  <2> HIDE DEF t
  <2> QED BY <1>4, <2>1, <2>2, <2>3
<1>10. up \subseteq Instances
  BY TypeParts DEF RunsOK
<1>11. Dispatched(e)
  <2>1. \A i \in up : task'[i][e].pc = "route"
    BY <1>4, <1>9, <1>10
  <2>2. e \in EventIds \ DOMAIN events
    BY <1>4
  <2> QED BY <1>1, <1>7, <1>9, <2>1, <2>2, Zenon DEF Dispatched
<1> QED BY <1>4, <1>8, <1>9, <1>11, Zenon

\* What the rest of the actions do: a process goes with its tasks, or they stay.
Lives(i) ==
  /\ Remember /\ UNCHANGED guild
  /\ \/ UNCHANGED task /\ up \subseteq up'
     \/ /\ i \in up /\ up' = up \ {i}
        /\ task' = [task EXCEPT ![i] = [e \in EventIds |-> Idle]]
  /\ LeaseOwner = NoOne \/ LeaseOwner' \in {LeaseOwner, NoOne}

Life(i) == \/ Kick(i) \/ DisconnectVoice(i) \/ StartDrain(i)
           \/ \E deleted, stopped \in BOOLEAN : Exit(i, deleted, stopped)
           \/ Crash(i) \/ GoStale(i) \/ Start(i)

LEMMA LifeLives == ASSUME TypeOK, NEW i \in Instances, Life(i) PROVE Lives(i)
<1>0. NoOne \notin fresh
  BY TypeParts, SessionAssumption DEF RowsOK
<1>1. CASE Kick(i)
  BY <1>1, Zenon DEF Kick, Lives, process, rows, LeaseOwner
<1>2. CASE DisconnectVoice(i)
  BY <1>2, Zenon DEF DisconnectVoice, Lives, process, rows, LeaseOwner
<1>3. CASE StartDrain(i)
  BY <1>3, Zenon DEF StartDrain, Lives, process, rows, LeaseOwner
<1>4. ASSUME NEW deleted \in BOOLEAN, NEW stopped \in BOOLEAN, Exit(i, deleted, stopped)
      PROVE  Lives(i)
  BY <1>0, <1>4 DEF Exit, Gone, Lives, LeaseOwner
<1>5. CASE Crash(i)
  BY <1>5 DEF Crash, Gone, Lives, rows, LeaseOwner
<1>6. CASE GoStale(i)
  BY <1>6 DEF GoStale, Lives, process, LeaseOwner
<1>7. CASE Start(i)
  BY <1>7 DEF Start, Lives, LeaseOwner
<1> QED BY <1>1, <1>2, <1>3, <1>4, <1>5, <1>6, <1>7 DEF Life

\* Every step is one of these three.
LEMMA NextMoves ==
  ASSUME TypeOK, Next
  PROVE  \/ \E e \in EventIds : Dispatched(e)
         \/ \E i \in Instances, e \in EventIds : Steps(i, e)
         \/ \E i \in Instances : Lives(i)
<1>1. CASE \E h \in Humans : \E c \in Maybe(Channels) : Move(h, c)
  <2> PICK h \in Humans, c \in Maybe(Channels) : Move(h, c)
    BY <1>1
  <2>1. where[h] \in Maybe(Channels)
    BY TypeParts
  <2> DEFINE event == [who |-> h, from |-> where[h], to |-> c, kind |-> "state"]
  <2>2. event \in Event
    BY <2>1 DEF Event
  <2>3. Dispatch(event)
    BY DEF Move
  <2> HIDE DEF event
  <2> QED BY <2>2, <2>3, DispatchMoves
<1>2. CASE \E h \in Humans : AskJoin(h)
  <2> PICK h \in Humans : AskJoin(h)
    BY <1>2
  <2> DEFINE event == [who |-> h, from |-> NoOne, to |-> NoOne, kind |-> "join"]
  <2>1. event \in Event
    BY DEF Event, Maybe
  <2>2. Dispatch(event)
    BY DEF AskJoin
  <2> HIDE DEF event
  <2> QED BY <2>1, <2>2, DispatchMoves
<1>3. CASE \E i \in Instances : \E e \in EventIds : Step(i, e)
  BY <1>3, StepSteps
<1>4. CASE \E i \in Instances : Life(i)
  BY <1>4, LifeLives
<1> QED BY <1>1, <1>2, <1>3, <1>4 DEF Next, Life

----
LEMMA InitTypes == Init => TypeOK
<1> SUFFICES ASSUME Init PROVE TypeOK
  OBVIOUS
<1>1. where \in [Humans -> Maybe(Channels)]
  BY DEF Init, Maybe
<1>2. EventsOK
  <2>1. events = <<>>
    BY DEF Init
  <2>2. DOMAIN events = {}
    BY <2>1
  <2>3. Cardinality({}) = 0
    BY FS_EmptySet
  <2> QED BY <2>2, <2>3 DEF EventsOK
<1>3. TasksOK
  BY IdleTask DEF Init, TasksOK
<1>4. VoiceOK
  BY DEF Init, VoiceOK, Maybe
<1>5. RunsOK /\ RowsOK
  BY SessionAssumption DEF Init, RunsOK, RowsOK, Maybe
<1>6. CountsOK
  BY Bounds DEF Init, CountsOK
<1>7. HistoryOK
  BY DEF Init, HistoryOK
<1> QED BY <1>1, <1>2, <1>3, <1>4, <1>5, <1>6, <1>7, TypeParts

LEMMA StepTypes ==
  ASSUME TypeOK, NEW i \in Instances, NEW e \in EventIds, Step(i, e)
  PROVE  TypeOK'
<1>1. Steps(i, e)
  BY StepSteps
<1>2. EventsOK'
  BY <1>1, TypeParts, SameEvents DEF Steps, guild
<1>3. HistoryOK'
  BY <1>1, <1>2, RememberTypes DEF Steps
<1>4. where' \in [Humans -> Maybe(Channels)] /\ RunsOK' /\ CountsOK'
  BY <1>1, TypeParts DEF Steps, guild, process, RunsOK, CountsOK
<1>5. RowsOK'
  BY <1>1, TypeParts DEF Steps, Passes, RowsOK, Maybe
<1>6. TasksOK' /\ VoiceOK'
  BY <1>1 DEF Steps, Moves, TasksOK
<1> QED BY <1>2, <1>3, <1>4, <1>5, <1>6, PartsNext

LEMMA DispatchTypes ==
  ASSUME TypeOK, NEW event \in Event, Dispatch(event),
         where' \in [Humans -> Maybe(Channels)]
  PROVE  TypeOK'
<1>1. EventsOK' /\ TasksOK'
  BY DispatchMoves
<1>2. HistoryOK'
  BY <1>1, RememberTypes DEF Dispatch
<1>3. VoiceOK' /\ RunsOK' /\ RowsOK' /\ CountsOK'
  BY TypeParts DEF Dispatch, voice, process, rows, VoiceOK, RunsOK, RowsOK, CountsOK, mishaps
<1> QED BY <1>1, <1>2, <1>3, PartsNext

LEMMA LifeTypes == ASSUME TypeOK, NEW i \in Instances, Life(i) PROVE TypeOK'
<1>1. Lives(i)
  BY LifeLives
<1>2. EventsOK' /\ where' \in [Humans -> Maybe(Channels)]
  BY <1>1, TypeParts, SameEvents DEF Lives, guild
<1>3. HistoryOK'
  BY <1>1, <1>2, RememberTypes DEF Lives
<1>4. TasksOK'
  <2>1. [e \in EventIds |-> Idle] \in [EventIds -> Task]
    BY IdleTask
  <2> QED BY <1>1, <2>1, TypeParts DEF Lives, TasksOK
<1>5. CASE Kick(i)
  <2> DEFINE c == [call[i] EXCEPT !.chan = NoOne, !.joined = FALSE]
  <2>1. c \in Maybe(Call)
    BY <1>5, TypeParts, CallOf DEF Kick, Call, Maybe
  <2>2. call' = [call EXCEPT ![i] = c] /\ count' \in [Instances -> Int]
    BY <1>5, TypeParts DEF Kick, VoiceOK
  <2> HIDE DEF c
  <2>3. VoiceOK'
    BY <2>1, <2>2, TypeParts, SetCall
  <2>4. RunsOK' /\ RowsOK' /\ CountsOK'
    BY <1>5, TypeParts, Bounds DEF Kick, process, rows, RunsOK, RowsOK, CountsOK, mishaps
  <2> QED BY <1>2, <1>3, <1>4, <2>3, <2>4, PartsNext
<1>6. CASE DisconnectVoice(i)
  <2>1. VoiceOK'
    BY <1>6, TypeParts DEF DisconnectVoice, VoiceOK, Maybe
  <2>2. RunsOK' /\ RowsOK' /\ CountsOK'
    BY <1>6, TypeParts, Bounds DEF DisconnectVoice, process, rows, RunsOK, RowsOK, CountsOK, mishaps
  <2> QED BY <1>2, <1>3, <1>4, <2>1, <2>2, PartsNext
<1>7. CASE StartDrain(i)
  <2>1. VoiceOK' /\ RunsOK' /\ RowsOK' /\ CountsOK'
    BY <1>7, TypeParts DEF StartDrain, voice, rows, VoiceOK, RunsOK, RowsOK, CountsOK, mishaps
  <2> QED BY <1>2, <1>3, <1>4, <2>1, PartsNext
<1>8. ASSUME NEW deleted \in BOOLEAN, NEW stopped \in BOOLEAN, Exit(i, deleted, stopped)
      PROVE  TypeOK'
  <2>1. VoiceOK' /\ RunsOK' /\ CountsOK'
    BY <1>8, TypeParts DEF Exit, Gone, VoiceOK, RunsOK, CountsOK, mishaps, Maybe
  <2>2. RowsOK'
    BY <1>8, TypeParts DEF Exit, RowsOK, Maybe
  <2> QED BY <1>2, <1>3, <1>4, <2>1, <2>2, PartsNext
<1>9. CASE Crash(i)
  <2>1. VoiceOK' /\ RunsOK' /\ RowsOK'
    BY <1>9, TypeParts DEF Crash, Gone, rows, VoiceOK, RunsOK, RowsOK, Maybe
  <2>2. CountsOK'
    BY <1>9, TypeParts, Bounds DEF Crash, CountsOK, mishaps
  <2> QED BY <1>2, <1>3, <1>4, <2>1, <2>2, PartsNext
<1>10. CASE GoStale(i)
  <2>1. VoiceOK' /\ RunsOK' /\ RowsOK' /\ CountsOK'
    BY <1>10, TypeParts DEF GoStale, voice, process, VoiceOK, RunsOK, RowsOK, CountsOK, mishaps
  <2> QED BY <1>2, <1>3, <1>4, <2>1, PartsNext
<1>11. CASE Start(i)
  <2>1. VoiceOK' /\ RunsOK' /\ RowsOK'
    BY <1>11, TypeParts DEF Start, voice, VoiceOK, RunsOK, RowsOK
  <2>2. CountsOK'
    BY <1>11, TypeParts, Bounds DEF Start, CountsOK, mishaps
  <2> QED BY <1>2, <1>3, <1>4, <2>1, <2>2, PartsNext
<1> QED BY <1>5, <1>6, <1>7, <1>8, <1>9, <1>10, <1>11 DEF Life

LEMMA NextTypes == TypeOK /\ [Next]_vars => TypeOK'
<1> SUFFICES ASSUME TypeOK, [Next]_vars PROVE TypeOK'
  OBVIOUS
<1>1. ASSUME NEW h \in Humans, NEW c \in Maybe(Channels), Move(h, c) PROVE TypeOK'
  <2>1. where \in [Humans -> Maybe(Channels)] /\ where[h] \in Maybe(Channels)
    BY TypeParts
  <2> DEFINE event == [who |-> h, from |-> where[h], to |-> c, kind |-> "state"]
  <2>2. event \in Event
    BY <2>1 DEF Event
  <2>3. Dispatch(event) /\ where' \in [Humans -> Maybe(Channels)]
    BY <1>1, <2>1 DEF Move
  <2> HIDE DEF event
  <2> QED BY <2>2, <2>3, DispatchTypes
<1>2. ASSUME NEW h \in Humans, AskJoin(h) PROVE TypeOK'
  <2> DEFINE event == [who |-> h, from |-> NoOne, to |-> NoOne, kind |-> "join"]
  <2>1. event \in Event
    BY DEF Event, Maybe
  <2>2. Dispatch(event) /\ where' \in [Humans -> Maybe(Channels)]
    BY <1>2, TypeParts DEF AskJoin
  <2> HIDE DEF event
  <2> QED BY <2>1, <2>2, DispatchTypes
<1>3. ASSUME NEW i \in Instances, Life(i) PROVE TypeOK'
  BY <1>3, LifeTypes
<1>4. CASE UNCHANGED vars
  <2>1. EventsOK'
    BY <1>4, TypeParts, SameEvents DEF vars, guild
  <2>2. UNCHANGED <<where, task, call, count, up, draining, starts, crashes, lease, fresh, kicks,
                  blind>>
    BY <1>4 DEF vars, guild, voice, process, rows, mishaps
  <2>3. UNCHANGED <<raced, settled, kicked, overlap>>
    BY <1>4 DEF vars, history
  <2>4. where' \in [Humans -> Maybe(Channels)] /\ TasksOK' /\ VoiceOK' /\ RunsOK'
    BY <2>2, TypeParts DEF TasksOK, VoiceOK, RunsOK
  <2>5. RowsOK' /\ CountsOK'
    BY <2>2, TypeParts DEF RowsOK, CountsOK
  <2>6. HistoryOK'
    BY <2>3, TypeParts DEF HistoryOK
  <2> QED BY <2>1, <2>4, <2>5, <2>6, PartsNext
<1> QED BY <1>1, <1>2, <1>3, <1>4, StepTypes DEF Next, Life

\* Every variable of the sessions keeps its type (events/voice.rs, deployment.rs,
\* grpc/dashboard.rs): the events of a guild are numbered in order, an instance
\* drains only while it runs, a Call and a lease name who there is.
THEOREM SessionTypeCorrect == Spec => []TypeOK
BY InitTypes, NextTypes, PTL DEF Spec

----
LEMMA NextOff == ASSUME TypeOK, OffInv, [Next]_vars PROVE OffInv'
<1>0. TasksOK /\ RunsOK
  BY TypeParts
<1>1. CASE UNCHANGED vars
  BY <1>1 DEF vars, guild, process, OffInv
<1>2. ASSUME NEW e \in EventIds, Dispatched(e) PROVE OffInv'
  BY <1>2, Zenon DEF Dispatched, process, OffInv
<1>3. ASSUME NEW i \in Instances, NEW e \in EventIds, Steps(i, e) PROVE OffInv'
  BY <1>3 DEF Steps, Moves, process, guild, OffInv
<1>4. ASSUME NEW i \in Instances, Lives(i) PROVE OffInv'
  <2>1. UNCHANGED events
    BY <1>4 DEF Lives, guild
  <2>2. CASE UNCHANGED task /\ up \subseteq up'
    BY <2>1, <2>2 DEF OffInv
  <2>3. CASE up' = up \ {i} /\ task' = [task EXCEPT ![i] = [e \in EventIds |-> Idle]]
    BY <1>0, <2>1, <2>3 DEF OffInv, TasksOK
  <2> QED BY <1>4, <2>2, <2>3 DEF Lives
<1> QED BY <1>1, <1>2, <1>3, <1>4, NextMoves

\* A connect that is past the lease either was before or has just looked at it.
LEMMA NewlyCommitted ==
  ASSUME TypeOK, Next, ~QueryErrors, NEW i \in Instances, NEW e \in EventIds,
         task'[i][e].pc \in Committed, task[i][e].pc \notin Committed
  PROVE  LeaseOwner \in {NoOne, i}
<1>1. ASSUME NEW d \in EventIds, Dispatched(d) PROVE FALSE
  BY <1>1 DEF Dispatched, Committed
<1>2. ASSUME NEW j \in Instances, NEW d \in EventIds, Steps(j, d) PROVE LeaseOwner \in {NoOne, i}
  <2>1. j = i /\ d = e
    BY <1>2 DEF Steps, Moves
  <2>2. MayConnect(i, FALSE)
    BY <1>2, <2>1 DEF Steps, Passes
  <2> QED BY <2>2 DEF MayConnect
<1>3. ASSUME NEW j \in Instances, Lives(j) PROVE FALSE
  <2>1. TasksOK
    BY TypeParts
  <2> QED BY <1>3, <2>1 DEF Lives, TasksOK, Committed, Idle
<1> QED BY <1>1, <1>2, <1>3, NextMoves

LEMMA NextRaced ==
  ASSUME TypeOK, RacedInv, [Next]_vars, ~QueryErrors
  PROVE  RacedInv'
<1>1. CASE UNCHANGED vars
  BY <1>1 DEF vars, guild, rows, history, RacedInv, LeaseOwner
<1>2. CASE Next
  <2> SUFFICES ASSUME NEW i \in Instances, NEW e \in EventIds,
                      task'[i][e].pc \in Committed, LeaseOwner' \notin {NoOne, i}
               PROVE  <<i, e>> \in raced'
    BY DEF RacedInv
  <2>1. Remember
    BY <1>2, NextMoves DEF Dispatched, Steps, Lives
  <2>2. <<i, e>> \in raced \/ LeaseOwner' # LeaseOwner
    BY <1>2, NewlyCommitted DEF RacedInv
  <2> QED BY <2>1, <2>2 DEF Remember
<1> QED BY <1>1, <1>2

\* While a claim is the only way from one owner that lives to another.
LEMMA TakenInRace ==
  ASSUME TypeOK, RacedInv, Next, LeaseOwner # NoOne, LeaseOwner' \notin {NoOne, LeaseOwner}
  PROVE  \E e \in EventIds : <<LeaseOwner', e>> \in raced
<1>1. ASSUME NEW e \in EventIds, Dispatched(e) PROVE FALSE
  BY <1>1 DEF Dispatched, rows, LeaseOwner
<1>2. ASSUME NEW i \in Instances, NEW e \in EventIds, Steps(i, e)
      PROVE  <<LeaseOwner', e>> \in raced
  <2>0. NoOne \notin fresh
    BY TypeParts, SessionAssumption DEF RowsOK
  <2>1. lease' = i /\ LeaseOwner' = i /\ task[i][e].pc = "claim"
    BY <1>2, <2>0 DEF Steps, Passes, LeaseOwner
  <2> QED BY <2>1 DEF RacedInv, Committed
<1>3. ASSUME NEW i \in Instances, Lives(i) PROVE FALSE
  BY <1>3 DEF Lives
<1> QED BY <1>1, <1>2, <1>3, NextMoves

\* If no lease query fails, the lease of an instance that lives passes to another
\* only by a connect that was past its look at the lease when the live one came to
\* own it (connect_to_voice_channel, claim_voice_session).
THEOREM TakeoverOnlyByRaceHolds == ASSUME ~QueryErrors PROVE Spec => TakeoverOnlyByRace
<1>1. Init => RacedInv
  BY DEF Init, RacedInv, Committed, Idle
<1>2. TypeOK /\ RacedInv /\ [Next]_vars => RacedInv'
  BY NextRaced
<1>3. TypeOK /\ RacedInv /\ [Next]_vars =>
        [LeaseOwner # NoOne /\ LeaseOwner' \notin {NoOne, LeaseOwner}
           => \E e \in EventIds : <<LeaseOwner', e>> \in raced]_vars
  BY TakenInRace
<1> QED BY <1>1, <1>2, <1>3, InitTypes, NextTypes, PTL DEF Spec, TakeoverOnlyByRace

----
\* While the same instances run, a step leaves an event where it has been routed
\* right, or routes it right for one.
RightAt(e) == \A i \in Instances : Routed(i, task[i][e].pc)

LEMMA StepRight ==
  ASSUME TypeOK, Next, ~QueryErrors, UNCHANGED up, NEW e \in DOMAIN events, RightAt(e)
  PROVE  \A i \in Instances : Routed(i, task'[i][e].pc)
<1>0. e \in EventIds /\ TasksOK
  BY TypeParts DEF EventsOK
<1>1. ASSUME NEW d \in EventIds, Dispatched(d)
      PROVE  \A i \in Instances : Routed(i, task'[i][e].pc)
  <2>1. d # e
    BY <1>1 DEF Dispatched
  <2>2. \A i \in Instances : task'[i][e] = task[i][e]
    BY <1>0, <1>1, <2>1 DEF Dispatched
  <2> QED BY <2>2 DEF RightAt
<1>2. ASSUME NEW j \in Instances, NEW d \in EventIds, Steps(j, d), NEW i \in Instances
      PROVE  Routed(i, task'[i][e].pc)
  <2>1. CASE i # j \/ d # e
    <3>1. task'[i][e] = task[i][e]
      BY <1>0, <1>2, <2>1 DEF Steps, Moves
    <3> QED BY <3>1 DEF RightAt
  <2>2. CASE i = j /\ d = e
    <3>1. i \in up /\ Passes(i, e)
      BY <1>2, <2>2 DEF Steps
    <3>2. CASE task[i][e].pc = "route"
      <4>1. task'[i][e].pc = IF Handles(i, FALSE) THEN "decide" ELSE "skipped"
        BY <3>1, <3>2 DEF Passes
      <4> QED BY <3>1, <4>1 DEF Routed
    <3>3. CASE task[i][e].pc # "route"
      <4>1. task[i][e].pc \notin {"off", "route", "skipped"}
        BY <3>1, <3>3 DEF Passes, Resting
      <4>2. Handles(i, FALSE)
        BY <3>1, <4>1 DEF RightAt, Routed
      <4>3. task'[i][e].pc \notin {"off", "route", "skipped"}
        BY <3>1, <3>3 DEF Passes
      <4> QED BY <3>1, <4>2, <4>3 DEF Routed
    <3> QED BY <3>2, <3>3
  <2> QED BY <2>1, <2>2
<1>3. ASSUME NEW j \in Instances, Lives(j)
      PROVE  \A i \in Instances : Routed(i, task'[i][e].pc)
  <2>1. UNCHANGED task
    BY <1>3 DEF Lives
  <2> QED BY <2>1 DEF RightAt
<1> QED BY <1>1, <1>2, <1>3, NextMoves

LEMMA NextSettled ==
  ASSUME TypeOK, OffInv, SettledInv, [Next]_vars, ~QueryErrors
  PROVE  SettledInv'
<1>1. CASE UNCHANGED vars
  <2>1. UNCHANGED <<events, task, up, draining, lease, fresh, settled>>
    BY <1>1 DEF vars, guild, process, rows, history
  <2> QED BY <2>1 DEF SettledInv, Routed, Handles, LeaseOwner
<1>2. CASE Next
  <2>1. Remember
    BY <1>2, NextMoves DEF Dispatched, Steps, Lives
  <2> SUFFICES ASSUME NEW e \in settled'
               PROVE  e \in DOMAIN events' /\ \A i \in Instances : Routed(i, task[i][e].pc)'
    BY DEF SettledInv
  <2>2. /\ LeaseOwner' = LeaseOwner /\ UNCHANGED <<up, draining>>
        /\ e \in DOMAIN events' /\ (e \in settled \/ e \notin DOMAIN events)
    BY <2>1 DEF Remember
  <2>3. \A i \in Instances : Routed(i, task'[i][e].pc)
    <3>1. CASE e \in settled
      BY <1>2, <2>2, <3>1, StepRight DEF SettledInv, RightAt
    <3>2. CASE e \notin DOMAIN events
      <4>1. PICK d \in EventIds : Dispatched(d)
        BY <1>2, <2>2, <3>2, NextMoves DEF Steps, Lives, guild
      <4>2. e = d
        BY <2>2, <3>2, <4>1 DEF Dispatched
      <4>3. ASSUME NEW i \in Instances, i \notin up PROVE task'[i][e].pc = "off"
        <5>1. task'[i][e] = Idle
          BY <4>1, <4>2, <4>3 DEF Dispatched, OffInv
        <5> QED BY <5>1 DEF Idle
      <4>4. ASSUME NEW i \in up PROVE task'[i][e].pc = "route"
        BY <4>1, <4>2 DEF Dispatched
      <4> QED BY <4>3, <4>4 DEF Routed
    <3> QED BY <2>2, <3>1, <3>2
  <2> QED BY <2>2, <2>3 DEF Routed, Handles
<1> QED BY <1>1, <1>2

\* Who handles an event that is routed everywhere.
LEMMA OneHandles ==
  ASSUME TypeOK, SettledInv, Next, ~QueryErrors, NEW e \in settled,
         ~Unrouted(e)', UNCHANGED up, Decidable
  PROVE  Cardinality(Handling(e)') = 1
<1>1. \A i \in Instances : Routed(i, task'[i][e].pc) /\ task'[i][e].pc # "route"
  BY StepRight DEF SettledInv, RightAt, Unrouted
<1>2. up \subseteq Instances
  BY TypeParts DEF RunsOK
<1>3. Handling(e)' = {i \in up : Handles(i, FALSE)}
  BY <1>1, <1>2 DEF Handling, Routed
<1>4. CASE LeaseOwner = NoOne
  <2>1. {i \in up : Handles(i, FALSE)} = up \ draining
    BY <1>4 DEF Handles
  <2> QED BY <1>3, <1>4, <2>1 DEF Decidable
<1>5. CASE LeaseOwner # NoOne
  <2>1. LeaseOwner \in up
    BY <1>5 DEF Decidable
  <2>2. {i \in up : Handles(i, FALSE)} = {LeaseOwner}
    BY <1>5, <2>1 DEF Handles
  <2> QED BY <1>3, <2>2, FS_Singleton
<1> QED BY <1>4, <1>5

\* If no lease query fails, an event that every instance was sent is handled by
\* exactly one of them, if the guild has an owner that runs, or has none while one
\* instance does not drain, and nothing of this changed until all had routed it
\* (should_skip_voice_state_for_lease, should_skip_interaction).
THEOREM HandledByOneHolds == ASSUME ~QueryErrors PROVE Spec => HandledByOne
<1>1. Init => OffInv /\ SettledInv
  BY DEF Init, OffInv, SettledInv
<1>2. TypeOK /\ OffInv /\ [Next]_vars => OffInv'
  BY NextOff
<1>3. TypeOK /\ OffInv /\ SettledInv /\ [Next]_vars => SettledInv'
  BY NextSettled
<1>4. TypeOK /\ SettledInv /\ [Next]_vars =>
        [\A e \in settled : ~Unrouted(e)' /\ up' = up /\ Decidable
           => Cardinality(Handling(e)') = 1]_vars
  BY OneHandles
<1> QED BY <1>1, <1>2, <1>3, <1>4, InitTypes, NextTypes, PTL DEF Spec, HandledByOne

====
