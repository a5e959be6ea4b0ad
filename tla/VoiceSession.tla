---- MODULE VoiceSession ----
(***************************************************************************)
(* Who is in voice for one guild: the voice-state handler, the debounced   *)
(* leave and connect_to_voice_channel (events/voice.rs), /join             *)
(* (events/interactions.rs, commands/voice_controls.rs), disconnect_voice  *)
(* (grpc/dashboard.rs) and the lease row that tells several instances of   *)
(* the bot apart (deployment.rs).                                          *)
(*                                                                         *)
(* Every instance is sent every gateway event, and runs a task of its own  *)
(* for each; a task yields at each query and at each await of songbird.    *)
(* The cache of members is up to date before an event is dispatched.       *)
(***************************************************************************)
EXTENDS Naturals, Integers, FiniteSets

CONSTANTS
  Instances,     \* processes of the bot, told apart by BOT_INSTANCE_ID
  First,         \* the one that runs from the start
  Humans,        \* members of the guild; other bots are ignored throughout
  Channels,      \* its voice channels
  AfkChannels,   \* those among them that cache_ready has found to be for AFK
  MaxEvents,     \* bound: gateway events of the guild
  MaxKicks,      \* bound: disconnects of the bot by Discord, or by dashboard
  MaxStarts,     \* bound: starts of a process after the first
  MaxCrashes,    \* bound: crashes
  Dashboard,     \* is disconnect_voice called?
  JoinErrors,    \* may joining fail although nothing stands in its way?
  QueryErrors,   \* may a query of the lease fail?
  WriteErrors,   \* may a statement that changes it fail?
  InspectErrors, \* may reading the members of a channel fail?
  Crowded,       \* may an event be dispatched while another is handled?
  NoOne          \* no instance, no channel, no call

ASSUME SessionAssumption ==
  /\ AfkChannels \subseteq Channels
  /\ First \in Instances
  /\ NoOne \notin Instances \cup Channels
  /\ {MaxEvents, MaxKicks, MaxStarts, MaxCrashes} \subseteq Nat
  /\ {Dashboard, JoinErrors, QueryErrors, WriteErrors, InspectErrors, Crowded} \subseteq BOOLEAN

VARIABLES
  where,     \* the voice channel of each human
  events,    \* the events dispatched, a function from their numbers
  task,      \* what the task of each instance for each event does next
  call,      \* the Call songbird's manager has for the guild, per instance
  count,     \* active_voice_connections, as an integer
  up,        \* which processes run
  draining,  \* and which of them drain
  lease,     \* owner_instance_id of the lease row, NoOne without a row
  fresh,     \* instances whose heartbeats are recent and that are not stopped
  kicks, starts, crashes,
  blind,     \* history: events for which the members could not be read
  raced,     \* history: tasks past the lease check when another came to own it
  settled,   \* history: events whose routing nothing has changed since
  kicked,    \* history: was the bot disconnected after the last event?
  overlap    \* history: did a task begin or step while another was at work?

guild    == <<where, events>>
voice    == <<call, count>>
process  == <<up, draining, starts, crashes>>
rows     == <<lease, fresh>>
mishaps  == <<kicks, blind>>
history  == <<raced, settled, kicked, overlap>>
vars     == <<guild, task, voice, process, rows, mishaps, history>>

----
EventIds == 1 .. MaxEvents
Maybe(S) == S \cup {NoOne}
Modes    == {"fresh", "rejoin", "switch", "none"}

\* A handler is routed, decides, connects or waits to leave.
Labels == {"off", "route", "skipped", "decide", "check", "lookup", "enter", "joining",
           "claim", "recheck", "leave", "remove", "clean", "release", "done"}

\* Of a connect that will join whatever becomes of the lease; of a task that
\* sleeps out the debounce or has ended.
Committed == {"lookup", "enter", "joining", "claim"}
Resting   == {"off", "skipped", "recheck", "done"}

Event == [who : Humans, from : Maybe(Channels), to : Maybe(Channels), kind : {"state", "join"}]
Task  == [pc : Labels, chan : Maybe(Channels), mode : Modes]

\* by registered the receiver, none if nobody did; joiner joined last.
Call  == [by : Maybe(EventIds), joiner : EventIds, chan : Maybe(Channels), joined : BOOLEAN]

Idle   == [pc |-> "off", chan |-> NoOne, mode |-> "none"]
HasCall(i) == call[i] # NoOne

InVoice(c)     == {h \in Humans : where[h] = c}     \* human_member_count
MostMembers    ==
  LET eligible == {c \in Channels \ AfkChannels : InVoice(c) # {}}
  IN  {c \in eligible : \A d \in eligible : Cardinality(InVoice(d)) <= Cardinality(InVoice(c))}

LeaseOwner == IF lease \in fresh THEN lease ELSE NoOne

Goto(i, e, label) == task' = [task EXCEPT ![i][e].pc = label]
Finish(i, e)      == task' = [task EXCEPT ![i][e] = [Idle EXCEPT !.pc = "done"]]
At(i, e, label)   == /\ i \in up
                     /\ e \in DOMAIN events
                     /\ task[i][e].pc = label

\* One instance runs, the others are started later by a deployment.
Init ==
  /\ where = [h \in Humans |-> NoOne]
  /\ events = <<>>
  /\ task = [i \in Instances |-> [e \in EventIds |-> Idle]]
  /\ call = [i \in Instances |-> NoOne]
  /\ count = [i \in Instances |-> 0]
  /\ up = {First}
  /\ draining = {}
  /\ lease = NoOne
  /\ fresh = up
  /\ kicks = 0
  /\ blind = {}
  /\ starts = 0
  /\ crashes = 0
  /\ raced = {}
  /\ settled = {}
  /\ kicked = FALSE
  /\ overlap = FALSE

AtWork(i)   == {e \in EventIds : task[i][e].pc \notin Resting}
Unrouted(e) == \E i \in Instances : task[i][e].pc = "route"

\* What the properties remember of a step.
Remember ==
  /\ raced' = {t \in Instances \X EventIds :
                 /\ task'[t[1]][t[2]].pc \in Committed
                 /\ t \in raced \/ LeaseOwner' \notin {LeaseOwner, NoOne, t[1]}}
  /\ settled' = IF LeaseOwner' = LeaseOwner /\ UNCHANGED <<up, draining>>
                THEN {e \in DOMAIN events' : (e \in settled \/ e \notin DOMAIN events) /\ Unrouted(e)'}
                ELSE {}
  /\ kicked' = (kicks' # kicks \/ (kicked /\ UNCHANGED events))
  /\ overlap' = (overlap \/ \E i \in Instances : \E e \in EventIds :
                    /\ task'[i][e] # task[i][e]
                    /\ AtWork(i) \ {e} # {})

----
(***************************************************************************)
(* The guild.                                                              *)
(***************************************************************************)

Dispatch(event) ==
  LET e == Cardinality(DOMAIN events) + 1
  IN  /\ e <= MaxEvents
      /\ Crowded \/ \A i \in up : AtWork(i) = {}
      /\ events' = [n \in 1 .. e |-> IF n = e THEN event ELSE events[n]]
      /\ task' = [i \in Instances |->
                    IF i \in up THEN [task[i] EXCEPT ![e].pc = "route"] ELSE task[i]]
      /\ UNCHANGED <<voice, process, rows, mishaps>>
      /\ Remember

\* A human joins, leaves, changes channel or mutes himself.
Move(h, c) ==
  /\ where[h] # NoOne \/ c # NoOne
  /\ where' = [where EXCEPT ![h] = c]
  /\ Dispatch([who |-> h, from |-> where[h], to |-> c, kind |-> "state"])

AskJoin(h) ==
  /\ Dispatch([who |-> h, from |-> NoOne, to |-> NoOne, kind |-> "join"])
  /\ UNCHANGED where

----
(***************************************************************************)
(* A task: routing, and what the event asks for.                           *)
(***************************************************************************)

\* Mutant of Handles: one that drains still answers for guilds without owner.
HandlesUnowned(i, failed) == failed \/ LeaseOwner \in {NoOne, i}

\* should_skip_voice_state_for_lease, and should_skip_interaction: the owner
\* handles the guild; without one, or when the query fails, all that do not
\* drain do.
Handles(i, failed) ==
  IF failed \/ LeaseOwner = NoOne THEN i \notin draining ELSE LeaseOwner = i

Route(i, e, failed) ==
  /\ At(i, e, "route")
  /\ failed => QueryErrors
  /\ Goto(i, e, IF Handles(i, failed) THEN "decide" ELSE "skipped")
  /\ UNCHANGED <<guild, voice, process, rows, mishaps>>
  /\ Remember

\* Mutant of Emptied: the member who left is still counted.
EmptiedBefore(e) == /\ events[e].kind = "state"
                    /\ events[e].to = NoOne
                    /\ events[e].from # NoOne
                    /\ InVoice(events[e].from) \cup {events[e].who} = {}

\* empty_channel_candidate
Emptied(e) == /\ events[e].kind = "state"
              /\ events[e].to = NoOne
              /\ events[e].from # NoOne
              /\ InVoice(events[e].from) = {}

\* Neither leaves nor changes the channel he was in.
SameChannel(e) == /\ events[e].kind = "state"
                  /\ events[e].to # NoOne
                  /\ events[e].to = events[e].from

\* The channel to connect to, if there is one.
Wanted(e) == IF events[e].kind = "join"
             THEN {where[events[e].who]} \ {NoOne}
             ELSE IF SameChannel(e) THEN {} ELSE MostMembers

ScheduleLeave(i, e) ==
  /\ At(i, e, "decide")
  /\ Emptied(e)
  /\ task' = [task EXCEPT ![i][e].pc = "recheck", ![i][e].chan = events[e].from]
  /\ UNCHANGED <<guild, voice, process, rows, mishaps>>
  /\ Remember

\* Also if the inspection of the channel that was left has failed.
WantChannel(i, e, c) ==
  /\ At(i, e, "decide")
  /\ Emptied(e) => InspectErrors
  /\ c \in Wanted(e)
  /\ task' = [task EXCEPT ![i][e].pc = "check", ![i][e].chan = c]
  /\ UNCHANGED <<guild, voice, process, rows, mishaps>>
  /\ Remember

WantNothing(i, e) ==
  /\ At(i, e, "decide")
  /\ ~Emptied(e)
  /\ Wanted(e) = {}
  /\ Finish(i, e)
  /\ UNCHANGED <<guild, voice, process, rows, mishaps>>
  /\ Remember

\* human_member_count fails: for the channel that was left, when no other has
\* humans, or in get_channel_with_most_members.  Nothing comes of the event.
CannotDecide(i, e) ==
  /\ At(i, e, "decide")
  /\ InspectErrors
  /\ events[e].kind = "state" /\ ~SameChannel(e)
  /\ blind' = blind \cup {e}
  /\ Finish(i, e)
  /\ UNCHANGED <<guild, voice, process, rows, kicks>>
  /\ Remember

----
(***************************************************************************)
(* connect_to_voice_channel and join_ch.                                   *)
(***************************************************************************)

\* Mutant of MayConnect: the lease is not looked at.
MayConnectAnyway(i, failed) == i \notin draining

\* Neither drains nor finds another owner.
MayConnect(i, failed) == /\ i \notin draining
                         /\ failed \/ LeaseOwner \in {NoOne, i}

Check(i, e, failed) ==
  /\ At(i, e, "check")
  /\ failed => QueryErrors
  /\ IF MayConnect(i, failed) THEN Goto(i, e, "lookup") ELSE Finish(i, e)
  /\ UNCHANGED <<guild, voice, process, rows, mishaps>>
  /\ Remember

ModeOf(i) == IF ~HasCall(i) THEN "fresh"
             ELSE IF call[i].chan = NoOne THEN "rejoin" ELSE "switch"

\* Mutant of Lookup: a Call that was disconnected counts as connected.
LookupAnyCall(i, e) ==
  /\ At(i, e, "lookup")
  /\ IF HasCall(i) THEN Finish(i, e)
     ELSE task' = [task EXCEPT ![i][e].pc = "enter", ![i][e].mode = ModeOf(i)]
  /\ UNCHANGED <<guild, voice, process, rows, mishaps>>
  /\ Remember

Lookup(i, e) ==
  /\ At(i, e, "lookup")
  /\ IF HasCall(i) /\ call[i].chan = task[i][e].chan
     THEN Finish(i, e)
     ELSE task' = [task EXCEPT ![i][e].pc = "enter", ![i][e].mode = ModeOf(i)]
  /\ UNCHANGED <<guild, voice, process, rows, mishaps>>
  /\ Remember

\* Only a fresh join registers a receiver, after it has removed another's.
Receiver(i, e) == IF task[i][e].mode = "fresh" THEN e
                  ELSE IF HasCall(i) THEN call[i].by ELSE NoOne

\* get_or_insert, register_voice_receiver and the start of Call::join, which
\* leaves a channel it has joined alone and ends another join under way.
Enter(i, e) ==
  LET c == task[i][e].chan
  IN  /\ At(i, e, "enter")
      /\ call' = [call EXCEPT ![i] =
                    [by     |-> Receiver(i, e),
                     joiner |-> e,
                     chan   |-> c,
                     joined |-> HasCall(i) /\ call[i].joined /\ call[i].chan = c]]
      /\ Goto(i, e, "joining")
      /\ UNCHANGED <<guild, count, process, rows, mishaps>>
      /\ Remember

\* Its own join is the one the Call carries out.
Joins(i, e) == HasCall(i) /\ call[i].joiner = e /\ call[i].chan = task[i][e].chan

\* record_active_voice_connection is for a fresh join and for a rejoin.
JoinSucceeds(i, e) ==
  /\ At(i, e, "joining")
  /\ Joins(i, e)
  /\ call' = [call EXCEPT ![i].joined = TRUE]
  /\ count' = IF task[i][e].mode = "switch" THEN count ELSE [count EXCEPT ![i] = @ + 1]
  /\ Goto(i, e, "claim")
  /\ UNCHANGED <<guild, process, rows, mishaps>>
  /\ Remember

JoinFails(i, e) ==
  /\ At(i, e, "joining")
  /\ Joins(i, e) => JoinErrors
  /\ Goto(i, e, "clean")
  /\ UNCHANGED <<guild, voice, process, rows, mishaps>>
  /\ Remember

\* manager.remove takes whatever Call the guild has by now.
CleanUp(i, e) ==
  /\ At(i, e, "clean")
  /\ call' = [call EXCEPT ![i] = NoOne]
  /\ Finish(i, e)
  /\ UNCHANGED <<guild, count, process, rows, mishaps>>
  /\ Remember

\* claim_voice_session: the upsert takes the row from any owner, or fails, and
\* the bot stays in the channel without a lease.
Claim(i, e, failed) ==
  /\ At(i, e, "claim")
  /\ failed => WriteErrors
  /\ lease' = IF failed THEN lease ELSE i
  /\ Finish(i, e)
  /\ UNCHANGED <<guild, voice, process, fresh, mishaps>>
  /\ Remember

----
(***************************************************************************)
(* schedule_leave_if_still_empty and leave_voice_channel.                  *)
(***************************************************************************)

StillThere(i, e) == HasCall(i) /\ call[i].chan = task[i][e].chan

Recheck(i, e) ==
  /\ At(i, e, "recheck")
  /\ IF StillThere(i, e) /\ InVoice(task[i][e].chan) = {}
     THEN Goto(i, e, "leave") ELSE Finish(i, e)
  /\ UNCHANGED <<guild, voice, process, rows, mishaps>>
  /\ Remember

\* The members cannot be read: the leave is cancelled, and not tried again.
CannotRecheck(i, e) ==
  /\ At(i, e, "recheck")
  /\ InspectErrors
  /\ StillThere(i, e)
  /\ blind' = blind \cup {e}
  /\ Finish(i, e)
  /\ UNCHANGED <<guild, voice, process, rows, kicks>>
  /\ Remember

\* existed, and manager.remove: the Call leaves, then it is taken out.
Leave(i, e) ==
  /\ At(i, e, "leave")
  /\ IF HasCall(i)
     THEN /\ call' = [call EXCEPT ![i].chan = NoOne, ![i].joined = FALSE]
          /\ Goto(i, e, "remove")
     ELSE /\ Finish(i, e)
          /\ UNCHANGED call
  /\ UNCHANGED <<guild, count, process, rows, mishaps>>
  /\ Remember

\* The counter is unsigned and wraps below zero.
Remove(i, e) ==
  /\ At(i, e, "remove")
  /\ call' = [call EXCEPT ![i] = NoOne]
  /\ count' = [count EXCEPT ![i] = @ - 1]
  /\ Goto(i, e, "release")
  /\ UNCHANGED <<guild, process, rows, mishaps>>
  /\ Remember

\* release_voice_session: a DELETE that fails leaves the row to the heartbeats.
Release(i, e, failed) ==
  /\ At(i, e, "release")
  /\ failed => WriteErrors
  /\ lease' = IF lease = i /\ ~failed THEN NoOne ELSE lease
  /\ Finish(i, e)
  /\ UNCHANGED <<guild, voice, process, fresh, mishaps>>
  /\ Remember

----
(***************************************************************************)
(* What else ends a Call, and the lives of a process.                      *)
(***************************************************************************)

\* Discord disconnects the bot; the driver is told and the Call remains.
Kick(i) ==
  /\ HasCall(i) /\ call[i].chan # NoOne
  /\ kicks < MaxKicks
  /\ kicks' = kicks + 1
  /\ call' = [call EXCEPT ![i].chan = NoOne, ![i].joined = FALSE]
  /\ UNCHANGED <<guild, task, count, process, rows, blind>>
  /\ Remember

DisconnectVoice(i) ==
  /\ Dashboard
  /\ HasCall(i)
  /\ kicks < MaxKicks
  /\ kicks' = kicks + 1
  /\ call' = [call EXCEPT ![i] = NoOne]
  /\ UNCHANGED <<guild, task, count, process, rows, blind>>
  /\ Remember

StartDrain(i) ==
  /\ i \in up \ draining
  /\ draining' = draining \cup {i}
  /\ UNCHANGED <<guild, task, voice, up, starts, crashes, rows, mishaps>>
  /\ Remember

\* Mutant of Gone: the process starts again as one that drains.
GoneDraining(i) ==
  /\ up' = up \ {i}
  /\ UNCHANGED draining
  /\ call' = [call EXCEPT ![i] = NoOne]
  /\ count' = [count EXCEPT ![i] = 0]
  /\ task' = [task EXCEPT ![i] = [e \in EventIds |-> Idle]]

\* What a process that ends takes with it.
Gone(i) ==
  /\ up' = up \ {i}
  /\ draining' = draining \ {i}
  /\ call' = [call EXCEPT ![i] = NoOne]
  /\ count' = [count EXCEPT ![i] = 0]
  /\ task' = [task EXCEPT ![i] = [e \in EventIds |-> Idle]]

\* The end of the drain, which the deadline and force reach with a Call and
\* tasks under way, and mark_instance_stopped, of which any statement may fail.
Exit(i, deleted, stopped) ==
  /\ i \in up \cap draining
  /\ WriteErrors \/ (deleted /\ stopped)
  /\ Gone(i)
  /\ lease' = IF lease = i /\ deleted THEN NoOne ELSE lease
  /\ fresh' = IF stopped THEN fresh \ {i} ELSE fresh
  /\ UNCHANGED <<guild, starts, crashes, mishaps>>
  /\ Remember

Crash(i) ==
  /\ i \in up
  /\ crashes < MaxCrashes
  /\ crashes' = crashes + 1
  /\ Gone(i)
  /\ UNCHANGED <<guild, starts, rows, mishaps>>
  /\ Remember

\* LEASE_STALE_AFTER_SECONDS without a heartbeat.
GoStale(i) ==
  /\ i \in fresh \ up
  /\ fresh' = fresh \ {i}
  /\ UNCHANGED <<guild, task, voice, process, lease, mishaps>>
  /\ Remember

\* upsert_instance and the first heartbeat, which refreshes a lease left over.
Start(i) ==
  /\ i \notin up
  /\ starts < MaxStarts
  /\ starts' = starts + 1
  /\ up' = up \cup {i}
  /\ fresh' = fresh \cup {i}
  /\ UNCHANGED <<guild, task, voice, draining, crashes, lease, mishaps>>
  /\ Remember

----
Step(i, e) ==
  \/ \E failed \in BOOLEAN : Route(i, e, failed)
  \/ ScheduleLeave(i, e)
  \/ \E c \in Channels : WantChannel(i, e, c)
  \/ WantNothing(i, e)
  \/ CannotDecide(i, e)
  \/ \E failed \in BOOLEAN : Check(i, e, failed)
  \/ Lookup(i, e)
  \/ Enter(i, e)
  \/ JoinSucceeds(i, e)
  \/ JoinFails(i, e)
  \/ CleanUp(i, e)
  \/ \E failed \in BOOLEAN : Claim(i, e, failed)
  \/ Recheck(i, e)
  \/ CannotRecheck(i, e)
  \/ Leave(i, e)
  \/ Remove(i, e)
  \/ \E failed \in BOOLEAN : Release(i, e, failed)

Next ==
  \/ \E h \in Humans : \E c \in Maybe(Channels) : Move(h, c)
  \/ \E h \in Humans : AskJoin(h)
  \/ \E i \in Instances : \E e \in EventIds : Step(i, e)
  \/ \E i \in Instances : \/ Kick(i)
                          \/ DisconnectVoice(i)
                          \/ StartDrain(i)
                          \/ \E deleted, stopped \in BOOLEAN : Exit(i, deleted, stopped)
                          \/ Crash(i)
                          \/ GoStale(i)
                          \/ Start(i)

Spec == Init /\ [][Next]_vars

\* Every query, join and sleep ends; nothing else is owed.
FairSpec == Spec /\ \A i \in Instances : \A e \in EventIds : WF_vars(Step(i, e))

----
\* Every variable keeps its type: who is where, the events and their tasks, the
\* Call and the count of each instance, the lease, and the bounds.
TypeOK ==
  /\ where \in [Humans -> Maybe(Channels)]
  /\ DOMAIN events = 1 .. Cardinality(DOMAIN events)
  /\ \A e \in DOMAIN events : e \in EventIds /\ events[e] \in Event
  /\ task \in [Instances -> [EventIds -> Task]]
  /\ call \in [Instances -> Maybe(Call)]
  /\ count \in [Instances -> Int]
  /\ up \subseteq Instances /\ draining \subseteq up
  /\ lease \in Maybe(Instances) /\ fresh \subseteq Instances
  /\ kicks \in 0 .. MaxKicks /\ starts \in 0 .. MaxStarts /\ crashes \in 0 .. MaxCrashes
  /\ raced \subseteq Instances \X EventIds /\ settled \subseteq EventIds
  /\ blind \subseteq EventIds
  /\ {kicked, overlap} \subseteq BOOLEAN

\* The lease of a live instance passes to another only by a connect that was
\* past its look at the lease when the live one came to own it
\* (connect_to_voice_channel, claim_voice_session): while an old release
\* drains, the new one leaves the guilds it records alone.
TakeoverOnlyByRace ==
  [][LeaseOwner # NoOne /\ LeaseOwner' \notin {NoOne, LeaseOwner}
       => \E e \in EventIds : <<LeaseOwner', e>> \in raced]_vars

Handling(e) == {i \in Instances : task[i][e].pc \notin {"off", "route", "skipped"}}
Decidable   == IF LeaseOwner = NoOne THEN Cardinality(up \ draining) = 1 ELSE LeaseOwner \in up

\* An event that every instance was sent is handled by exactly one of them, if
\* the guild has an owner that runs, or has none while one instance does not
\* drain, and nothing of this changed until all had routed it
\* (should_skip_voice_state_for_lease, should_skip_interaction).
HandledByOne ==
  [][\A e \in settled : ~Unrouted(e)' /\ up' = up /\ Decidable
       => Cardinality(Handling(e)') = 1]_vars

Connected(i) == HasCall(i) /\ call[i].chan # NoOne
Alone(i)     == Connected(i) /\ InVoice(call[i].chan) = {}

\* The last event by which a human left channel c.
Leaves(c)     == {e \in DOMAIN events : events[e].from = c /\ events[e].to # c}
BlindFor(c)   == \E e \in Leaves(c) : e \in blind /\ \A d \in Leaves(c) : d <= e

\* If an instance runs on without draining, and is sent an event only when it has
\* handled the last (Crowded is FALSE), it does not stay in a channel all humans
\* have left, whenever the re-checks wake up, unless the members could not be
\* read for the last of them to leave: "If no humans remain, schedule a delayed
\* re-check before leaving" (empty_channel_candidate).
EmptyIsLeft ==
  <>[](First \in up \ draining) =>
    []<>~(Alone(First) /\ ~BlindFor(call[First].chan))

Served(i) == Connected(i) /\ call[i].joined /\ call[i].chan \in MostMembers

LastEnters ==
  /\ events # <<>>
  /\ LET last == events[Cardinality(DOMAIN events)]
     IN  last.kind = "state" /\ last.to \notin {last.from, NoOne} \cup AfkChannels
  /\ Cardinality(DOMAIN events) \notin blind

\* If the last thing that happens in the guild is that a human enters a channel
\* not for AFK, and neither the join nor reading the members then fails, the bot
\* ends up in a channel with most humans, although it was disconnected or
\* scheduled a leave before that (voice_state_update, RejoinDisconnected, the
\* re-check).
EnteredIsJoined ==
  []~overlap /\ <>[](First \in up \ draining /\ LastEnters /\ ~kicked)
    => <>[]Served(First)
====
