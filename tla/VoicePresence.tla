---- MODULE VoicePresence ----
(***************************************************************************)
(* What one instance tells of the members in voice of one guild: the rows  *)
(* of voice_state_events (events/voice.rs), the presence that is exported  *)
(* as metrics and the times members came (metrics.rs), and a stream of the *)
(* dashboard with its topics (grpc/dashboard.rs, grpc/snapshot.rs).        *)
(*                                                                         *)
(* The cache is up to date before an event is dispatched, and holds whoever *)
(* was in voice when the process started.  Every event has a task of its   *)
(* own, which yields at the lease query and at each INSERT; the senders of *)
(* watch channels wake the stream at once, on another thread.  Which       *)
(* instance owns the guild is the matter of VoiceSession: here an event is *)
(* this instance's to handle, or is not.                                   *)
(***************************************************************************)
EXTENDS Integers, FiniteSets, SequencesExt

CONSTANTS
  Users,      \* members of the guild
  Bots,       \* those among them whose events are not recorded
  Channels,   \* its voice channels
  NumFlags,   \* flags of a voice state that are told apart
  MaxEvents,  \* bound: gateway events
  MaxAsks,    \* bound: messages of the client of the stream, the opening one too
  Away        \* no voice state, no time, no channel

ASSUME PresenceAssumption ==
  /\ Bots \subseteq Users /\ Away \notin Channels
  /\ {NumFlags, MaxEvents, MaxAsks} \subseteq Nat

VARIABLES
  state,     \* the cache: the voice state of each member, Away without one
  events,    \* the events dispatched, each with the old and the new state
  task,      \* the task of each event and the rows it has still to insert
  log,       \* voice_state_events of each member
  presence,  \* voice_users
  since,     \* user_start_times, as the event they were set for
  asked,     \* messages the client has sent; the topic it sent last
  topic,     \* the value of the watch channel of topics
  dirty,     \* watch channels that changed since the stream saw them
  stream,    \* what the stream does, with the topic and times it has read
  shown,     \* the states and times last sent to the client
  overlap,   \* history: did tasks for one member overlap?
  missed,    \* history: members with an event since they came, or their coming,
             \* that this process has not handled
  lost       \* history: members with a row since they came that was not inserted

guild   == <<state, events>>
metrics == <<presence, since>>
viewer  == <<asked, topic, stream, shown>>
history == <<overlap, missed, lost>>
vars    == <<guild, task, log, metrics, viewer, dirty, history>>

----
Flags    == 1 .. NumFlags
EventIds == 1 .. MaxEvents
Voice    == [chan : Channels, flags : SUBSET Flags]
Topics   == {"", "global", "voice"}

\* Rows of voice_state_events.
Rows == [what : {"join", "leave", "switch"}, of : Channels] \cup [what : {"on", "off"}, of : Flags]

Event   == [who : Users, old : Voice \cup {Away}, new : Voice \cup {Away}]
Task    == [pc : {"off", "route", "skipped", "record", "track", "done"}, todo : Seq(Rows)]
Shown   == [states : [Users -> Voice \cup {Away}], times : [Users -> EventIds \cup {Away}]]
Stream  == [pc : {"off", "loop", "times", "build", "send", "wait"}, topic : Topics, event : Shown]

Idle    == [pc |-> "off", todo |-> <<>>]
NoTimes == [u \in Users |-> Away]
Nothing == [states |-> [u \in Users |-> Away], times |-> NoTimes]
Closed  == [pc |-> "off", topic |-> "", event |-> Nothing]

\* The cache is filled at GUILD_CREATE, which sets neither presence nor times.
Init ==
  /\ state \in [Users -> Voice \cup {Away}]
  /\ events = <<>>
  /\ task = [e \in EventIds |-> Idle]
  /\ log = [u \in Users |-> <<>>]
  /\ presence = [u \in Users |-> Away]
  /\ since = NoTimes
  /\ asked = 0
  /\ topic = ""
  /\ dirty = {}
  /\ stream = Closed
  /\ shown = Nothing
  /\ overlap = FALSE
  /\ missed = {u \in Users : state[u] # Away}
  /\ lost = {}

----
(***************************************************************************)
(* voice_state_update                                                      *)
(***************************************************************************)

Working(u) == {e \in DOMAIN events :
                 events[e].who = u /\ task[e].pc \in {"route", "record", "track"}}

\* Mutant of ChannelRows: a leave names the channel of the new state.
ChannelRowsOfNew(old, new) ==
  CASE old = Away /\ new # Away -> << [what |-> "join", of |-> new.chan] >>
    [] old # Away /\ new = Away -> << [what |-> "leave", of |-> new] >>
    [] old # Away /\ new # Away /\ old.chan # new.chan -> << [what |-> "switch", of |-> new.chan] >>
    [] OTHER -> <<>>

\* The channel transition.
ChannelRows(old, new) ==
  CASE old = Away /\ new # Away -> << [what |-> "join", of |-> new.chan] >>
    [] old # Away /\ new = Away -> << [what |-> "leave", of |-> old.chan] >>
    [] old # Away /\ new # Away /\ old.chan # new.chan -> << [what |-> "switch", of |-> new.chan] >>
    [] OTHER -> <<>>

\* The members of a set of bits, lowest first.
Rising(S) == CHOOSE bits \in [1 .. Cardinality(S) -> S] :
               \A m, n \in 1 .. Cardinality(S) : m < n => bits[m] < bits[n]

\* The flags that differ, lowest bit first; without an old state there is
\* nothing to compare.
FlagRows(old, flags) ==
  IF old = Away THEN <<>>
  ELSE LET changed == (old.flags \cup flags) \ (old.flags \cap flags)
           bits    == Rising(changed)
       IN  [n \in DOMAIN bits |->
              [what |-> IF bits[n] \in flags THEN "on" ELSE "off", of |-> bits[n]]]

\* Mutant of RowsOf: a change of channel is told alone.
RowsOfEither(u, old, new, flags) ==
  IF u \in Bots THEN <<>>
  ELSE IF ChannelRows(old, new) # <<>> THEN ChannelRows(old, new) ELSE FlagRows(old, flags)

\* record_voice_events, with the flags of the new state, which a leave has too.
RowsOf(u, old, new, flags) ==
  IF u \in Bots THEN <<>> ELSE ChannelRows(old, new) \o FlagRows(old, flags)

\* A member comes, goes, changes channel or flags, or nothing that is told.
Update(u, new, flags) ==
  LET e == Len(events) + 1
  IN  /\ e <= MaxEvents
      /\ state[u] # Away \/ new # Away
      /\ new # Away => flags = new.flags
      /\ state' = [state EXCEPT ![u] = new]
      /\ events' = Append(events, [who |-> u, old |-> state[u], new |-> new])
      /\ task' = [task EXCEPT ![e] = [pc |-> "route", todo |-> RowsOf(u, state[u], new, flags)]]
      /\ overlap' = (overlap \/ Working(u) # {})
      /\ missed' = IF state[u] = Away THEN missed \ {u} ELSE missed
      /\ lost' = IF state[u] = Away THEN lost \ {u} ELSE lost
      /\ UNCHANGED <<log, metrics, viewer, dirty>>

\* should_skip_voice_state_for_lease: the event is for this instance to handle.
Take(e) ==
  /\ task[e].pc = "route"
  /\ task' = [task EXCEPT ![e].pc = "record"]
  /\ UNCHANGED <<guild, log, metrics, viewer, dirty, history>>

\* Another instance owns the guild, or this one drains: no row, no push, no gauge.
Skip(e) ==
  /\ task[e].pc = "route"
  /\ task' = [task EXCEPT ![e].pc = "skipped"]
  /\ missed' = missed \cup {events[e].who}
  /\ UNCHANGED <<guild, log, metrics, viewer, dirty, overlap, lost>>

\* insert_voice_event: an INSERT that fails is only logged.
Insert(e, failed) ==
  LET u == events[e].who
  IN  /\ task[e].pc = "record"
      /\ task[e].todo # <<>>
      /\ log' = IF failed THEN log ELSE [log EXCEPT ![u] = Append(@, Head(task[e].todo))]
      /\ lost' = IF failed THEN lost \cup {u} ELSE lost
      /\ task' = [task EXCEPT ![e].todo = Tail(@)]
      /\ UNCHANGED <<guild, metrics, viewer, dirty, overlap, missed>>

\* voice_update_tx.send
Announce(e) ==
  /\ task[e].pc = "record"
  /\ task[e].todo = <<>>
  /\ dirty' = IF stream = Closed THEN dirty ELSE dirty \cup {"voice"}
  /\ task' = [task EXCEPT ![e].pc = "track"]
  /\ UNCHANGED <<guild, log, metrics, viewer, history>>

\* Mutant of TimeOf: a switch keeps the time of the first channel.
TimeOfStay(e, last) ==
  IF events[e].new = Away THEN Away
  ELSE IF events[e].old = Away THEN e ELSE last

\* A time is set by a join and by a switch, and removed by a leave.
TimeOf(e, last) ==
  IF events[e].new = Away THEN Away
  ELSE IF events[e].old # Away /\ events[e].old.chan = events[e].new.chan THEN last ELSE e

\* track_voice_presence and user_start_times.
Track(e) ==
  LET u == events[e].who
  IN  /\ task[e].pc = "track"
      /\ presence' = [presence EXCEPT ![u] = events[e].new]
      /\ since' = [since EXCEPT ![u] = TimeOf(e, since[u])]
      /\ task' = [task EXCEPT ![e].pc = "done"]
      /\ UNCHANGED <<guild, log, viewer, dirty, history>>

----
(***************************************************************************)
(* dashboard_stream                                                        *)
(***************************************************************************)

\* The client opens a stream; watch values of before count as seen.
Open ==
  /\ stream = Closed
  /\ asked = 0 /\ MaxAsks > 0
  /\ stream' = [Closed EXCEPT !.pc = "loop"]
  /\ dirty' = {}
  /\ asked' = 1
  /\ UNCHANGED <<guild, task, log, metrics, topic, shown, history>>

\* A message, taken by the task that reads them: subscribe, or unsubscribe.
Ask(t) ==
  /\ asked \in 1 .. MaxAsks - 1
  /\ asked' = asked + 1
  /\ topic' = t
  /\ dirty' = dirty \cup {"topic"}
  /\ UNCHANGED <<guild, task, log, metrics, stream, shown, history>>

\* The client goes; the sender of topics is dropped with it.
HangUp ==
  /\ asked > 0
  /\ asked' = -1
  /\ UNCHANGED <<guild, task, log, metrics, topic, dirty, stream, shown, history>>

\* A command, a join or a resume: update_tx.send.
GlobalUpdate ==
  /\ stream # Closed
  /\ dirty' = dirty \cup {"global"}
  /\ UNCHANGED <<guild, task, log, metrics, viewer, history>>

\* The topic is read, and not marked as seen.
ReadTopic ==
  /\ stream.pc = "loop"
  /\ stream' = [stream EXCEPT !.topic = topic,
                              !.pc = IF topic = "" THEN "wait"
                                     ELSE IF topic = "global" THEN "send" ELSE "times"]
  /\ UNCHANGED <<guild, task, log, metrics, asked, topic, shown, dirty, history>>

\* A clone of user_start_times, taken before the cache is read.
ReadTimes ==
  /\ stream.pc = "times"
  /\ stream' = [stream EXCEPT !.event.times = since, !.pc = "build"]
  /\ UNCHANGED <<guild, task, log, metrics, asked, topic, shown, dirty, history>>

\* Mutant of Unseen: what has changed by now counts as seen.
UnseenAfter(t) == dirty \ {t}

\* Sending marks nothing as seen.
Unseen(t) == dirty

\* The states of the cache, with the times of the members who have one.
Build ==
  /\ stream.pc = "build"
  /\ stream' = [stream EXCEPT
                  !.event = [states |-> state,
                             times  |-> [u \in Users |-> IF state[u] = Away THEN Away ELSE @.times[u]]],
                  !.pc = "send"]
  /\ UNCHANGED <<guild, task, log, metrics, asked, topic, shown, dirty, history>>

\* The event is sent, unless the client has gone.
Send ==
  /\ stream.pc = "send"
  /\ IF asked = -1
     THEN stream' = Closed /\ UNCHANGED shown
     ELSE /\ stream' = [stream EXCEPT !.pc = "wait", !.event = Nothing]
          /\ shown' = IF stream.topic = "global" THEN shown ELSE stream.event
  /\ dirty' = Unseen(stream.topic)
  /\ UNCHANGED <<guild, task, log, metrics, asked, topic, history>>

\* The watch channels the select looks at for a topic.
Watched(t) == {"topic"} \cup IF t = "" THEN {} ELSE {t}

\* The select takes a change, which counts as seen.
Changed(w) ==
  /\ stream.pc = "wait"
  /\ w \in Watched(stream.topic) \cap dirty
  /\ dirty' = dirty \ {w}
  /\ stream' = [stream EXCEPT !.pc = "loop"]
  /\ UNCHANGED <<guild, task, log, metrics, asked, topic, shown, history>>

\* Mutant of Tick: the select waits for changes only.
NoTick == /\ stream.pc = "wait"
          /\ FALSE
          /\ UNCHANGED vars

\* Five seconds in which nothing else woke the select: a push anyhow.
Tick ==
  /\ stream.pc = "wait"
  /\ Watched(stream.topic) \cap dirty = {}
  /\ asked # -1
  /\ stream' = [stream EXCEPT !.pc = "loop"]
  /\ UNCHANGED <<guild, task, log, metrics, asked, topic, shown, dirty, history>>

\* Mutant of TopicEnds: an error of the channel of topics is ignored.
TopicNeverEnds ==
  /\ stream.pc = "wait"
  /\ FALSE
  /\ UNCHANGED vars

\* The channel of topics has lost its sender, and has no change to give.
TopicEnds ==
  /\ stream.pc = "wait"
  /\ asked = -1
  /\ "topic" \notin dirty
  /\ stream' = Closed
  /\ UNCHANGED <<guild, task, log, metrics, asked, topic, shown, dirty, history>>

----
Handle(e) == \/ Take(e)
             \/ Skip(e)
             \/ \E failed \in BOOLEAN : Insert(e, failed)
             \/ Announce(e)
             \/ Track(e)

Push == \/ ReadTopic
        \/ ReadTimes
        \/ Build
        \/ Send
        \/ \E w \in {"topic", "global", "voice"} : Changed(w)
        \/ TopicEnds

Next ==
  \/ \E u \in Users : \E new \in Voice \cup {Away} :
       \E flags \in SUBSET Flags : Update(u, new, flags)
  \/ \E e \in DOMAIN events : Handle(e)
  \/ Open
  \/ \E t \in Topics : Ask(t)
  \/ HangUp
  \/ GlobalUpdate
  \/ Push
  \/ Tick

Spec == Init /\ [][Next]_vars

\* Tasks and the stream go on; that time passes is asked for where it matters.
FairSpec == /\ Spec
            /\ WF_vars(\E e \in DOMAIN events : Handle(e))
            /\ WF_vars(Push)

----
\* Every variable keeps its type: the cache, the tasks, the voice_events rows,
\* the gauges, and the stream with what its client was shown.
TypeOK ==
  /\ state \in [Users -> Voice \cup {Away}]
  /\ events \in Seq(Event) /\ Len(events) <= MaxEvents
  /\ task \in [EventIds -> Task]
  /\ log \in [Users -> Seq(Rows)]
  /\ presence \in [Users -> Voice \cup {Away}]
  /\ since \in [Users -> EventIds \cup {Away}]
  /\ asked \in -1 .. MaxAsks
  /\ topic \in Topics
  /\ dirty \subseteq {"topic", "global", "voice"}
  /\ stream \in Stream
  /\ shown \in Shown
  /\ overlap \in BOOLEAN
  /\ missed \subseteq Users /\ lost \subseteq Users

AtRest == \A u \in Users : Working(u) = {}

\* Where a timeline puts a member, and the flags it has seen change there.
Place(rows) ==
  LET n == SelectLastInSeq(rows, LAMBDA r : r.what \in {"join", "switch", "leave"})
  IN  IF n = 0 \/ rows[n].what = "leave" THEN Away ELSE rows[n].of

\* What it tells of a flag since the member came, by the last of the rows.
Told(rows, f) ==
  LET n == SelectLastInSeq(rows, LAMBDA r : \/ r.what = "join"
                                            \/ r.what \in {"on", "off"} /\ r.of = f)
  IN  IF n = 0 THEN "nothing" ELSE rows[n].what

\* The rows are a "timeline overlay on recordings" (voice.rs): if the tasks for
\* a member do not overlap, they put him where he is, and the last of them about
\* a flag says what it is now.  A row that could not be inserted or an event this
\* process did not handle spoils the timeline no longer than until he comes again.
TimelineReplays ==
  AtRest /\ ~overlap =>
    \A u \in Users \ (Bots \cup missed \cup lost) :
      /\ Place(log[u]) = IF state[u] = Away THEN Away ELSE state[u].chan
      /\ state[u] # Away =>
           \A f \in Flags : Told(log[u], f) \in {"join", IF f \in state[u].flags THEN "on" ELSE "off"}

\* The events that brought a member into a channel, the last of them into
\* the one he is in.
Entries(u) == {e \in DOMAIN events :
                 /\ events[e].who = u
                 /\ events[e].new # Away
                 /\ events[e].old = Away \/ events[e].old.chan # events[e].new.chan}

Came(u) == CHOOSE e \in Entries(u) : \A d \in Entries(u) : d <= e

\* The gauges the dashboard reads follow the gateway, if the tasks for a member
\* do not overlap: the channel, the flags and the time he came.  For one who was
\* in voice before the process started, or of whom an event was skipped, they do
\* so again when he comes next.
PresenceFollows ==
  AtRest /\ ~overlap =>
    \A u \in Users \ missed :
      /\ presence[u] = state[u]
      /\ since[u] = IF state[u] = Away THEN Away ELSE Came(u)

Viewing == asked > 0 /\ topic = "voice"

\* The last event of a member was skipped, and so not announced.
Ignored(u) ==
  \E e \in DOMAIN events : /\ events[e].who = u /\ task[e].pc = "skipped"
                           /\ \A d \in DOMAIN events : events[d].who = u => d <= e

\* A client that stays subscribed to the voice of the guild is shown the states
\* the cache has, by the watch channels alone, but for what this instance has
\* skipped: no update is lost between a send and the select (the order of borrow,
\* send and changed).
ViewerSeesStates ==
  <>[]Viewing => <>[](\A u \in Users : Ignored(u) \/ shown.states[u] = state[u])

\* With the push every five seconds he is shown all states, skipped or not, and
\* the times, although they are written after the stream was woken.
ViewerSeesTimes ==
  <>[]Viewing /\ WF_vars(Tick)
    => <>[]( /\ shown.states = state
            /\ shown.times = [u \in Users |-> IF state[u] = Away THEN Away ELSE since[u]])

\* A stream ends when its client has gone (the RAII guard of snapshot.rs counts
\* it down then), even if he sends nothing any more.
StreamEnds == asked = -1 ~> stream = Closed
====
