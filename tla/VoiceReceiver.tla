---- MODULE VoiceReceiver ----
(***************************************************************************)
(* The life of the per-user recordings of one voice session: the Receiver  *)
(* of src/src/events/voice_receiver.rs and the tasks it spawns.            *)
(*                                                                         *)
(* songbird hands the events of one Receiver to it one after the other, so *)
(* they run on one task, the event task.  Three kinds of task run beside   *)
(* it on the same maps: the health checker (one, for ever), one timeout    *)
(* per recoverable disconnect and one timeout per paused recording.  An    *)
(* action is what a task does between two awaits that another task can     *)
(* observe; every label of pc is such an await.                            *)
(*                                                                         *)
(* Left out because no action reads them: the audio written (VoiceTick,    *)
(* silence padding), the voice_events rows and the audit log.  Taken as an *)
(* arbitrary choice where it is read: the gateway cache of voice states,   *)
(* which the gateway changes at any moment on its own.                     *)
(***************************************************************************)
EXTENDS Integers, FiniteSets

CONSTANTS
  Users,        \* the people and bots that may speak on the channel
  Bots,         \* those whose member record says bot
  Ssrcs,        \* the SSRCs the voice server hands out
  SsrcUser,     \* the user an SSRC is handed to; never reused for another
  Recs,         \* the recordings: UserRecording objects and audio_files rows
  RecUser,      \* the user in a recording's file name
  NoSsrc, NoRec,
  MaxPauses,    \* bound: pauses taken (paused_recording_token)
  MaxOutages,   \* bound: recoverable disconnects (disconnected_at_ms values)
  Faults        \* may the database, the disk and the member lookup fail?

ASSUME UsersAssumption == Bots \subseteq Users
ASSUME SsrcAssumption == NoSsrc \notin Ssrcs /\ SsrcUser \in [Ssrcs -> Users]
ASSUME RecAssumption == NoRec \notin Recs /\ RecUser \in [Recs -> Users]
ASSUME BoundAssumption ==
  MaxPauses \in Nat /\ MaxOutages \in Nat /\ Faults \in BOOLEAN

VARIABLES
  userSsrc,       \* user_id_hashmap
  writers,        \* ssrc_writer_hashmap
  paused,         \* paused_recordings
  nextToken,      \* paused_recording_token
  botSsrcs,       \* bot_ssrcs
  botUser,        \* bot_user_id_hashmap
  disconnectedAt, \* disconnected_at_ms: 0, or which outage began
  outages,        \* the clock disconnected_at_ms is read from, in outages
  driver,         \* is the songbird driver connected to the voice server?
  row,            \* audio_files: no row, end_ts NULL, end_ts set
  started,        \* recordings counted by track_recording_started
  finished,       \* recordings counted by track_recording_finished
  pc,             \* the await each task is at
  back,           \* where finalize_recording_arc returns to
  at,             \* the SSRC a task works on (its user is SsrcUser[at])
  todo,           \* the SSRCs of the snapshot a task is looping over
  held,           \* the recordings a task has taken out of the maps
  prev,           \* event task: previous_ssrc read by a speaking update
  opened          \* event task: the recording it has just created

maps  == <<userSsrc, writers, paused>>
bots  == <<botSsrcs, botUser>>
link  == <<disconnectedAt, outages, driver>>
books == <<row, started, finished>>
local == <<back, at, todo, held>>
event == <<prev, opened>>
vars  == <<maps, nextToken, bots, link, books, pc, local, event>>

----
Event         == <<"event", 0>>
Health        == <<"health", 0>>
Outage(e)     == <<"outage", e>>
Rejoin(k)     == <<"rejoin", k>>
OutageTasks   == {Outage(e) : e \in 1..MaxOutages}
RejoinTasks   == {Rejoin(k) : k \in 1..MaxPauses}
Tasks         == {Event, Health} \cup OutageTasks \cup RejoinTasks
Closers       == {Event} \cup OutageTasks     \* run finalize_all_active_recordings
Reapers       == {Event, Health}              \* drop users missing from the cache

NoPause == [rec |-> NoRec, token |-> 0]
Pauses  == [rec : Recs, token : 1..MaxPauses]

Labels ==
  {"idle", "off", "armed", "done",
   "remap", "bind", "lookup", "rejoin", "map", "claim", "create", "observe",
   "detach", "park", "schedule", "suspend", "survey", "reap", "reap_writer",
   "close_all", "writers", "paused", "clear_users", "clear_paused",
   "finish", "update"}

\* The maps' contents, as sets.
Mapped    == {userSsrc[u] : u \in Users} \ {NoSsrc}
Written   == {writers[s] : s \in Ssrcs} \ {NoRec}
PausedNow == {paused[u].rec : u \in Users} \ {NoRec}

\* The recordings some map or some task still refers to.
Reachable == Written \cup PausedNow \cup UNION {held[t] : t \in Tasks}

\* Only a speaking update keeps ssrc_writer_hashmap locked across an await,
\* the one inside create_path.
WritersFree == pc[Event] # "create"

Goto(t, label) == pc' = [pc EXCEPT ![t] = label]

\* Calls finalize_recording_arc on the recordings the task holds.
CallFinalize(t, label) ==
  /\ Goto(t, "finish")
  /\ back' = [back EXCEPT ![t] = label]

\* The label of a task that has nothing left to do.
EndOf(t) == IF t \in Reapers THEN "idle" ELSE "done"

\* The handler of the event returns and its locals go out of scope.
Return ==
  /\ Goto(Event, "idle")
  /\ at' = [at EXCEPT ![Event] = NoSsrc]
  /\ prev' = NoSsrc
  /\ opened' = NoRec

Init ==
  /\ userSsrc = [u \in Users |-> NoSsrc]
  /\ writers = [s \in Ssrcs |-> NoRec]
  /\ paused = [u \in Users |-> NoPause]
  /\ nextToken = 1
  /\ botSsrcs = {}
  /\ botUser = [u \in Users |-> NoSsrc]
  /\ disconnectedAt = 0
  /\ outages = 0
  /\ driver = "connected"
  /\ row = [r \in Recs |-> "none"]
  /\ started = {}
  /\ finished = {}
  /\ pc = [t \in Tasks |-> IF t \in Reapers THEN "idle" ELSE "off"]
  /\ back = [t \in Tasks |-> "off"]
  /\ at = [t \in Tasks |-> NoSsrc]
  /\ todo = [t \in Tasks |-> {}]
  /\ held = [t \in Tasks |-> {}]
  /\ prev = NoSsrc
  /\ opened = NoRec

----
(***************************************************************************)
(* SpeakingStateUpdate.                                                    *)
(***************************************************************************)

\* A bot already known comes back under a new SSRC.
SpeakingKnownBot(s) ==
  LET u == SsrcUser[s] IN
  /\ pc[Event] = "idle" /\ driver = "connected"
  /\ botUser[u] \notin {NoSsrc, s}
  /\ botSsrcs' = (botSsrcs \ {botUser[u]}) \cup {s}
  /\ botUser' = [botUser EXCEPT ![u] = s]
  /\ UNCHANGED <<maps, nextToken, link, books, pc, local, event>>

\* The handler reads user_id_hashmap and goes on unless the user is mapped to
\* this very SSRC ("Writer already active"), when it returns at once.
Speaking(s) ==
  LET u == SsrcUser[s] IN
  /\ pc[Event] = "idle" /\ driver = "connected"
  /\ botUser[u] = NoSsrc
  /\ userSsrc[u] # s
  /\ Goto(Event, IF userSsrc[u] = NoSsrc THEN "lookup" ELSE "remap")
  /\ at' = [at EXCEPT ![Event] = s]
  /\ prev' = userSsrc[u]
  /\ UNCHANGED <<maps, nextToken, bots, link, books, back, todo, held, opened>>

\* The writer of the user's previous SSRC moves to the new one.
Remap ==
  /\ pc[Event] = "remap"
  /\ \/ /\ writers[prev] # NoRec
        /\ writers' = [writers EXCEPT ![prev] = NoRec,
                                      ![at[Event]] = writers[prev]]
        /\ Goto(Event, "bind")
     \/ /\ writers[prev] = NoRec
        /\ Goto(Event, "lookup")
        /\ UNCHANGED writers
  /\ UNCHANGED <<userSsrc, paused, nextToken, bots, link, books, local, event>>

\* The user's entry follows the writer that was moved or resumed.
Bind ==
  /\ pc[Event] = "bind"
  /\ userSsrc' = [userSsrc EXCEPT ![SsrcUser[at[Event]]] = at[Event]]
  /\ Return
  /\ UNCHANGED <<writers, paused, nextToken, bots, link, books, back, todo, held>>

\* member.user.bot.
NobodyIsBot(u) == FALSE
IsBot(u) == u \in Bots

\* Bound: a user has the recordings Recs names, and opens no other.
RecsLeft(u) == \E r \in Recs : RecUser[r] = u /\ row[r] = "none"

\* The guild or the member cannot be found: the event is dropped.  So is,
\* to stay within the bound, one that would need another recording.
LookupFails ==
  LET u == SsrcUser[at[Event]] IN
  /\ pc[Event] = "lookup"
  /\ Faults \/ (~IsBot(u) /\ paused[u].rec = NoRec /\ ~RecsLeft(u))
  /\ Return
  /\ UNCHANGED <<maps, nextToken, bots, link, books, back, todo, held>>

\* The member is a bot: it is remembered and never recorded.
LookupBot ==
  LET s == at[Event]
      u == SsrcUser[s] IN
  /\ pc[Event] = "lookup"
  /\ IsBot(u)
  /\ botSsrcs' = botSsrcs \cup {s}
  /\ botUser' = [botUser EXCEPT ![u] = s]
  /\ Return
  /\ UNCHANGED <<maps, nextToken, link, books, back, todo, held>>

\* The member is a human: resume_paused_recording takes the paused recording
\* out of its map, if there is one.
LookupHuman ==
  LET u == SsrcUser[at[Event]] IN
  /\ pc[Event] = "lookup"
  /\ ~IsBot(u)
  /\ \/ /\ paused[u].rec # NoRec
        /\ held' = [held EXCEPT ![Event] = {paused[u].rec}]
        /\ paused' = [paused EXCEPT ![u] = NoPause]
        /\ Goto(Event, "rejoin")
     \/ /\ paused[u].rec = NoRec
        /\ RecsLeft(u)
        /\ Goto(Event, "map")
        /\ UNCHANGED <<held, paused>>
  /\ UNCHANGED <<userSsrc, writers, nextToken, bots, link, books, back, at, todo, event>>

\* The gap is padded and the recording becomes the writer of the new SSRC.
RejoinWriter ==
  /\ pc[Event] = "rejoin"
  /\ \E r \in held[Event] : writers' = [writers EXCEPT ![at[Event]] = r]
  /\ held' = [held EXCEPT ![Event] = {}]
  /\ Goto(Event, "bind")
  /\ UNCHANGED <<userSsrc, paused, nextToken, bots, link, books, back, at, todo, event>>

\* Nothing to resume: the user is mapped before there is a writer.
MapUser ==
  /\ pc[Event] = "map"
  /\ userSsrc' = [userSsrc EXCEPT ![SsrcUser[at[Event]]] = at[Event]]
  /\ Goto(Event, "claim")
  /\ UNCHANGED <<writers, paused, nextToken, bots, link, books, local, event>>

\* The write lock is taken; a writer found under the SSRC is kept as it is.
ClaimSsrc ==
  /\ pc[Event] = "claim"
  /\ \/ /\ writers[at[Event]] # NoRec
        /\ Return
     \/ /\ writers[at[Event]] = NoRec
        /\ Goto(Event, "create")
        /\ UNCHANGED <<at, event>>
  /\ UNCHANGED <<maps, nextToken, bots, link, books, back, todo, held>>

\* create_path inserts the row, then the file is created and the writer goes
\* into the map; the lock is dropped.
CreateWriter(r) ==
  /\ pc[Event] = "create"
  /\ RecUser[r] = SsrcUser[at[Event]]
  /\ row[r] = "none"
  /\ row' = [row EXCEPT ![r] = "open"]
  /\ writers' = [writers EXCEPT ![at[Event]] = r]
  /\ opened' = r
  /\ Goto(Event, "observe")
  /\ UNCHANGED <<userSsrc, paused, nextToken, bots, link, started, finished, local, prev>>

\* create_path fails before or at its INSERT: no row, no writer.
InsertFails ==
  /\ pc[Event] = "create"
  /\ Faults
  /\ Return
  /\ UNCHANGED <<maps, nextToken, bots, link, books, back, todo, held>>

\* The row is inserted but the file or its headers cannot be written.
FileFails(r) ==
  /\ pc[Event] = "create"
  /\ Faults
  /\ RecUser[r] = SsrcUser[at[Event]]
  /\ row[r] = "none"
  /\ row' = [row EXCEPT ![r] = "open"]
  /\ Return
  /\ UNCHANGED <<maps, nextToken, bots, link, started, finished, back, todo, held>>

\* user_names::observe has returned; only now the recording is counted.
CountStarted ==
  /\ pc[Event] = "observe"
  /\ started' = started \cup {opened}
  /\ Return
  /\ UNCHANGED <<maps, nextToken, bots, link, row, finished, back, todo, held>>

----
(***************************************************************************)
(* ClientDisconnect: the recording is paused, waiting for the user.        *)
(***************************************************************************)

BotLeaves(u) ==
  /\ pc[Event] = "idle" /\ driver = "connected"
  /\ botUser[u] # NoSsrc
  /\ botSsrcs' = botSsrcs \ {botUser[u]}
  /\ botUser' = [botUser EXCEPT ![u] = NoSsrc]
  /\ UNCHANGED <<maps, nextToken, link, books, pc, local, event>>

UserLeavesMapped(u) ==
  /\ pc[Event] = "idle" /\ driver = "connected"
  /\ botUser[u] = NoSsrc
  /\ userSsrc[u] # NoSsrc
  /\ nextToken <= MaxPauses
  /\ at' = [at EXCEPT ![Event] = userSsrc[u]]
  /\ Goto(Event, "detach")
  /\ UNCHANGED <<maps, nextToken, bots, link, books, back, todo, held, event>>

\* The user's entry goes first.  The bound on pauses stands here.
UserLeaves(u) ==
  /\ pc[Event] = "idle" /\ driver = "connected"
  /\ botUser[u] = NoSsrc
  /\ userSsrc[u] # NoSsrc
  /\ nextToken <= MaxPauses
  /\ userSsrc' = [userSsrc EXCEPT ![u] = NoSsrc]
  /\ at' = [at EXCEPT ![Event] = userSsrc[u]]
  /\ Goto(Event, "detach")
  /\ UNCHANGED <<writers, paused, nextToken, bots, link, books, back, todo, held, event>>

\* Then the writer is taken; without one there is nothing to pause.
DetachWriter ==
  LET s == at[Event] IN
  /\ pc[Event] = "detach"
  /\ \/ /\ writers[s] # NoRec
        /\ held' = [held EXCEPT ![Event] = {writers[s]}]
        /\ writers' = [writers EXCEPT ![s] = NoRec]
        /\ Goto(Event, "park")
        /\ UNCHANGED <<at, event>>
     \/ /\ writers[s] = NoRec
        /\ Return
        /\ UNCHANGED <<held, writers>>
  /\ UNCHANGED <<userSsrc, paused, nextToken, bots, link, books, back, todo>>

\* The recording is parked under a fresh token; a recording already parked
\* for the user is finalized.
ParkRecording ==
  LET u == SsrcUser[at[Event]]
      old == paused[u].rec IN
  /\ pc[Event] = "park"
  /\ nextToken' = nextToken + 1
  /\ \E r \in held[Event] :
       paused' = [paused EXCEPT ![u] = [rec |-> r, token |-> nextToken]]
  /\ held' = [held EXCEPT ![Event] = {old} \ {NoRec}]
  /\ \/ old # NoRec /\ CallFinalize(Event, "schedule")
     \/ old = NoRec /\ Goto(Event, "schedule") /\ UNCHANGED back
  /\ UNCHANGED <<userSsrc, writers, bots, link, books, at, todo, event>>

ScheduleForgotten ==
  /\ pc[Event] = "schedule"
  /\ Return
  /\ UNCHANGED <<maps, nextToken, bots, link, books, back, todo, held>>

\* The timeout task of the token just taken is spawned.
ScheduleRejoin ==
  LET t == Rejoin(nextToken - 1) IN
  /\ pc[Event] = "schedule"
  /\ pc' = [pc EXCEPT ![Event] = "idle", ![t] = "armed"]
  /\ at' = [at EXCEPT ![Event] = NoSsrc, ![t] = at[Event]]
  /\ prev' = NoSsrc /\ opened' = NoRec
  /\ UNCHANGED <<maps, nextToken, bots, link, books, back, todo, held>>

\* Is the user still paused, and under this token?
AnyTimeoutMatches(u, k)    == TRUE
AnyPauseMatches(u, k)      == paused[u].rec # NoRec
PausedTimeoutMatches(u, k) == paused[u].token = k

\* Ten minutes later: the timeout closes the recording if the user's entry
\* still carries its token.
RejoinTimeout(k) ==
  LET t == Rejoin(k)
      u == SsrcUser[at[t]] IN
  /\ pc[t] = "armed"
  /\ \/ /\ PausedTimeoutMatches(u, k)
        /\ held' = [held EXCEPT ![t] = {paused[u].rec}]
        /\ paused' = [paused EXCEPT ![u] = NoPause]
        /\ CallFinalize(t, "done")
     \/ /\ ~PausedTimeoutMatches(u, k)
        /\ Goto(t, "done")
        /\ UNCHANGED <<held, paused, back>>
  /\ UNCHANGED <<userSsrc, writers, nextToken, bots, link, books, at, todo, event>>

----
(***************************************************************************)
(* The driver disconnects and reconnects.                                  *)
(***************************************************************************)

\* A disconnect whose recordings may resume: the time is recorded unless an
\* outage is already running; the event task then awaits the user map and an
\* INSERT for each user in it.
RecoverableDisconnect ==
  /\ pc[Event] = "idle"
  /\ driver' = "disconnected"
  /\ \/ /\ disconnectedAt = 0
        /\ outages < MaxOutages
        /\ outages' = outages + 1
        /\ disconnectedAt' = outages + 1
        /\ Goto(Event, "suspend")
     \/ /\ disconnectedAt # 0
        /\ UNCHANGED <<outages, disconnectedAt, pc>>
  /\ UNCHANGED <<maps, nextToken, bots, books, local, event>>

\* Mutant of ScheduleOutage: the timeout is not spawned.
OutageForgotten ==
  /\ pc[Event] = "suspend"
  /\ Goto(Event, "idle")
  /\ UNCHANGED <<maps, nextToken, bots, link, books, local, event>>

\* Only then the outage's timeout task is spawned.
ScheduleOutage ==
  /\ pc[Event] = "suspend"
  /\ pc' = [pc EXCEPT ![Event] = "idle", ![Outage(outages)] = "armed"]
  /\ UNCHANGED <<maps, nextToken, bots, link, books, local, event>>

\* An intentional disconnect from a channel the cache shows without humans.
FinalDisconnect ==
  /\ pc[Event] = "idle"
  /\ driver' = "disconnected"
  /\ disconnectedAt' = 0
  /\ Goto(Event, "close_all")
  /\ UNCHANGED <<maps, nextToken, bots, outages, books, local, event>>

\* Mutant of OutageTimeoutMatches: any outage that runs will do.
AnyOutageMatches(e) == disconnectedAt # 0

\* Is it still this outage that runs?
OutageTimeoutMatches(e) == disconnectedAt = e

\* A minute later: the timeout closes everything if its outage still runs.
OutageTimeout(e) ==
  LET t == Outage(e) IN
  /\ pc[t] = "armed"
  /\ \/ OutageTimeoutMatches(e) /\ disconnectedAt' = 0 /\ Goto(t, "close_all")
     \/ ~OutageTimeoutMatches(e) /\ UNCHANGED disconnectedAt /\ Goto(t, "done")
  /\ UNCHANGED <<maps, nextToken, bots, outages, driver, books, local, event>>

\* DriverConnect and DriverReconnect: the outage is over.
DriverConnects ==
  /\ pc[Event] = "idle"
  /\ driver = "disconnected"
  /\ driver' = "connected"
  /\ disconnectedAt' = 0
  /\ \/ disconnectedAt = 0 /\ UNCHANGED pc
     \/ disconnectedAt # 0 /\ Goto(Event, "survey")
  /\ UNCHANGED <<maps, nextToken, bots, outages, books, local, event>>

\* The users that left during the outage, as the cache shows them now.
SurveyUsers ==
  /\ pc[Event] = "survey"
  /\ \E gone \in SUBSET Mapped : todo' = [todo EXCEPT ![Event] = gone]
  /\ Goto(Event, "reap")
  /\ UNCHANGED <<maps, nextToken, bots, link, books, back, at, held, event>>

----
(***************************************************************************)
(* The health checker, and the loop it shares with a reconnect.            *)
(***************************************************************************)

\* Every minute, unless an outage runs: the mapped users the cache lacks.
HealthCheck ==
  /\ pc[Health] = "idle"
  /\ disconnectedAt = 0
  /\ \E gone \in SUBSET Mapped :
       /\ gone # {}
       /\ todo' = [todo EXCEPT ![Health] = gone]
  /\ Goto(Health, "reap")
  /\ UNCHANGED <<maps, nextToken, bots, link, books, back, at, held, event>>

\* The user's entry is removed, whatever SSRC it holds by now.
ReapUser(t, s) ==
  /\ pc[t] = "reap"
  /\ s \in todo[t]
  /\ todo' = [todo EXCEPT ![t] = @ \ {s}]
  /\ at' = [at EXCEPT ![t] = s]
  /\ userSsrc' = [userSsrc EXCEPT ![SsrcUser[s]] = NoSsrc]
  /\ Goto(t, "reap_writer")
  /\ UNCHANGED <<writers, paused, nextToken, bots, link, books, back, held, event>>

TakeWriterByReference(t, s, label) ==
  /\ \/ /\ writers[s] # NoRec
        /\ held' = [held EXCEPT ![t] = {writers[s]}]
        /\ CallFinalize(t, label)
     \/ /\ writers[s] = NoRec
        /\ Goto(t, label)
        /\ UNCHANGED <<held, back>>
  /\ UNCHANGED writers

\* finalize_writer_at: takes the writer of the SSRC, or does nothing.
TakeWriter(t, s, label) ==
  /\ WritersFree
  /\ \/ /\ writers[s] # NoRec
        /\ held' = [held EXCEPT ![t] = {writers[s]}]
        /\ writers' = [writers EXCEPT ![s] = NoRec]
        /\ CallFinalize(t, label)
     \/ /\ writers[s] = NoRec
        /\ Goto(t, label)
        /\ UNCHANGED <<held, writers, back>>

ReapWriter(t) ==
  /\ pc[t] = "reap_writer"
  /\ TakeWriter(t, at[t], "reap")
  /\ at' = [at EXCEPT ![t] = NoSsrc]
  /\ UNCHANGED <<userSsrc, paused, nextToken, bots, link, books, todo, event>>

ReapDone(t) ==
  /\ pc[t] = "reap"
  /\ todo[t] = {}
  /\ Goto(t, "idle")
  /\ UNCHANGED <<maps, nextToken, bots, link, books, local, event>>

----
(***************************************************************************)
(* finalize_all_active_recordings and clear_receiver_state.                *)
(***************************************************************************)

SnapshotMapped(t) ==
  /\ pc[t] = "close_all"
  /\ WritersFree
  /\ todo' = [todo EXCEPT ![t] = Mapped]
  /\ Goto(t, "writers")
  /\ UNCHANGED <<maps, nextToken, bots, link, books, back, at, held, event>>

\* The SSRCs are collected under the read lock, which is then released.
SnapshotWriters(t) ==
  /\ pc[t] = "close_all"
  /\ WritersFree
  /\ todo' = [todo EXCEPT ![t] = {s \in Ssrcs : writers[s] # NoRec}]
  /\ Goto(t, "writers")
  /\ UNCHANGED <<maps, nextToken, bots, link, books, back, at, held, event>>

CloseWriter(t, s) ==
  /\ pc[t] = "writers"
  /\ s \in todo[t]
  /\ todo' = [todo EXCEPT ![t] = @ \ {s}]
  /\ TakeWriter(t, s, "writers")
  /\ UNCHANGED <<userSsrc, paused, nextToken, bots, link, books, at, event>>

\* All paused recordings are drained at once and finalized one by one.
DrainPaused(t) ==
  /\ pc[t] = "writers"
  /\ todo[t] = {}
  /\ held' = [held EXCEPT ![t] = PausedNow]
  /\ paused' = [u \in Users |-> NoPause]
  /\ Goto(t, "paused")
  /\ UNCHANGED <<userSsrc, writers, nextToken, bots, link, books, back, at, todo, event>>

ClosePaused(t) ==
  /\ pc[t] = "paused"
  /\ \/ held[t] # {} /\ CallFinalize(t, "paused")
     \/ held[t] = {} /\ Goto(t, "clear_users") /\ UNCHANGED back
  /\ UNCHANGED <<maps, nextToken, bots, link, books, at, todo, held, event>>

ClearUsers(t) ==
  /\ pc[t] = "clear_users"
  /\ userSsrc' = [u \in Users |-> NoSsrc]
  /\ Goto(t, "clear_paused")
  /\ UNCHANGED <<writers, paused, nextToken, bots, link, books, local, event>>

\* What is still paused is dropped, not finalized; the bots are forgotten.
ClearPaused(t) ==
  /\ pc[t] = "clear_paused"
  /\ paused' = [u \in Users |-> NoPause]
  /\ botSsrcs' = {}
  /\ botUser' = [u \in Users |-> NoSsrc]
  /\ Goto(t, EndOf(t))
  /\ UNCHANGED <<userSsrc, writers, nextToken, link, books, local, event>>

----
(***************************************************************************)
(* finalize_recording_arc.                                                 *)
(***************************************************************************)

\* Under the recording's lock: the Ogg stream ends and the metrics count it.
FinishWriter(t) ==
  /\ pc[t] = "finish"
  /\ \E r \in held[t] : finished' = finished \cup {r}
  /\ Goto(t, "update")
  /\ UNCHANGED <<maps, nextToken, bots, link, row, started, local, event>>

\* The UPDATE of end_ts, or its failure, which is only logged; the task drops
\* its reference and goes on.
UpdateRow(t) ==
  /\ pc[t] = "update"
  /\ \E r \in held[t] \cap finished :
       /\ held' = [held EXCEPT ![t] = @ \ {r}]
       /\ \/ row' = [row EXCEPT ![r] = "closed"]
          \/ Faults /\ UNCHANGED row
  /\ Goto(t, back[t])
  /\ back' = [back EXCEPT ![t] = "off"]
  /\ UNCHANGED <<maps, nextToken, bots, link, started, finished, at, todo, event>>

----
\* What the event task does once an event has arrived.
EventStep ==
  \/ Remap \/ Bind \/ LookupFails \/ LookupBot \/ LookupHuman
  \/ RejoinWriter \/ MapUser \/ ClaimSsrc
  \/ \E r \in Recs : CreateWriter(r) \/ FileFails(r)
  \/ InsertFails \/ CountStarted
  \/ DetachWriter \/ ParkRecording \/ ScheduleRejoin
  \/ ScheduleOutage \/ SurveyUsers

\* The routines several tasks run.
SharedStep(t) ==
  \/ t \in Reapers /\ (\/ \E s \in Ssrcs : ReapUser(t, s)
                       \/ ReapWriter(t) \/ ReapDone(t))
  \/ t \in Closers /\ (\/ SnapshotWriters(t)
                       \/ \E s \in Ssrcs : CloseWriter(t, s)
                       \/ DrainPaused(t) \/ ClosePaused(t)
                       \/ ClearUsers(t) \/ ClearPaused(t))
  \/ FinishWriter(t) \/ UpdateRow(t)

\* What songbird delivers, one event at a time, in any order.
Deliver ==
  \/ \E s \in Ssrcs : SpeakingKnownBot(s) \/ Speaking(s)
  \/ \E u \in Users : BotLeaves(u) \/ UserLeaves(u)
  \/ RecoverableDisconnect \/ FinalDisconnect \/ DriverConnects

Timeout ==
  \/ \E k \in 1..MaxPauses : RejoinTimeout(k)
  \/ \E e \in 1..MaxOutages : OutageTimeout(e)

Next ==
  \/ Deliver
  \/ HealthCheck
  \/ EventStep
  \/ Timeout
  \/ \E t \in Tasks : SharedStep(t)

\* The event task goes on to spawn the timeout of a pause, and the sleep of that
\* timeout ends.  Nothing is asked of songbird, of the health checker, of any other
\* await, nor of what a timeout goes on to close.
Fairness ==
  /\ WF_vars(ScheduleRejoin)
  /\ \A k \in 1..MaxPauses : WF_vars(RejoinTimeout(k))

Spec     == Init /\ [][Next]_vars
FairSpec == Spec /\ Fairness

----
(***************************************************************************)
(* Properties.                                                             *)
(***************************************************************************)

\* Every variable keeps its type: the maps of the Receiver, its atomics and
\* the locals of its tasks.
TypeOK ==
  /\ userSsrc \in [Users -> Ssrcs \cup {NoSsrc}]
  /\ writers \in [Ssrcs -> Recs \cup {NoRec}]
  /\ paused \in [Users -> Pauses \cup {NoPause}]
  /\ nextToken \in 1..MaxPauses + 1
  /\ botSsrcs \in SUBSET Ssrcs
  /\ botUser \in [Users -> Ssrcs \cup {NoSsrc}]
  /\ disconnectedAt \in 0..MaxOutages
  /\ outages \in 0..MaxOutages
  /\ driver \in {"connected", "disconnected"}
  /\ row \in [Recs -> {"none", "open", "closed"}]
  /\ started \in SUBSET Recs
  /\ finished \in SUBSET Recs
  /\ pc \in [Tasks -> Labels]
  /\ back \in [Tasks -> {"off", "schedule", "reap", "writers", "paused", "done"}]
  /\ at \in [Tasks -> Ssrcs \cup {NoSsrc}]
  /\ todo \in [Tasks -> SUBSET Ssrcs]
  /\ held \in [Tasks -> SUBSET Recs]
  /\ prev \in Ssrcs \cup {NoSsrc}
  /\ opened \in Recs \cup {NoRec}

\* A recording is in one place at a time: under one SSRC, or paused for one
\* user, or in the hands of one task.  Were it in two, an event could write
\* to a recording another task is closing, or two tasks could close it.
SingleOwner ==
  /\ \A s1, s2 \in Ssrcs :
       writers[s1] = writers[s2] /\ s1 # s2 => writers[s1] = NoRec
  /\ \A u1, u2 \in Users :
       paused[u1].rec = paused[u2].rec /\ u1 # u2 => paused[u1].rec = NoRec
  /\ Written \cap PausedNow = {}
  /\ \A t \in Tasks : held[t] \cap (Written \cup PausedNow) = {}
  /\ \A t1, t2 \in Tasks : t1 # t2 => held[t1] \cap held[t2] = {}

\* A recording the metrics have counted as finished is out of the maps for
\* good, and until its UPDATE has been issued exactly the task that finished
\* it holds it, with its row still open: no recording is finalized twice,
\* resumed after its end or given a second end_ts, whatever the health
\* checker, the timeouts and the events do at the same time.
FinalizedOnce ==
  \A r \in finished :
    /\ r \notin Written \cup PausedNow
    /\ \A t \in Tasks : r \in held[t] => pc[t] = "update" /\ row[r] = "open"

\* What is written or paused under an SSRC or a user is a recording of that
\* user, with a row in the database, and never one of a bot.
RecordsItsUser ==
  /\ \A s \in Ssrcs :
       writers[s] # NoRec => /\ RecUser[writers[s]] = SsrcUser[s]
                             /\ row[writers[s]] = "open"
  /\ \A u \in Users :
       paused[u].rec # NoRec => /\ RecUser[paused[u].rec] = u
                                /\ row[paused[u].rec] = "open"
  /\ \A r \in Recs : RecUser[r] \in Bots => row[r] = "none"

\* A parked recording always has the timeout that ends its wait: the task of
\* its very token sleeps and will look at that user, or the event task is
\* still on its way to spawn it.  A timeout of an older pause cannot do.
PausedHasTimeout ==
  \A u \in Users :
    paused[u].rec # NoRec =>
      LET k == paused[u].token IN
      \/ /\ pc[Rejoin(k)] = "armed"
         /\ SsrcUser[at[Rejoin(k)]] = u
      \/ /\ k = nextToken - 1
         /\ pc[Event] = "schedule"
         /\ SsrcUser[at[Event]] = u

\* A user is never mapped to an SSRC and paused at once, nor paused when his
\* recording is about to be parked: the branch of pause_recording_for_rejoin
\* that replaces a paused recording, and closes it, is never taken.
NoPauseIsReplaced ==
  \A u \in Users : paused[u].rec # NoRec =>
    /\ userSsrc[u] = NoSsrc
    /\ pc[Event] \in {"detach", "park"} => SsrcUser[at[Event]] # u

\* While disconnected_at_ms is set the timeout of that very outage sleeps, or the
\* event task is on its way from recording the time to spawning it: an outage
\* cannot suspend the recordings and the health checker for ever, however many
\* timeouts of older outages still sleep.
OutageHasTimeout ==
  disconnectedAt # 0 =>
    \/ pc[Outage(disconnectedAt)] = "armed"
    \/ pc[Event] = "suspend" /\ disconnectedAt = outages

\* When the event task closes a session after an intentional disconnect no
\* recording is left in the maps when it starts clearing them, although the
\* writers were collected long before and other tasks ran meanwhile.
FinalCloseLeavesNothing ==
  pc[Event] \in {"clear_users", "clear_paused"} => Written \cup PausedNow = {}

\* The row of a recording changes only when it is opened, by the event task,
\* and when the task that finished it closes it; a closed row stays closed.
RowsOpenAndCloseOnce ==
  [][\A r \in Recs : row'[r] # row[r] =>
       \/ row[r] = "none" /\ row'[r] = "open" /\ pc[Event] = "create"
       \/ /\ row[r] = "open" /\ row'[r] = "closed"
          /\ r \in finished /\ r \notin Reachable']_vars

\* A pause ends early only with the session or the user's return: no timeout
\* task but its own ever takes it, however many older ones still sleep.
PauseEndedByItsOwn ==
  [][\A u \in Users :
       LET k == paused[u].token IN
       k # 0 /\ paused'[u].token # k =>
         \E t \in Closers \cup {Rejoin(k)} : pc'[t] # pc[t]]_vars

\* An outage ends early only with an event: no timeout task but its own ever
\* ends it, even if an older one wakes up during it.
OutageEndedByItsOwn ==
  [][disconnectedAt # 0 /\ disconnectedAt' # disconnectedAt =>
       \E t \in {Event, Outage(disconnectedAt)} : pc'[t] # pc[t]]_vars

\* A paused recording is resumed, or closed by its timeout.
PauseEnds ==
  \A k \in 1..MaxPauses :
    (\E u \in Users : paused[u].token = k) ~> (\A u \in Users : paused[u].token # k)
====
