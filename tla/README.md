# FBI-agent: a TLA+ model of the recording bot

FBI-agent is a Discord bot that records the people in a voice channel, one Ogg
file and one row of `audio_files` per recording, and is deployed by draining
one process while another takes over. This directory models the parts of it
whose correctness depends on the order in which tasks, timeouts, requests and
failures meet. `PROJECT.json` maps every definition to the lines it models,
lists the hazards of the code, and names the TLC runs and the theorems.

## The system

| Part | State | Operations | Meets |
|---|---|---|---|
| Voice receiver (`events/voice_receiver.rs`) | maps user→SSRC, SSRC→writer, user→paused recording, bots; `disconnected_at_ms`; `audio_files` rows | speaking update, client disconnect, driver (dis)connect; health checker, rejoin and outage timeouts, row heartbeat | songbird events, the gateway cache, the database, metrics |
| Voice session (`events/voice.rs`) | songbird's calls, `active_voice_connections` | connect (fresh, rejoin, switch), leave, debounced leave, routing by lease | receiver, leases, drain flag |
| Ogg writer (`events/ogg_opus_writer.rs`) | granule, finished | write packet, write silence, finish | receiver |
| Leases and instances (`deployment.rs`, migrations) | `voice_session_leases`, `bot_instances` | upsert, heartbeat, claim, release, owner query, mark stopped | other instances through the database |
| Runtime state (`runtime.rs`) | three atomic flags, a `Notify` | `start_drain`, `force_shutdown`, `changed` | admin service, shutdown task, connects, heartbeat |
| Shutdown (`main.rs`) | the shutdown task, the joins of main | wait, drain, stop shards and server, mark stopped | runtime state, calls, gRPC server |
| Admin service (`grpc/admin.rs`) | none of its own | start drain, shutdown when empty, force shutdown, status | runtime state, heartbeat, deploy scripts |
| Dashboard (`grpc/dashboard.rs`, `grpc/snapshot.rs`) | subscriptions, stream count | stream, subscribe, disconnect voice | metrics, songbird, server shutdown |
| Reaper (`reaper.rs`) | rows | close rows without a fresh owner at startup | instances, heartbeats |
| Cooldown (`cooldown.rs`), stamps (`commands/stamp.rs`), user names (`database/user_names.rs`) | a map; rows | check and record | interactions |
| Interactions, gateway handlers, guild/role/channel rows, metrics, telemetry, config | counters, upserts | dispatch, formatting | all of the above |

What is hard: several tasks share the receiver's maps and each await lets the
others in; timers carry a token of the moment they were set, and wake up much
later; a process can be told to drain, to exit and to stop at once by requests,
a signal and its own shutdown task; checks of a flag or of a lease are acted on
after further awaits; the database may refuse any statement and the code goes
on; two instances share the database.

What makes each part correct:

- *Receiver*: a recording has one owner, ends once, belongs to its user, and is
  never left behind; a pause or an outage ends only by an event or its own timer.
- *Runtime state and shutdown*: flags appear in order, an armed process exits
  when it has no call, a drain ends by force, deadline or emptiness and takes
  no new call, and the instance row says so.
- *Sessions and leases*: a live instance's guild is not taken over but by a
  race, each event is handled once, the bot leaves an empty channel and is where
  the people are.
- *Rows*: whoever ends a row may do so, a written length stays, and nothing that
  is over looks live for ever.
- *Ogg writer*: a file is as long as the time it stands for, its row says so,
  and it is complete once closed.
- *Presence and dashboard*: rows and gauges follow the gateway, and a subscribed
  client sees the last of it.
- *Cooldowns*: admitted requests keep their distance, and who waits as told is
  not refused.

## Modules

| Module | What it is |
|---|---|
| `VoiceReceiver` | the receiver of one session: its maps, tasks and rows |
| `RecordingBook` | what it promises of a recording: an abstract ledger |
| `VoiceReceiverBook` | the refinement mapping from the first to the second |
| `OggTimeline` | one recording in time: frames, padding, close times, the file |
| `VoiceSession` | who is in voice for a guild: handlers, calls, the lease, several instances |
| `VoicePresence` | timeline rows, presence gauges, start times, and a dashboard stream |
| `RecordingRows` | rows and files over crashes, restarts, the reaper and the deploy script |
| `Cooldowns` | the cooldown of jams and the one of stamps |
| `RuntimeDrain` | flags, shutdown task, admin requests, heartbeat, and the calls a drain waits for |
| `MCVoiceReceiver`, `MCOggTimeline`, `MCVoiceSession`, `MCVoicePresence`, `MCRecordingRows`, `MCCooldowns`, `MCRuntimeDrain` | instances for TLC |
| `VoiceReceiver_proofs` | types, who owns a recording and its row, outages and pauses with their timeouts |
| `VoiceReceiverBook_proofs` | the refinement of the ledger, and that a closed session leaves nothing |
| `OggTimeline_proofs` | types, how long a file and its row are, and that the file is whole |
| `VoiceSession_proofs` | types, who takes a lease over and who handles an event |
| `VoicePresence_proofs` | types, that the rows replay, the gauges follow and no update is missed |
| `RecordingRows_proofs` | types, who ends a row and what stays of it |
| `Cooldowns_proofs` | types, that the distance is kept and a told wait suffices |
| `RuntimeDrain_proofs` | types, the order of the flags, and that a drain only loses calls |

The modules cut the program where its parts meet through little: a recording is
a member of a set in `VoiceReceiver` (whose it is), a file with a length in
`OggTimeline`, and a row with an owner and a heartbeat in `RecordingRows`; a
Call is what a drain counts in `RuntimeDrain` and what a handler enters, joins
and removes in `VoiceSession`.

Definitions that differ from a mapped one by a plausible mistake
(`TakeWriterByReference`, `CountAnyway`, `LookNowhere`, ...) stand before it and
are used by no specification: each shows that a property notices the mistake.

### VoiceReceiver

songbird delivers the events of one receiver one after the other, so they are
one task (`Event`); the health checker, one timeout per recoverable disconnect
and one per pause run beside it. `pc[t]` is the await a task is at, and each
action is what runs between two awaits another task can observe. `userSsrc`,
`writers`, `paused`, `botSsrcs` and `botUser` are the maps; `held[t]` is the
recordings a task has taken out of them, `todo[t]` the SSRCs of a snapshot it
loops over. An outage is recorded by `RecoverableDisconnect` and gets its
timeout only from `ScheduleOutage`, after the event task has awaited the user
map and one INSERT per user (`voice_receiver.rs:530-557`); in between, at
`suspend`, the health checker holds back already and nothing is timed. `row` is `end_ts` of `audio_files` (no row, NULL, set) and
`started`/`finished` are what the metrics have counted. `disconnectedAt` is the
atomic `disconnected_at_ms`, with the number of the outage for the time.

`ssrc_writer_hashmap` stays locked across one await, the one inside
`create_path`; `WritersFree` is that lock. An SSRC is handed to one user and
never reused for another: the voice server does that, and the code relies on it
(`voice_receiver.rs:265-289` would move a recording otherwise). No voice event
arrives while the driver is disconnected. What the gateway cache shows is an
arbitrary choice, since the gateway changes it at any moment.

Not in it: `VoiceTick` and the padding with silence (they move no recording
between maps; see `OggTimeline`), the row heartbeat (`RecordingRows`), the rows
that mark pauses and resumes, the audit log, and the end of a receiver by
`remove_all_global_events` (`VoiceSession`).

### RecordingBook and VoiceReceiverBook

`RecordingBook` knows a recording only by its stage: none, recording, paused,
closing, finished, closed, lost. `Stage(r)` of `VoiceReceiverBook` reads it off
the row, the map or the task that has the recording, and `BookSpec` says that
every step of every task is a step of the ledger or leaves it alone. Where the
code loses a recording the ledger has a step of its own, so that it says exactly
when that can happen: `Fail` (no file), `Unended` (the UPDATE failed), `Forget`
(paused when the receiver was cleared) and `Displace` (another recording of the
same user took its SSRC). A run checks the refinement on one user;
`LedgerKept` proves it for any number.

### RuntimeDrain

The runtime has several threads, so each atomic operation and each statement is
a step. `flags` holds the names of the flags that are set, `waiter` the state of
the shutdown task's `Notified`. Each request of the admin service runs
`SwapDraining`, `Arm`, `NotifyWaiters` (and `SetForce`, `NotifyAgain`) and then
the heartbeat; the shutdown task runs the same `start_drain`. A heartbeat binds
the role (`ReadRole`) before its statement runs (`Upsert`). A connect looks at
the flag, then at the lease, and only then inserts its call. `signal` is SIGTERM
or ctrl-c while the shutdown task listens. The gRPC server's graceful stop
waits for requests and open streams (`JoinServer`). tokio, tonic, songbird and
Discord appear only through these effects.

Not in it: the leases (`VoiceSession`), `drain_started_at`, the start of main, the two arguments
role and state of an upsert being read one after the other (only `state` is
kept), the non-unix wait, and a SIGTERM handler that cannot be registered
(`main.rs:278-282`): the process then waits for one notification and drains on
it, whatever it was.

### OggTimeline

One recording is followed from its first packet to the end of its file. Time is
counted in units of which `Frame` make a frame of 20 ms, so that the rounding of
`silence_frames_for_gap_ms` shows. songbird's `driver` produces ticks, leaves,
disconnects and reconnects into `queue`; the event task takes them out at most
`MaxLag` later. `place` is the map or the hands the recording is in, `writer`
the granule, the pages written, those on the disk, and whether it was finished
or a write failed; `row.length` is `end_ts - start_ts`, `row.cut` remembers a
close during an outage the file was not padded for. `write_packet` counts a
frame before it writes it, so that a failure leaves the granule one ahead
(`CutShort`); a single frame that fails is counted, and the lengths are right
with it, so `writer.broken` is set only when frames after it are missing. `finish`
may fail, `drop` tries it again (`Retried`) and then the buffer is flushed
(`Flushed`); `writer.lost` is set only by an error that strikes then. The health
checker looks for an outage once and takes the recording after two awaits, so
`HealthCloses` has no guard on it. Not in it: the bytes of pages and headers.

`Behind` and `Ahead` bound how far file and clock may be apart, and grow with the
number of gaps: a leave may be handled `MaxLag` late, the silence of a gap is
rounded to whole frames, and the first frame after it comes up to a frame later.
A bound without the lag of each gap is too small: it holds with frames of two
units and lag 1 and is violated with four and 2.

### VoiceSession

Every instance is sent every event of the guild and runs a task for each;
`task[i][e].pc` is the query or the await of songbird it is at. `Route` is the
lease query that decides whether to handle the event, `Check` and `Lookup` what
`connect_to_voice_channel` reads, `Enter` the Call it makes, rejoins or
switches, `JoinSucceeds`/`JoinFails`, `Claim` and `CleanUp` what follows;
`ScheduleLeave`, `Recheck`, `Leave`, `Remove`, `Release` are the debounced
leave. Reading the members of a channel may fail: then nothing comes of the
event (`CannotDecide`), or the pending leave is cancelled for good
(`CannotRecheck`); `blind` remembers for which events. A claim or a release may
fail and is only logged. `Exit` is the end of a drain, with calls and tasks under
way too, since the deadline and force do not wait for them. `call` is songbird's Call with its channel and whether a receiver is
registered, `count` is `active_voice_connections`, as an integer so that it may
be seen below zero, `lease` and `fresh` are the rows. songbird joins, Discord
disconnects, a dashboard disconnects, a process drains, ends, crashes or starts.
Not in it: clips, the text of replies, bots other than this one.

### VoicePresence

An event has the old and the new voice state; its task asks for the owner of the
lease and goes on (`Take`) or does nothing at all (`Skip`), inserts the rows of
`RowsOf` one by one (none for a bot, each may fail), wakes the dashboard
(`Announce`), and then writes the gauge and the start time (`Track`), as
`voice_state_update` does. Whoever is in voice when the process starts is in the
cache, and has neither row nor gauge nor start time: `guild_create` does nothing.
`missed` is the members who came unseen or had an event skipped since they came,
`lost` those with a failed INSERT since then. Which events are skipped is an
arbitrary choice here (`VoiceSession` has the lease). The stream borrows its topic, reads the times, builds and sends a message and waits
in a select: `dirty` is the set of watch channels that changed since it last
looked, and `Tick` its five seconds. Not in it: what else a message carries, and a
cache that is filled anew under a running process, by the GUILD_CREATE of a new
gateway session.

### RecordingRows

`rec[r]` is what the process does that makes the recording, `row[r]` how its
row ends (`end_ts` NULL, equal to `start_ts`, or with the length) and whether
its heartbeat is recent or older than 120 seconds. A process that starts selects
the zombies, deletes their files if `REAPER_PURGE` says so, sweeps their rows,
and only then registers; it may be forced, close its rows and mark itself
stopped, or crash at any point. The time assumption of the code is one of the
model: a process that runs renews its heartbeats within 120 seconds.

### Cooldowns

One member's entry of `JamCooldown`, and one member's stamps. Each statement and
each reading of the clock or of the map is a step, and requests overlap as they
like. A request remembers who had been answered before it asked (`before`); the
properties are about those. The map of `JamCooldown` belongs to one process: after
a restart, or on another instance, a member starts afresh, and the properties
speak of one process; stamps are rows and shared. Not in it: other keys, and what an admitted request
goes on to do.

## Runs

| Run | Bounds | Shows |
|---|---|---|
| `receiver_one_user` | 1 user, 2 SSRCs, 2 recordings, 1 pause, 1 outage, faults | `TypeOK`, `SingleOwner`, `FinalCloseLeavesNothing`, `BookSpec` |
| `receiver_pauses` | 1 user with 1 SSRC and recording, a bot with 2 SSRCs, 2 pauses, 2 outages, fair, no faults | `RecordsItsUser`, `PausedHasTimeout`, `NoPauseIsReplaced`, `OutageHasTimeout`, `PauseEndedByItsOwn`, `OutageEndedByItsOwn`, `PauseEnds` |
| `ogg` | 2 units a frame, 11 units, 2 gaps, lag 1, buffer of 2 pages, faults | `TypeOK`, `AudioKeepsUp`, `RowMatchesFile`, `ClosedFileIsComplete` |
| `sessions` | 2 instances, 1 human, 1 channel, 2 events, 1 start, 1 crash, failing joins and lease statements | `TypeOK`, `TakeoverOnlyByRace`, `HandledByOne` |
| `sessions_leave` | 1 instance, 2 humans, 2 channels, 3 events, 1 kick or dashboard disconnect, failing queries, lease statements and inspections, fair | `EmptyIsLeft`, `EnteredIsJoined` |
| `sessions_afk` | 1 human, 2 channels, one of them for AFK, 3 events, fair | violates `EmptyIsLeft` |
| `rows` | 2 instances, 2 recordings, 1 start, 1 crash, both reaper modes, faults, fair | `TypeOK`, `FinishedStays`, `EndsOnlyWithOwner`, `OverGoesDark` |
| `presence` | 1 member, 2 channels, 1 flag, 3 events, no client | `TimelineReplays`, `PresenceFollows` |
| `presence_stream` | 1 member, 1 channel, 2 events, 2 messages of the client, fair | `TypeOK`, `ViewerSeesStates`, `ViewerSeesTimes`, `StreamEnds` |
| `cooldowns` | 3 requests, seconds of 2 units, 4 units, limits 1 and 2 s, 1 edit, faults | `TypeOK`, `CooldownKept`, `WaitIsEnough` |
| `drain` | 1 request, 1 connect, 1 guild, 1 stream, faults, fair | `TypeOK`, `FlagsInOrder`, `DrainOnlyLosesCalls`, `SignalEndsDrain`, `ForceEndsDrain`, `DrainIsPublished` |
| `drain_armed` | 1 request, fair | violates `ArmedExits` |

The bounds let each interesting thing happen twice where it can clash with
itself. Two SSRCs let a user be remapped under the health checker; two pauses
let an old timeout wake up during a newer pause, and two outages let the timeout of
the first wake up in the window and in the course of the second; a request and the
signal's shutdown task run `start_drain` inside each other; two gaps let an outage
begin in a pause or end in one, and 11 units are two timeouts of 4 with a frame
around each; three events are a human
who comes, goes and comes back while the bot waits to leave; two instances and
one start are an old and a new release, or a crash and a restart under one id;
three requests are the least with which an overlapping one can spoil what two
others see; three voice events are the least with which a member can spoil his
timeline, leave, and come again. In `receiver_one_user` one outage suffices for a
timeout to race a reconnect and to clear what was parked after it. Without a
client the stream does not multiply the states of `presence`; the stream needs
but one channel, since it sends whole states. Recordings of different users never
mixing is proved for any number of users (`RecordsItsUserHolds`); the run adds the
bot. `Recs` bounds how often a user is recorded; a speaking update beyond it is
dropped as a failed member lookup is. `MaxPauses`, `MaxOutages`, `MaxGaps`,
`MaxEvents`, `MaxKicks`, `MaxStarts`, `MaxCrashes`, `MaxAsks`, `MaxEdits` stop
the world from doing a thing once more, `MaxTime` the clock. `cooldowns` declares
its requests symmetric, and checks no liveness. The
deadlock check is off where the process, the recording or the requests do end.

The two violated properties are findings:

- *The AFK channel.* A channel is seen to be empty only when somebody leaves
  voice, and the channel looked at is the one he left. If the last human moves to
  the AFK channel the bot neither follows nor notices, and when he disconnects
  from there it is the AFK channel that is looked at: the bot stays alone.
- *A `shutdown_when_empty` between the check and the registration* with the
  `Notify` is not heard; without another notification or a signal the armed
  process never exits.

### What the models show besides

The properties are stated so that they hold of the code; building them showed
what has to be left out of them.

- A failed creation leaves the user mapped, and "Writer already active"
  (`voice_receiver.rs:261`) answers every later speaking update of that SSRC.
- The gauge of active recordings is raised (`voice_receiver.rs:398`) after the
  recording can be finalized, and may wrap for a moment.
- A recording parked after a reconnect is dropped by the clear of an outage
  timeout that had already drained the pauses: `Forget` in `RecordingBook`.
- A user whose entry was removed by the health checker may start a second
  recording under another SSRC while the first is still in the map; if he then
  comes back under the old SSRC the first is overwritten (`voice_receiver.rs:268`)
  and its row stays open: `Displace`.
- `disconnected_at_ms` is cleared before the writers are padded, so the health
  checker may close a recording that lacks its padding; a row closed by the
  outage timeout counts the outage, the file does not (`row.cut`).
- Between the recording of an outage and the spawn of its timeout the event task
  awaits the database once per user; until then nothing times the outage, and the
  health checker already holds back: how long an outage lasts rests on those
  INSERTs ending.
- The comment that pages are flushed as they are written
  (`ogg_opus_writer.rs:86`) does not hold of the `BufWriter` beneath: a crash
  loses what it holds.
- A connect that looked at the draining flag before it was set inserts its Call
  after the drain has counted none ("drain complete; shutting down shards").
- Overlapping handlers of one guild: a switch or a rejoin racing a leave makes a
  Call without a receiver; the clean-up of a join that was superseded removes the
  newer Call (`voice.rs:783`); a leave that was decided before a human came back
  still removes the Call; a `Release` that comes late deletes the newer claim of
  its instance; a failed join and `disconnect_voice` leave the count too high.
- An inspection that fails when the re-check wakes up cancels the leave for good
  (`voice.rs:547`), and one that fails when the last human leaves schedules none
  (`voice.rs:454`): the bot stays alone. `EmptyIsLeft` leaves out the channel whose
  last leaver met that failure.
- A claim that fails after a join leaves the bot recording without a lease: the
  guild looks free to another instance, which may join too. While a lease changes
  hands two instances, or none, may handle an event; `HandledByOne` is about the
  others.
- With people in two channels the bot follows the larger group and may leave a
  channel somebody is still in, unrecorded.
- Rows and gauges of two voice states of one member, handled side by side, may
  land in the wrong order; nothing puts them right until his next event. A member
  in voice when the process started, one of whom an event was skipped, and one of
  whom an INSERT failed, are told wrongly until he comes again.
- A finished recording keeps its length, but a reaper that selected its row before
  may still delete its file.
- A jam that overlaps another may put its older time over the newer one
  (`cooldown.rs:59`), and a third is then admitted early; `CooldownKept` asks that
  the earlier jam was alone.

### Fairness

`VoiceReceiver`: the event task, once it has parked a recording, goes on to spawn
its timeout, which lies one INSERT further on (`voice_receiver.rs:723-738`), and
the sleep of a timeout ends. Nothing is asked of songbird's events, of the health
checker's interval, of any other await, nor of what a timeout goes on to close: a
pause ends by its timer alone.

`VoiceSession`: the tasks of a running instance go on, their joins and queries
answer and their debounce ends. Nothing is asked of people, Discord or deploys.

`RecordingRows`: the database clock runs, and a heartbeat that has its names is
sent. Finalizations, reapers and processes may stop where they are.

`VoicePresence`: handlers and the stream go on; the five-second tick is assumed
only where a property says so (`ViewerSeesTimes`), since the others hold by the
watch channels alone. `presence` checks safety and has no fairness.

`RuntimeDrain`: weak fairness of the shutdown task, the heartbeat, each request
and each connect while the process runs, and of the deadline's clock; strong
fairness of a heartbeat's statement succeeding, that is, the database does not
refuse every one (without it nothing could be published). Nothing is asked of
clients, signals, the people in a channel or the gateway: a call may stay for
ever, which is why `ForceEndsDrain` and the deadline in `SignalEndsDrain`
matter.

## Proofs

Every invariant, every action property and the refinement that the runs check is
proved; what the runs keep to themselves is liveness.

All theorems hold for every value of the constants under the assumptions
declared beside them: kinds of tasks that are disjoint, null values outside the
sets they are joined to (among them `NoRowAssumption`), bounds that are natural
numbers, units of time that are not zero (`TimeAssumption`,
`CooldownAssumption`), and the one assumption on the world, that an SSRC has one
user (`SsrcAssumption`). Two theorems of `VoiceSession` have a hypothesis of
their own, `~QueryErrors`: a lease query that fails lets a connect or a handler
through, since the callers of `active_lease_owner` warn and go on
(`voice.rs:430`, `voice.rs:678`), so with failing queries neither of them is
claimed.

- `TypeCorrect`: `TypeOK` alone is not inductive, because a task's `at` and
  `held` are used as arguments of the maps. `VoiceReceiver_proofs` strengthens
  it with what the locals of a task contain at each label.
- `SingleOwnerHolds`, `FinalizedOnceHolds`, `RecordsItsUserHolds`,
  `RowsOpenAndCloseOnceHolds` follow from `IInv`, a conjunction of named parts:
  the maps are disjoint and injective (`MapsDisjoint`), a held recording is in
  no map and in no other hand (`HeldAlone`), everything in a map or on its way
  into one is open and unfinished (`MapsOpen`, `HeldOpen`, `CarriedOpen`,
  `RowsOpen`), and each recording belongs to the user of its place. `SingleOwner`
  needs them all: a task could otherwise put back into a map what another still
  holds. `IInv` was first checked by TLC on the bounded instances.
- `OutageHasTimeoutHolds`, `PausedHasTimeoutHolds`, `NoPauseIsReplacedHolds`:
  tokens and outage numbers only grow, so the timeout task of the current one is
  still asleep or about to be spawned, and a user is mapped or paused, never both
  (`NotPausedInv`, `TimeoutInv`). `OutageEndedByItsOwnHolds` follows from the steps.
- `FlagsInOrderHolds` needs `PlaceInOrder`: that a task has set one flag before
  the next is known only from the place it has reached. `DrainTypeCorrect` needs
  that a connect under way knows its guild (`ConnectsHaveGuild`).
  `DrainOnlyLosesCallsHolds` follows from the steps and the types.

- `LedgerKept` (`Spec => BookSpec`), `FinalCloseLeavesNothingHolds`: `IInv` says
  where a recording is, not what a task is about to do with it. `HandsInv` adds
  that only the labels that resume, park or close have something in their hands,
  and one recording at a time; `ClaimedInv` that the SSRC a writer is created for
  is free; `ClosingInv` that a closing event task has collected every writer
  there is. Each action is then one step of the ledger or a stutter, by cases on
  the place of the recording it moves. `FinalizedOnceHolds` and
  `RowsOpenAndCloseOnceHolds` are the part of the ledger the refinement rests on.
- `PauseEndedByItsOwnHolds` follows from the steps and `TimeoutInv`.
- `RowsTypeCorrect`, `FinishedStaysHolds`, `EndsOnlyWithOwnerHolds`: `WorkInv` says
  that a running process looks alive, so do its rows, and that a zombie once
  selected (`SeenInv`) never comes to be recorded by a process at work, however
  long the reaper takes to delete it.
- `TakeoverOnlyByRaceHolds` needs that whoever was let past the lease finds it
  free or its own, or was overtaken since (`RacedInv`); `HandledByOneHolds` that
  routing has put each instance where the lease says, as long as nothing that
  decides it has changed (`SettledInv`).
- `CooldownKeptHolds`, `WaitIsEnoughHolds`: `CooldownsInv` relates the entry of
  the jams and the stamps to those that were admitted (`TablesInv`), and what a
  request has read to what the table holds when it is answered; an overlapping
  jam is why the entry bounds only those that were alone.
- `ClosedFileIsCompleteHolds`: `TaskInv` of `OggTimeline_proofs` says that nobody writes
  to a file that is gone, and a drop leaves it whole or lost.
- `AudioKeepsUpHolds`, `RowMatchesFileHolds`: `OggInv` says which events wait in
  the queue and how far apart (`QueueInv`), what the event task has done of the
  first of them (`TaskInv`), and relates the file not to the clock but to the
  moment up to which ticks have been handled (`FrontInv`). The distance of that
  moment from the clock is the lag, and each gap handled adds one rounding; a gap
  still in the queue has not been paid for (`Waiting <= gaps`).
- `PresenceFollowsHolds`, `TimelineReplaysHolds`: while tasks for a member do not
  overlap at most one is at work, for his last event; for whoever is neither in
  `missed` nor, for the rows, in `lost`, the metrics are those of
  the state before it (`KeptInv`), and his rows with those it has still to insert
  replay to the state after it (`ReplayInv`). The lemmas on sequences say that of
  two timelines one after the other the later decides, if it says anything
  (`PlaceBehind`, `ToldBehind`), and that `Rising` exists and names each flag once
  (`RisingIs`), by a least counterexample.
- `NoUpdateMissedHolds`: a stream that waits with nothing unseen has sent the state
  of each member whose events are all announced and none skipped.
  This is the safety behind `ViewerSeesStates`, and no run checks it by itself. It
  needs the same of what is built but not yet sent (`BuiltInv`), unless a change
  came meanwhile, which is then unseen or still to be announced.

Only model-checked: the liveness properties (`PauseEnds`, `EmptyIsLeft`, `EnteredIsJoined`,
`OverGoesDark`, `ViewerSeesStates`, `ViewerSeesTimes`, `StreamEnds`,
`SignalEndsDrain`, `ForceEndsDrain`, `DrainIsPublished`), since the prover handles
neither fairness nor ENABLED.

## Plan

1. The safety part of the liveness arguments, as action properties that can be
   proved: what the state a timer or a drain waits for may not do meanwhile.
2. `OggTimeline` and `RecordingRows` joined: a row that a crash left open, with
   the file the buffer had on disk.

## Not modelled

- User names (`database/user_names.rs`): a read and then writes of rows that only
  the web UI reads; two observations of one user may both append history.
- `get_metrics`, playing clips, the queue of songbird, guild, role and channel
  rows, gateway handlers that only upsert or log, configuration, paths,
  formatting, metrics without readers, and the audio itself.
