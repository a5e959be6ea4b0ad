---- MODULE OggTimeline ----
(***************************************************************************)
(* The time line of one recording: how the frames of its Ogg file          *)
(* (src/src/events/ogg_opus_writer.rs) keep up with the clock while the    *)
(* receiver (src/src/events/voice_receiver.rs) writes a frame per tick,    *)
(* pads the gaps of pauses and outages with silence, and closes the row.   *)
(*                                                                         *)
(* Time is counted in units of which Frame make one 20 ms frame, so that   *)
(* the rounding of silence_frames_for_gap_ms can be seen.  songbird queues *)
(* its events and hands them over one by one: the event task runs behind   *)
(* the driver, by at most MaxLag.  Which recording a task holds, and who   *)
(* else may take it, is the matter of VoiceReceiver; here one recording is *)
(* followed, from the speaking update that starts it to the end of its     *)
(* file, and a speaking update after that starts no other.                 *)
(***************************************************************************)
EXTENDS Integers, Sequences, FiniteSets

CONSTANTS
  Frame,        \* time units in a frame: 2 makes a unit 10 ms
  RejoinAfter,  \* USER_REJOIN_RESUME_TIMEOUT_MS
  OutageAfter,  \* RECOVERABLE_DISCONNECT_TIMEOUT_MS
  Buffer,       \* pages a BufWriter holds back
  MaxLag,       \* bound: how long an event of the driver waits to be handled
  MaxTime,      \* bound: how long the clock runs
  MaxGaps,      \* bound: how often the user leaves and the driver drops
  Faults        \* may a write to the file, or the statement, fail?

ASSUME TimeAssumption ==
  /\ Frame \in Nat \ {0} /\ Buffer \in Nat \ {0}
  /\ {RejoinAfter, OutageAfter, MaxLag, MaxTime, MaxGaps} \subseteq Nat
  /\ Frame <= MaxTime
  /\ Faults \in BOOLEAN

VARIABLES
  now,            \* the clock
  driver,         \* songbird: [up, present] the driver and the user, as it sees them
  queue,          \* songbird: the events not yet handled, with their times
  gaps,           \* songbird: how often the user left and the driver dropped
  task,           \* the event task: where it is, and the gap it is padding
  place,          \* where the recording is
  start,          \* UserRecording.start_time
  pausedAt,       \* PausedRecording.paused_at, 0 when it is not paused
  disconnectedAt, \* disconnected_at_ms, 0 when there is no outage
  writer,         \* the OggOpusWriter and its BufWriter
  closing,        \* the close time its owner finalizes it with, or 0
  row             \* audio_files: [open, length, cut]

vars == <<now, driver, queue, gaps, task, place, start, pausedAt,
          disconnectedAt, writer, closing, row>>
world == <<now, driver, queue, gaps>>

Idle  == [at |-> "idle", frames |-> 0, time |-> 0]
Fresh == [granule |-> 0, pages |-> 0, disk |-> 0, finished |-> FALSE,
          broken |-> FALSE, lost |-> FALSE]

Init ==
  /\ now \in 1..Frame
  /\ driver = [up |-> TRUE, present |-> TRUE]
  /\ queue = <<[kind |-> "speak", at |-> now]>>
  /\ gaps = 0
  /\ task = Idle
  /\ place = "none"
  /\ start = 0 /\ pausedAt = 0 /\ disconnectedAt = 0 /\ closing = 0
  /\ writer = Fresh
  /\ row = [open |-> FALSE, length |-> 0, cut |-> FALSE]

----
(***************************************************************************)
(* songbird: a tick for each frame while it is connected, and what happens *)
(* to the user and to the connection.                                      *)
(***************************************************************************)
\* Bound: nothing new happens to a recording somebody has taken to close it, or
\* whose file had an error; what is queued or begun then is still handled.
Followed == place \in {"none", "active", "paused"} /\ ~writer.broken

Emit(kind, time) == Append(queue, [kind |-> kind, at |-> time])

OnTime == queue # << >> => now < Head(queue).at + MaxLag

Elapse ==
  /\ now < MaxTime /\ Followed
  /\ OnTime
  /\ now' = now + 1
  /\ queue' = IF driver.up /\ now' % Frame = 0 THEN Emit("tick", now') ELSE queue
  /\ UNCHANGED <<driver, gaps, task, place, start, pausedAt, disconnectedAt, writer, closing, row>>

Happens(kind) ==
  /\ Followed
  /\ queue' = Emit(kind, now)
  /\ UNCHANGED <<now, task, place, start, pausedAt, disconnectedAt, writer, closing, row>>

Speaks ==
  /\ driver.up /\ ~driver.present
  /\ driver' = [driver EXCEPT !.present = TRUE]
  /\ Happens("speak") /\ UNCHANGED gaps

Leaves ==
  /\ driver.up /\ driver.present /\ gaps < MaxGaps
  /\ driver' = [driver EXCEPT !.present = FALSE]
  /\ gaps' = gaps + 1
  /\ Happens("leave")

Drops ==
  /\ driver.up /\ gaps < MaxGaps
  /\ driver' = [driver EXCEPT !.up = FALSE]
  /\ gaps' = gaps + 1
  /\ Happens("down")

Returns ==
  /\ ~driver.up
  /\ driver' = [driver EXCEPT !.up = TRUE]
  /\ Happens("up") /\ UNCHANGED gaps

----
(***************************************************************************)
(* The writer.  A page goes to the buffer, and the buffer to the file when *)
(* the next page does not fit; an error may strike at any page.            *)
(***************************************************************************)
OnDisk(w, pages) ==
  LET held == pages - w.disk
  IN  IF held = 0 THEN w.disk ELSE w.disk + Buffer * ((held - 1) \div Buffer)

Appended(w, n) ==
  [w EXCEPT !.granule = @ + n, !.pages = @ + n, !.disk = OnDisk(w, w.pages + n)]

\* write_packet counts the frame before it writes it, write_silence stops at
\* the first error: of n frames k are written and one more is counted.  The time
\* line is broken if there are frames after it.
CutShort(w, n) ==
  {[Appended(w, k) EXCEPT !.granule = @ + 1, !.broken = @ \/ k + 1 < n] :
     k \in 0..(IF Faults THEN n ELSE 0) - 1}

\* The outcomes of writing n frames.
Written(w, n) == IF w.finished THEN {w} ELSE {Appended(w, n)} \cup CutShort(w, n)

\* finish: idempotent, and not finished when the page cannot be written.
Finished(w) == {[w EXCEPT !.finished = TRUE]} \cup (IF Faults THEN {w} ELSE {})

SilenceFrames(gap) == IF gap <= 0 THEN 0 ELSE (gap + Frame - 1) \div Frame

----
(***************************************************************************)
(* The event task.                                                         *)
(***************************************************************************)
Handles(kind) == task = Idle /\ queue # << >> /\ Head(queue).kind = kind
Done          == queue' = Tail(queue) /\ task' = Idle
Busy(t)       == task' = t /\ UNCHANGED queue
Timeless      == UNCHANGED <<now, driver, gaps>>

\* The first speaking update: start_time is read before the row and the file
\* are made, the writer is in the map after them.
Create ==
  /\ Handles("speak") /\ place = "none"
  /\ start' = now
  /\ row' = [row EXCEPT !.open = TRUE]
  /\ Busy([Idle EXCEPT !.at = "creating"])
  /\ Timeless /\ UNCHANGED <<place, pausedAt, disconnectedAt, writer, closing>>

Created ==
  /\ task.at = "creating"
  /\ place' = "active"
  /\ Done
  /\ Timeless /\ UNCHANGED <<start, pausedAt, disconnectedAt, writer, closing, row>>

\* A speaking update of a paused user: the pause is padded in one go.
Resume ==
  /\ Handles("speak") /\ place = "paused"
  /\ writer' \in Written(writer, SilenceFrames(now - pausedAt))
  /\ place' = "active" /\ pausedAt' = 0
  /\ Done
  /\ Timeless /\ UNCHANGED <<start, disconnectedAt, closing, row>>

\* Nothing to do: the writer is active, or the recording has ended.
SpeakIgnored ==
  /\ Handles("speak") /\ place \notin {"none", "paused"}
  /\ Done
  /\ Timeless /\ UNCHANGED <<place, start, pausedAt, disconnectedAt, writer, closing, row>>

\* A tick takes the writers there are, and writes to each later.
Tick ==
  /\ Handles("tick")
  /\ IF place = "active" THEN Busy([Idle EXCEPT !.at = "writing"]) ELSE Done
  /\ Timeless /\ UNCHANGED <<place, start, pausedAt, disconnectedAt, writer, closing, row>>

WriteTick ==
  /\ task.at = "writing"
  /\ writer' \in Written(writer, 1)
  /\ Done
  /\ Timeless /\ UNCHANGED <<place, start, pausedAt, disconnectedAt, closing, row>>

Pause ==
  /\ Handles("leave")
  /\ IF place = "active"
       THEN place' = "paused" /\ pausedAt' = now
       ELSE UNCHANGED <<place, pausedAt>>
  /\ Done
  /\ Timeless /\ UNCHANGED <<start, disconnectedAt, writer, closing, row>>

\* A recoverable disconnect: the time is kept, the writers stay.
Disconnect ==
  /\ Handles("down")
  /\ disconnectedAt' = IF disconnectedAt = 0 THEN now ELSE disconnectedAt
  /\ Done
  /\ Timeless /\ UNCHANGED <<place, start, pausedAt, writer, closing, row>>

\* A reconnect reads the gap, and pads the writers it finds after the
\* resume events are in the database.
Reconnect ==
  /\ Handles("up")
  /\ IF disconnectedAt = 0 THEN Done
     ELSE Busy([at |-> "padding", frames |-> SilenceFrames(now - disconnectedAt), time |-> now])
  /\ disconnectedAt' = 0
  /\ Timeless /\ UNCHANGED <<place, start, pausedAt, writer, closing, row>>

PadsAll == task.at = "padding" /\ place \in {"active", "paused"}
Pads    == task.at = "padding" /\ place = "active"

Pad ==
  /\ task.at = "padding"
  /\ IF Pads THEN writer' \in Written(writer, task.frames) ELSE UNCHANGED writer
  /\ task' = [task EXCEPT !.at = "checking", !.frames = 0]
  /\ Timeless /\ UNCHANGED <<queue, place, start, pausedAt, disconnectedAt, closing, row>>

----
(***************************************************************************)
(* The end of the recording: somebody takes it out of its map with a close *)
(* time, finishes the writer and closes the row; the file is whole when    *)
(* the last handle on the writer is gone.                                  *)
(***************************************************************************)
Take(from, time) ==
  /\ place = from
  /\ place' = "taken"
  /\ closing' = time

\* An outage the file has not been padded for.
Unpadded == disconnectedAt # 0 \/ task.at = "padding"

TakeAt(from, time) ==
  /\ Take(from, time)
  /\ pausedAt' = 0
  /\ row' = [row EXCEPT !.cut = from = "active" /\ Unpadded]
  /\ UNCHANGED <<start, writer>>

\* The close time of a paused recording, for its own timeout and for
\* finalize_all_active_recordings: the moment it was paused.
PausedCloseNow      == now
PausedCloseDeadline == pausedAt + RejoinAfter
PausedClose         == pausedAt

\* A user gone when the outage is over is closed at the reconnect.
Checked ==
  /\ task.at = "checking"
  /\ \/ TakeAt("active", task.time)
     \/ UNCHANGED <<place, closing, row, start, pausedAt, writer>>
  /\ Done
  /\ Timeless /\ UNCHANGED disconnectedAt

\* The health checker passes over a session it finds in an outage, but one may
\* begin while it waits for the maps it takes the recording from.
HealthCloses ==
  /\ TakeAt("active", now)
  /\ UNCHANGED <<world, task, disconnectedAt>>

RejoinTimeout ==
  /\ place = "paused" /\ now >= pausedAt + RejoinAfter
  /\ TakeAt("paused", PausedClose)
  /\ UNCHANGED <<world, task, disconnectedAt>>

OutageTimeout ==
  /\ disconnectedAt # 0 /\ now >= disconnectedAt + OutageAfter
  /\ disconnectedAt' = 0
  /\ \/ TakeAt("active", now)
     \/ TakeAt("paused", PausedClose)
     \/ place \notin {"active", "paused"} /\ UNCHANGED <<place, closing, row, start, pausedAt, writer>>
  /\ UNCHANGED <<world, task>>

\* A disconnect nobody is left for ends the session at once.
FinalDisconnect ==
  /\ Handles("down")
  /\ disconnectedAt' = 0
  /\ \/ TakeAt("active", now)
     \/ TakeAt("paused", PausedClose)
     \/ place \notin {"active", "paused"} /\ UNCHANGED <<place, closing, row, start, pausedAt, writer>>
  /\ Done
  /\ Timeless

Finish ==
  /\ place = "taken"
  /\ writer' \in Finished(writer)
  /\ place' = "finished"
  /\ UNCHANGED <<world, task, start, pausedAt, disconnectedAt, closing, row>>

CloseRow ==
  /\ place = "finished"
  /\ \/ row' = [row EXCEPT !.open = FALSE, !.length = closing - start]
     \/ Faults /\ UNCHANGED row
  /\ place' = "closed" /\ closing' = 0 /\ start' = 0
  /\ UNCHANGED <<world, task, pausedAt, disconnectedAt, writer>>

\* Mutant of Retried: what finish has not written is not tried again.
NotRetried(w) == {w}

\* OggOpusWriter::drop: finish again unless it has been done.  A page that cannot
\* be written even then is lost.
Retried(w) ==
  IF w.finished THEN {w}
  ELSE {[w EXCEPT !.finished = TRUE]} \cup (IF Faults THEN {[w EXCEPT !.lost = TRUE]} ELSE {})

\* The BufWriter inside is dropped after it, and flushes what it holds.
Flushed(w) ==
  {[w EXCEPT !.disk = w.pages]} \cup (IF Faults THEN {[w EXCEPT !.lost = TRUE]} ELSE {})

\* The writer is dropped with its last Arc; a tick may still hold one.
Drop ==
  /\ place = "closed" /\ task.at # "writing"
  /\ place' = "gone"
  /\ \E w \in Retried(writer) : writer' \in Flushed(w)
  /\ UNCHANGED <<world, task, start, pausedAt, disconnectedAt, closing, row>>

----
EventTask == \/ Create \/ Created \/ Resume \/ SpeakIgnored \/ Tick \/ WriteTick
             \/ Pause \/ Disconnect \/ Reconnect \/ Pad \/ Checked \/ FinalDisconnect
Owner     == Finish \/ CloseRow \/ Drop
Next == \/ Elapse \/ Speaks \/ Leaves \/ Drops \/ Returns
        \/ EventTask \/ HealthCloses \/ RejoinTimeout \/ OutageTimeout \/ Owner

Spec == Init /\ [][Next]_vars

----
\* Every variable has its type, and no time lies beyond the clock's last.
TypeOK ==
  /\ now \in 1..MaxTime
  /\ driver \in [up : BOOLEAN, present : BOOLEAN]
  /\ queue \in Seq([kind : {"tick", "speak", "leave", "down", "up"}, at : 1..MaxTime])
  /\ gaps \in 0..MaxGaps
  /\ task \in [at : {"idle", "creating", "writing", "padding", "checking"},
               frames : Nat, time : 0..MaxTime]
  /\ place \in {"none", "active", "paused", "taken", "finished", "closed", "gone"}
  /\ {start, pausedAt, disconnectedAt, closing} \subseteq 0..MaxTime
  /\ writer \in [granule : Nat, pages : Nat, disk : Nat, finished : BOOLEAN,
               broken : BOOLEAN, lost : BOOLEAN]
  /\ row \in [open : BOOLEAN, length : Nat, cut : BOOLEAN]

File == writer.granule * Frame

\* How far the file may be behind the clock, and ahead of it: by the frame that is
\* not over and the events that wait at the start, and by what each gap adds, the
\* rounding of its silence among it.
Behind == Frame + MaxLag + gaps * (Frame + MaxLag - 1)
Ahead  == Frame + MaxLag - 1 + gaps * (2 * Frame + MaxLag - 2)

\* While a recording is active and its outage padded, the length of the file is
\* the time since start_time, within these: VoiceTick, the padding of a pause and
\* the padding of an outage count every moment once, also when an outage falls
\* into a pause.
AudioKeepsUp ==
  place = "active" /\ disconnectedAt = 0 /\ task.at # "padding"
    /\ driver.up /\ ~writer.broken =>
      /\ File - (now - start) <= Ahead
      /\ (now - start) - File <= Behind

\* end_ts - start_ts is the length of the file, whoever closes the recording and
\* with whichever close time; only a row closed in an unpadded outage is longer.
RowMatchesFile ==
  place \in {"closed", "gone"} /\ ~row.open /\ ~writer.broken =>
      /\ File - row.length <= Ahead
      /\ row.cut \/ row.length - File <= Behind

\* When the last handle on a writer is gone its file ends with its last page and
\* has every page on the disk, also if finish could not write that page, or a tick
\* that still held the writer wrote to it in between; only an error that strikes at
\* the drop itself may leave the file without.
ClosedFileIsComplete ==
  place = "gone" => \/ writer.finished /\ writer.disk = writer.pages
                    \/ writer.lost
====
