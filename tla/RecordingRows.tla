---- MODULE RecordingRows ----
(***************************************************************************)
(* The rows of audio_files and the files they stand for, over the lives of *)
(* several processes: create_path, the row heartbeat and the end of a      *)
(* recording (events/voice_receiver.rs), the reaper that runs before a     *)
(* process registers (reaper.rs, main.rs), the instance row and its end    *)
(* (deployment.rs), the SQL of deploy/force-stop-drain.sh, and the lookup  *)
(* of the recording a stamp is about (commands/stamp.rs).                  *)
(*                                                                         *)
(* A heartbeat is recent or older than 120 seconds; it grows old where     *)
(* nobody renews it.                                                       *)
(***************************************************************************)
EXTENDS Naturals, FiniteSets

CONSTANTS
  Instances,    \* processes of the bot, told apart by BOT_INSTANCE_ID
  First,        \* the one that runs from the start
  Recordings,   \* file names
  MaxStarts,    \* bound: starts of a process after the first
  MaxCrashes,   \* bound: crashes
  PurgeModes,   \* the values REAPER_PURGE may have
  Faults,       \* may the statements of the reaper and of an end fail?
  NoOne,        \* no instance
  NoRow         \* no row of audio_files

ASSUME RowsAssumption ==
  /\ First \in Instances /\ NoOne \notin Instances
  /\ {MaxStarts, MaxCrashes} \subseteq Nat
  /\ PurgeModes \subseteq BOOLEAN /\ Faults \in BOOLEAN

VARIABLES
  proc,      \* what each process does
  inst,      \* bot_instances.state of each
  pulse,     \* instances with a recent bot_instances.heartbeat_at
  rec,       \* what the process does that makes a recording, and which it is
  row,       \* the row of each recording
  files,     \* recordings whose .ogg is on disk
  beating,   \* names heartbeat_active_recordings has collected, per process
  seen,      \* zombies whose files the reaper of each process will delete
  purge,     \* processes whose reaper is going to purge
  forced,    \* processes that were sent ForceShutdown
  starts, crashes

instance == <<inst, pulse>>
table    == <<row, files>>
reaper   == <<seen, purge>>
bounds   == <<starts, crashes>>
vars     == <<proc, instance, rec, table, beating, reaper, forced, bounds>>

----
Running == {"run", "close", "mark", "exit"}
Phases  == {"off", "select", "files", "sweep", "register"} \cup Running
Held    == {"inserted", "recording", "closing"}
Stages  == {"free", "gone"} \cup Held

\* end_ts is NULL, start_ts, or start_ts and the length of the recording.
Row == [end : {"open", "start", "length"}, reaped : BOOLEAN, beat : {"null", "recent", "old"}]

ASSUME NoRowAssumption == NoRow \notin Row

Open(r) == row[r] # NoRow /\ row[r].end = "open"

\* The condition the reaper and /stamp share: its owner's heartbeat and its own
\* are recent and its owner is not stopped.
OwnerLives(r) == /\ row[r].beat = "recent"
                 /\ rec[r].by \in pulse
                 /\ inst[rec[r].by] # "stopped"
Live(r)   == Open(r) /\ OwnerLives(r)
Zombie(r) == Open(r) /\ ~OwnerLives(r)

At(i, phase)   == proc[i] = phase
Goto(i, phase) == proc' = [proc EXCEPT ![i] = phase]
Mine(i, r, stage) == proc[i] \in Running /\ rec[r] = [by |-> i, stage |-> stage]
ToStage(r, stage) == rec' = [rec EXCEPT ![r].stage = stage]

\* One process has registered.
Init ==
  /\ proc = [i \in Instances |-> IF i = First THEN "run" ELSE "off"]
  /\ inst = [i \in Instances |-> IF i = First THEN "active" ELSE "none"]
  /\ pulse = {First}
  /\ rec = [r \in Recordings |-> [by |-> NoOne, stage |-> "free"]]
  /\ row = [r \in Recordings |-> NoRow]
  /\ files = {}
  /\ beating = [i \in Instances |-> {}]
  /\ seen = [i \in Instances |-> {}]
  /\ purge = {}
  /\ forced = {}
  /\ starts = 0
  /\ crashes = 0

----
(***************************************************************************)
(* A recording.                                                            *)
(***************************************************************************)

\* create_path
Insert(i, r) ==
  /\ proc[i] \in Running
  /\ rec[r].stage = "free"
  /\ rec' = [rec EXCEPT ![r] = [by |-> i, stage |-> "inserted"]]
  /\ row' = [row EXCEPT ![r] = [end |-> "open", reaped |-> FALSE, beat |-> "recent"]]
  /\ UNCHANGED <<proc, instance, files, beating, reaper, forced, bounds>>

\* File::create and the writer that goes into the map.
CreateFile(i, r) ==
  /\ Mine(i, r, "inserted")
  /\ ToStage(r, "recording")
  /\ files' = files \cup {r}
  /\ UNCHANGED <<proc, instance, row, beating, reaper, forced, bounds>>

CreateFails(i, r) ==
  /\ Mine(i, r, "inserted")
  /\ ToStage(r, "gone")
  /\ UNCHANGED <<proc, instance, table, beating, reaper, forced, bounds>>

\* It is taken out of the maps, and its writer finishes the file.
TakeOut(i, r) ==
  /\ Mine(i, r, "recording")
  /\ ToStage(r, "closing")
  /\ UNCHANGED <<proc, instance, table, beating, reaper, forced, bounds>>

\* The UPDATE of finalize_recording_arc names the file and nothing else.
FinishRow(i, r, failed) ==
  /\ Mine(i, r, "closing")
  /\ failed => Faults
  /\ ToStage(r, "gone")
  /\ row' = IF failed \/ row[r] = NoRow THEN row
            ELSE [row EXCEPT ![r].end = "length", ![r].beat = "null"]
  /\ UNCHANGED <<proc, instance, files, beating, reaper, forced, bounds>>

\* heartbeat_active_recordings collects the names, then updates their rows.
Collect(i) ==
  /\ proc[i] \in Running
  /\ beating[i] = {}
  /\ beating' = [beating EXCEPT ![i] = {r \in Recordings : Mine(i, r, "recording")}]
  /\ UNCHANGED <<proc, instance, rec, table, reaper, forced, bounds>>

\* Mutant of Beaten: all rows of the instance.
BeatenByOwner(i) == {r \in Recordings : rec[r].by = i /\ Open(r)}

Beaten(i) == {r \in beating[i] : rec[r].by = i /\ Open(r)}

Beat(i) ==
  /\ proc[i] \in Running
  /\ beating[i] # {}
  /\ beating' = [beating EXCEPT ![i] = {}]
  /\ row' = [r \in Recordings |->
               IF r \in Beaten(i) THEN [row[r] EXCEPT !.beat = "recent"] ELSE row[r]]
  /\ UNCHANGED <<proc, instance, rec, files, reaper, forced, bounds>>

----
(***************************************************************************)
(* reap_zombie_recordings, before anything else a process does.            *)
(***************************************************************************)

\* Mutant of Zombies: the reaper from before recordings had an owner.
ZombiesOfAnyone == {r \in Recordings : Open(r)}

\* Mutant of Zombies: rows that have an end are not spared.
ZombiesWithEnd == {r \in Recordings : row[r] # NoRow /\ ~OwnerLives(r)}

Zombies == {r \in Recordings : Zombie(r)}

Select(i) ==
  /\ At(i, "select")
  /\ seen' = [seen EXCEPT ![i] = IF i \in purge THEN Zombies ELSE {}]
  /\ Goto(i, IF i \in purge THEN "files" ELSE "sweep")
  /\ UNCHANGED <<instance, rec, table, beating, purge, forced, bounds>>

\* The clock or a query fails: reaping is given up and the process goes on.
SelectFails(i) ==
  /\ At(i, "select")
  /\ Faults
  /\ purge' = purge \ {i}
  /\ Goto(i, "register")
  /\ UNCHANGED <<instance, rec, table, beating, seen, forced, bounds>>

\* One remove_file after the other.
DeleteFile(i, r) ==
  /\ At(i, "files")
  /\ r \in seen[i]
  /\ files' = files \ {r}
  /\ seen' = [seen EXCEPT ![i] = @ \ {r}]
  /\ UNCHANGED <<proc, instance, rec, row, beating, purge, forced, bounds>>

FilesDeleted(i) ==
  /\ At(i, "files")
  /\ seen[i] = {}
  /\ Goto(i, "sweep")
  /\ UNCHANGED <<instance, rec, table, beating, reaper, forced, bounds>>

\* What the sweep makes of a row: DELETE, or UPDATE ... reaped = TRUE.
Swept(i, r) == IF i \in purge THEN NoRow ELSE [row[r] EXCEPT !.end = "start", !.reaped = TRUE]

\* The statement finds its rows again.
Sweep(i, failed) ==
  /\ At(i, "sweep")
  /\ failed => Faults
  /\ row' = [r \in Recordings |-> IF ~failed /\ r \in Zombies THEN Swept(i, r) ELSE row[r]]
  /\ purge' = purge \ {i}
  /\ Goto(i, "register")
  /\ UNCHANGED <<instance, rec, files, beating, seen, forced, bounds>>

----
(***************************************************************************)
(* The life of a process and its instance row.                             *)
(***************************************************************************)

Start(i, p) ==
  /\ At(i, "off")
  /\ starts < MaxStarts
  /\ starts' = starts + 1
  /\ p \in PurgeModes
  /\ purge' = IF p THEN purge \cup {i} ELSE purge
  /\ Goto(i, "select")
  /\ UNCHANGED <<instance, rec, table, beating, seen, forced, crashes>>

\* upsert_instance; the row of an earlier process is made active again.
Register(i) ==
  /\ At(i, "register")
  /\ inst' = [inst EXCEPT ![i] = "active"]
  /\ pulse' = pulse \cup {i}
  /\ Goto(i, "run")
  /\ UNCHANGED <<rec, table, beating, reaper, forced, bounds>>

ForceShutdown(i) ==
  /\ At(i, "run")
  /\ forced' = forced \cup {i}
  /\ UNCHANGED <<proc, instance, rec, table, beating, reaper, bounds>>

\* The rows of an instance that have no end get their start for one.
CloseRowsOf(i) ==
  row' = [r \in Recordings |->
            IF Open(r) /\ rec[r].by = i
            THEN [end |-> "start", reaped |-> TRUE, beat |-> "null"] ELSE row[r]]

\* delete_voice_leases_for_instance of the script, right after the request.
ScriptCloses(i) ==
  /\ i \in forced
  /\ CloseRowsOf(i)
  /\ UNCHANGED <<proc, instance, rec, files, beating, reaper, forced, bounds>>

\* The drain ends, perhaps at its deadline with recordings under way.
Stop(i) ==
  /\ At(i, "run")
  /\ Goto(i, "close")
  /\ UNCHANGED <<instance, rec, table, beating, reaper, forced, bounds>>

\* mark_instance_stopped: the rows first, then the instance.
CloseRows(i) ==
  /\ At(i, "close")
  /\ CloseRowsOf(i)
  /\ Goto(i, "mark")
  /\ UNCHANGED <<instance, rec, files, beating, reaper, forced, bounds>>

MarkStopped(i) ==
  /\ At(i, "mark")
  /\ inst' = [inst EXCEPT ![i] = "stopped"]
  /\ pulse' = pulse \cup {i}
  /\ Goto(i, "exit")
  /\ UNCHANGED <<rec, table, beating, reaper, forced, bounds>>

\* Mutant of Gone: the request to shut down outlives the process.
GoneForced(i) ==
  /\ Goto(i, "off")
  /\ rec' = [r \in Recordings |->
               IF rec[r].by = i THEN [rec[r] EXCEPT !.stage = "gone"] ELSE rec[r]]
  /\ beating' = [beating EXCEPT ![i] = {}]
  /\ seen' = [seen EXCEPT ![i] = {}]
  /\ purge' = purge \ {i}
  /\ UNCHANGED forced

\* What a process that ends leaves of its recordings.
Gone(i) ==
  /\ Goto(i, "off")
  /\ rec' = [r \in Recordings |->
               IF rec[r].by = i THEN [rec[r] EXCEPT !.stage = "gone"] ELSE rec[r]]
  /\ beating' = [beating EXCEPT ![i] = {}]
  /\ seen' = [seen EXCEPT ![i] = {}]
  /\ purge' = purge \ {i}
  /\ forced' = forced \ {i}

Exit(i) ==
  /\ At(i, "exit")
  /\ Gone(i)
  /\ UNCHANGED <<instance, table, bounds>>

Crash(i) ==
  /\ proc[i] # "off"
  /\ crashes < MaxCrashes
  /\ crashes' = crashes + 1
  /\ Gone(i)
  /\ UNCHANGED <<instance, table, starts>>

\* 120 seconds without a heartbeat; a process renews its own every 10, so that
\* heartbeat_instance_and_leases has nothing to change here.
RowGrowsOld(r) ==
  /\ row[r] # NoRow
  /\ row[r].beat = "recent"
  /\ rec[r].stage \notin Held
  /\ row' = [row EXCEPT ![r].beat = "old"]
  /\ UNCHANGED <<proc, instance, rec, files, beating, reaper, forced, bounds>>

InstanceGrowsOld(i) ==
  /\ i \in pulse
  /\ proc[i] \notin Running
  /\ pulse' = pulse \ {i}
  /\ UNCHANGED <<proc, inst, rec, table, beating, reaper, forced, bounds>>

----
Next ==
  \/ \E i \in Instances : \E r \in Recordings :
       \/ Insert(i, r)
       \/ CreateFile(i, r)
       \/ CreateFails(i, r)
       \/ TakeOut(i, r)
       \/ \E failed \in BOOLEAN : FinishRow(i, r, failed)
       \/ DeleteFile(i, r)
  \/ \E i \in Instances :
       \/ Collect(i)
       \/ Beat(i)
       \/ Select(i)
       \/ SelectFails(i)
       \/ FilesDeleted(i)
       \/ \E failed \in BOOLEAN : Sweep(i, failed)
       \/ \E p \in BOOLEAN : Start(i, p)
       \/ Register(i)
       \/ ForceShutdown(i)
       \/ ScriptCloses(i)
       \/ Stop(i)
       \/ CloseRows(i)
       \/ MarkStopped(i)
       \/ Exit(i)
       \/ Crash(i)
       \/ InstanceGrowsOld(i)
  \/ \E r \in Recordings : RowGrowsOld(r)

Spec == Init /\ [][Next]_vars

\* Time passes; a heartbeat that has its names is sent.
FairSpec == /\ Spec
            /\ \A r \in Recordings : WF_vars(RowGrowsOld(r))
            /\ \A i \in Instances : WF_vars(Beat(i))

----
\* Every variable keeps its type; only a starting process purges, and only one
\* that runs can have been told to stop at once.
TypeOK ==
  /\ proc \in [Instances -> Phases]
  /\ inst \in [Instances -> {"none", "active", "stopped"}]
  /\ pulse \subseteq Instances
  /\ rec \in [Recordings -> [by : Instances \cup {NoOne}, stage : Stages]]
  /\ row \in [Recordings -> Row \cup {NoRow}]
  /\ files \subseteq Recordings
  /\ beating \in [Instances -> SUBSET Recordings]
  /\ seen \in [Instances -> SUBSET Recordings]
  /\ purge \subseteq {i \in Instances : proc[i] \in {"select", "files", "sweep"}}
  /\ forced \subseteq {i \in Instances : proc[i] \in Running}
  /\ starts \in 0 .. MaxStarts /\ crashes \in 0 .. MaxCrashes

\* A row that has got the length of its recording keeps it: no reaper, no end
\* of an instance and no script overwrites or deletes it, in whatever order
\* they run (the end_ts IS NULL of reaper.rs, deployment.rs and the script).  The
\* file is another matter: see EndsOnlyWithOwner.
FinishedStays ==
  [][\A r \in Recordings :
       row[r] # NoRow /\ row[r].end = "length" => row'[r] # NoRow /\ row'[r].end = "length"]_vars

\* A live row is ended without its length only on behalf of its own instance,
\* when that stops or was forced to, and a purge deletes no file that a running
\* process still records: a starting process leaves the recordings of the old
\* release alone (reap_zombie_recordings).
EndsOnlyWithOwner ==
  [][/\ \A r \in Recordings :
          Live(r) /\ (row'[r] = NoRow \/ row'[r].end = "start")
            => proc[rec[r].by] = "close" \/ rec[r].by \in forced
     /\ \A r \in files :
          rec[r].stage \in Held /\ proc[rec[r].by] = "run" => r \in files']_vars

Over(r) == rec[r].stage = "gone"

\* A row whose recording is over, finished, failed or lost in a crash, does not
\* look live for ever, even if its instance is restarted under its old id: "it
\* is live only while the row's recording heartbeat is fresh" (reaper.rs).
OverGoesDark == \A r \in Recordings : Over(r) ~> [](~Live(r))
====
