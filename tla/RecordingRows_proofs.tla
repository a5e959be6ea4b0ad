---- MODULE RecordingRows_proofs ----
(***************************************************************************)
(* RecordingRows for every set of processes and recordings, any number of  *)
(* starts and crashes: the types, FinishedStays and EndsOnlyWithOwner.     *)
(*                                                                         *)
(* That the reaper deletes no file under a running process rests on four   *)
(* facts the steps keep: a running process looks alive, so do the rows of  *)
(* what it records, what is recorded has a process that runs, and a zombie *)
(* once selected never comes to be recorded by a running process.          *)
(***************************************************************************)
EXTENDS RecordingRows, TLAPS

\* A name that no process has taken yet has no row.
FreeInv == \A r \in Recordings : rec[r].stage = "free" => row[r] = NoRow

\* A process that has registered and not yet stopped has a live instance row.
PulseInv == \A i \in Instances :
  proc[i] \in {"run", "close", "mark"} => i \in pulse /\ inst[i] = "active"

\* A recording under way belongs to a running process, and its row, until
\* somebody ends it, has a recent heartbeat.
HeldInv == \A r \in Recordings : rec[r].stage \in Held =>
  /\ rec[r].by \in Instances /\ proc[rec[r].by] \in Running
  /\ Open(r) => row[r].beat = "recent"

\* What a reaper has selected is not recorded by a process at work, and never
\* will be.
SeenInv == \A i \in Instances : \A r \in seen[i] :
  /\ rec[r].stage # "free"
  /\ rec[r].stage \in Held => proc[rec[r].by] # "run"

WorkInv == FreeInv /\ PulseInv /\ HeldInv /\ SeenInv
RowsInv == TypeOK /\ WorkInv

----
LEMMA InitRows == Init => RowsInv
BY RowsAssumption
   DEF Init, RowsInv, WorkInv, TypeOK, Phases, Running, Stages, Held, FreeInv, PulseInv, HeldInv, SeenInv,
       Open, Row

\* Every step keeps the types.
LEMMA NextTypes == TypeOK /\ [Next]_vars => TypeOK'
<1> SUFFICES ASSUME TypeOK, [Next]_vars PROVE TypeOK'
  OBVIOUS
<1> USE RowsAssumption DEF TypeOK, instance, table, reaper, bounds, At, Goto, Running, Phases
<1>1. ASSUME NEW i \in Instances, NEW r \in Recordings, Insert(i, r) PROVE TypeOK'
  BY <1>1 DEF Insert, Stages, Held, Row
<1>2. ASSUME NEW i \in Instances, NEW r \in Recordings, CreateFile(i, r) PROVE TypeOK'
  BY <1>2 DEF CreateFile, ToStage, Mine, Stages, Held
<1>3. ASSUME NEW i \in Instances, NEW r \in Recordings, CreateFails(i, r) PROVE TypeOK'
  BY <1>3 DEF CreateFails, ToStage, Stages, Held
<1>4. ASSUME NEW i \in Instances, NEW r \in Recordings, TakeOut(i, r) PROVE TypeOK'
  BY <1>4 DEF TakeOut, ToStage, Mine, Stages, Held
<1>5. ASSUME NEW i \in Instances, NEW r \in Recordings, NEW failed \in BOOLEAN, FinishRow(i, r, failed) PROVE TypeOK'
  <2>1. row' \in [Recordings -> Row \cup {NoRow}]
    <3>1. CASE failed \/ row[r] = NoRow
      BY <1>5, <3>1 DEF FinishRow
    <3>2. CASE ~(failed \/ row[r] = NoRow)
      <4>1. row[r] \in Row /\ row' = [row EXCEPT ![r] = [row[r] EXCEPT !.end = "length", !.beat = "null"]]
        BY <1>5, <3>2 DEF FinishRow
      <4> QED BY <4>1 DEF Row
    <3> QED BY <3>1, <3>2
  <2>2. rec' \in [Recordings -> [by : Instances \cup {NoOne}, stage : Stages]]
    BY <1>5 DEF FinishRow, ToStage, Stages, Held
  <2> QED BY <1>5, <2>1, <2>2 DEF FinishRow
<1>6. ASSUME NEW i \in Instances, NEW r \in Recordings, DeleteFile(i, r) PROVE TypeOK'
  BY <1>6 DEF DeleteFile
<1>7. ASSUME NEW i \in Instances, Collect(i) PROVE TypeOK'
  BY <1>7 DEF Collect
<1>8. ASSUME NEW i \in Instances, Beat(i) PROVE TypeOK'
  BY <1>8 DEF Beat, Beaten, Open, Row
<1>9. ASSUME NEW i \in Instances, Select(i) PROVE TypeOK'
  BY <1>9 DEF Select, Zombies
<1>10. ASSUME NEW i \in Instances, SelectFails(i) PROVE TypeOK'
  BY <1>10 DEF SelectFails
<1>11. ASSUME NEW i \in Instances, FilesDeleted(i) PROVE TypeOK'
  BY <1>11 DEF FilesDeleted
<1>12. ASSUME NEW i \in Instances, NEW failed \in BOOLEAN, Sweep(i, failed) PROVE TypeOK'
  <2>1. \A r \in Zombies : row[r] \in Row
    BY DEF Zombies, Zombie, Open
  <2>2. \A r \in Zombies : Swept(i, r) \in Row \cup {NoRow}
    BY <2>1 DEF Swept, Row
  <2>3. row' \in [Recordings -> Row \cup {NoRow}]
    BY <1>12, <2>2 DEF Sweep
  <2>4. proc' \in [Instances -> Phases] /\ purge' = purge \ {i} /\ proc' = [proc EXCEPT ![i] = "register"]
    BY <1>12 DEF Sweep
  <2> QED BY <1>12, <2>3, <2>4 DEF Sweep
<1>13. ASSUME NEW i \in Instances, NEW p \in BOOLEAN, Start(i, p) PROVE TypeOK'
  BY <1>13 DEF Start
<1>14. ASSUME NEW i \in Instances, Register(i) PROVE TypeOK'
  BY <1>14 DEF Register
<1>15. ASSUME NEW i \in Instances, ForceShutdown(i) PROVE TypeOK'
  BY <1>15 DEF ForceShutdown
<1>16. ASSUME NEW i \in Instances, ScriptCloses(i) PROVE TypeOK'
  BY <1>16 DEF ScriptCloses, CloseRowsOf, Open, Row
<1>17. ASSUME NEW i \in Instances, Stop(i) PROVE TypeOK'
  BY <1>17 DEF Stop
<1>18. ASSUME NEW i \in Instances, CloseRows(i) PROVE TypeOK'
  BY <1>18 DEF CloseRows, CloseRowsOf, Open, Row
<1>19. ASSUME NEW i \in Instances, MarkStopped(i) PROVE TypeOK'
  BY <1>19 DEF MarkStopped
<1>20. ASSUME NEW i \in Instances, Exit(i) PROVE TypeOK'
  BY <1>20 DEF Exit, Gone, Stages
<1>21. ASSUME NEW i \in Instances, Crash(i) PROVE TypeOK'
  BY <1>21 DEF Crash, Gone, Stages
<1>22. ASSUME NEW i \in Instances, InstanceGrowsOld(i) PROVE TypeOK'
  BY <1>22 DEF InstanceGrowsOld
<1>23. ASSUME NEW r \in Recordings, RowGrowsOld(r) PROVE TypeOK'
  BY <1>23 DEF RowGrowsOld, Row
<1>24. CASE UNCHANGED vars
  BY <1>24 DEF vars
<1> QED
  BY <1>1, <1>2, <1>3, <1>4, <1>5, <1>6, <1>7, <1>8, <1>9, <1>10, <1>11, <1>12, <1>13, <1>14, <1>15, <1>16, <1>17, <1>18, <1>19, <1>20, <1>21, <1>22, <1>23, <1>24 DEF Next

\* Every step keeps what the types do not say.
LEMMA NextRows == RowsInv /\ [Next]_vars => RowsInv'
<1> SUFFICES ASSUME RowsInv, [Next]_vars PROVE WorkInv'
  BY NextTypes DEF RowsInv
<1> USE RowsAssumption, NoRowAssumption
    DEF RowsInv, WorkInv, FreeInv, PulseInv, HeldInv, SeenInv, instance, table, reaper, bounds,
        At, Goto, Held, Running, Open
<1>0. /\ proc \in [Instances -> Phases] /\ inst \in [Instances -> {"none", "active", "stopped"}]
      /\ pulse \subseteq Instances
      /\ rec \in [Recordings -> [by : Instances \cup {NoOne}, stage : Stages]]
      /\ row \in [Recordings -> Row \cup {NoRow}] /\ seen \in [Instances -> SUBSET Recordings]
  BY DEF TypeOK
<1>1. ASSUME NEW i \in Instances, NEW r \in Recordings, Insert(i, r) PROVE WorkInv'
  BY <1>0, <1>1 DEF Insert
<1>2. ASSUME NEW i \in Instances, NEW r \in Recordings, CreateFile(i, r) PROVE WorkInv'
  BY <1>0, <1>2 DEF CreateFile, ToStage, Mine
<1>3. ASSUME NEW i \in Instances, NEW r \in Recordings, CreateFails(i, r) PROVE WorkInv'
  BY <1>0, <1>3 DEF CreateFails, ToStage, Mine
<1>4. ASSUME NEW i \in Instances, NEW r \in Recordings, TakeOut(i, r) PROVE WorkInv'
  BY <1>0, <1>4 DEF TakeOut, ToStage, Mine
<1>5. ASSUME NEW i \in Instances, NEW r \in Recordings, NEW failed \in BOOLEAN, FinishRow(i, r, failed) PROVE WorkInv'
  BY <1>0, <1>5 DEF FinishRow, ToStage, Mine
<1>6. ASSUME NEW i \in Instances, NEW r \in Recordings, DeleteFile(i, r) PROVE WorkInv'
  BY <1>0, <1>6 DEF DeleteFile
<1>7. ASSUME NEW i \in Instances, Collect(i) PROVE WorkInv'
  BY <1>0, <1>7 DEF Collect
<1>8. ASSUME NEW i \in Instances, Beat(i) PROVE WorkInv'
  BY <1>0, <1>8 DEF Beat, Beaten
<1>9. ASSUME NEW i \in Instances, Select(i) PROVE WorkInv'
  BY <1>0, <1>9 DEF Select, Zombies, Zombie, OwnerLives
<1>10. ASSUME NEW i \in Instances, SelectFails(i) PROVE WorkInv'
  BY <1>0, <1>10 DEF SelectFails
<1>11. ASSUME NEW i \in Instances, FilesDeleted(i) PROVE WorkInv'
  BY <1>0, <1>11 DEF FilesDeleted
<1>12. ASSUME NEW i \in Instances, NEW failed \in BOOLEAN, Sweep(i, failed) PROVE WorkInv'
  <2>1. \A r \in Recordings : row'[r] = row[r] \/ row'[r] = NoRow \/ row'[r].end = "start"
    <3>1. ASSUME NEW r \in Recordings
          PROVE  row'[r] = row[r] \/ (Open(r) /\ row'[r] = Swept(i, r))
      BY <1>0, <1>12 DEF Sweep, Zombies, Zombie
    <3>2. \A r \in Recordings : Open(r) => Swept(i, r) = NoRow \/ Swept(i, r).end = "start"
      BY <1>0 DEF Swept, Row
    <3> QED BY <3>1, <3>2
  <2>2. /\ proc' = [proc EXCEPT ![i] = "register"] /\ proc[i] = "sweep"
        /\ rec' = rec /\ pulse' = pulse /\ inst' = inst /\ seen' = seen
    BY <1>12 DEF Sweep
  <2>3. \A r \in Recordings : row[r] = NoRow => row'[r] = NoRow
    BY <1>0, <1>12 DEF Sweep, Zombies, Zombie
  <2>4. FreeInv' /\ PulseInv' /\ SeenInv'
    BY <1>0, <2>2, <2>3
  <2>5. HeldInv'
    BY <1>0, <2>1, <2>2
  <2> QED BY <2>4, <2>5
<1>13. ASSUME NEW i \in Instances, NEW p \in BOOLEAN, Start(i, p) PROVE WorkInv'
  BY <1>0, <1>13 DEF Start
<1>14. ASSUME NEW i \in Instances, Register(i) PROVE WorkInv'
  BY <1>0, <1>14 DEF Register
<1>15. ASSUME NEW i \in Instances, ForceShutdown(i) PROVE WorkInv'
  BY <1>0, <1>15 DEF ForceShutdown
<1>16. ASSUME NEW i \in Instances, ScriptCloses(i) PROVE WorkInv'
  BY <1>0, <1>16 DEF ScriptCloses, CloseRowsOf
<1>17. ASSUME NEW i \in Instances, Stop(i) PROVE WorkInv'
  BY <1>0, <1>17 DEF Stop
<1>18. ASSUME NEW i \in Instances, CloseRows(i) PROVE WorkInv'
  BY <1>0, <1>18 DEF CloseRows, CloseRowsOf
<1>19. ASSUME NEW i \in Instances, MarkStopped(i) PROVE WorkInv'
  BY <1>0, <1>19 DEF MarkStopped
<1>20. ASSUME NEW i \in Instances, Exit(i) PROVE WorkInv'
  BY <1>0, <1>20 DEF Exit, Gone
<1>21. ASSUME NEW i \in Instances, Crash(i) PROVE WorkInv'
  BY <1>0, <1>21 DEF Crash, Gone
<1>22. ASSUME NEW i \in Instances, InstanceGrowsOld(i) PROVE WorkInv'
  BY <1>0, <1>22 DEF InstanceGrowsOld
<1>23. ASSUME NEW r \in Recordings, RowGrowsOld(r) PROVE WorkInv'
  BY <1>0, <1>23 DEF RowGrowsOld
<1>24. CASE UNCHANGED vars
  BY <1>24 DEF vars
<1> QED
  BY <1>1, <1>2, <1>3, <1>4, <1>5, <1>6, <1>7, <1>8, <1>9, <1>10, <1>11, <1>12, <1>13, <1>14, <1>15, <1>16, <1>17, <1>18, <1>19, <1>20, <1>21, <1>22, <1>23, <1>24 DEF Next

LEMMA RowsInductive ==
  /\ Init => RowsInv
  /\ RowsInv /\ [Next]_vars => RowsInv'
BY InitRows, NextTypes, NextRows DEF RowsInv

----
\* The variables keep their types, only a starting process purges and only a
\* running one can have been told to stop at once.
THEOREM RowsTypeCorrect == Spec => []TypeOK
<1>1. RowsInv => TypeOK
  BY DEF RowsInv
<1> QED BY <1>1, RowsInductive, PTL DEF Spec

\* Which steps touch the row of a recording, and what they make of it: a row is
\* made for a free name, gets its length from the process that records it, or,
\* if it has no end yet, loses its heartbeat, is swept, or is ended by its
\* instance.
LEMMA RowSteps ==
  ASSUME RowsInv, Next, NEW r \in Recordings
  PROVE  \/ row'[r] = row[r]
         \/ rec[r].stage = "free" /\ row'[r] # NoRow /\ row'[r].end = "open"
         \/ row[r] # NoRow /\ row'[r] # NoRow /\ row'[r].end \in {row[r].end, "length"}
         \/ Zombie(r)
         \/ /\ Open(r)
            /\ proc[rec[r].by] = "close" \/ rec[r].by \in forced
<1> USE NoRowAssumption DEF table, Open
<1>0. row \in [Recordings -> Row \cup {NoRow}]
  BY DEF RowsInv, TypeOK
<1> DEFINE Goal == \/ row'[r] = row[r]
                   \/ rec[r].stage = "free" /\ row'[r] # NoRow /\ row'[r].end = "open"
                   \/ row[r] # NoRow /\ row'[r] # NoRow /\ row'[r].end \in {row[r].end, "length"}
                   \/ Zombie(r)
                   \/ /\ Open(r)
                      /\ proc[rec[r].by] = "close" \/ rec[r].by \in forced
<1>1. ASSUME NEW i \in Instances, NEW q \in Recordings, Insert(i, q) PROVE Goal
  <2> DEFINE new == [end |-> "open", reaped |-> FALSE, beat |-> "recent"]
  <2>1. new \in Row /\ new.end = "open"
    BY DEF Row
  <2>2. row' = [row EXCEPT ![q] = new] /\ rec[q].stage = "free"
    BY <1>1 DEF Insert
  <2> HIDE DEF new
  <2>3. new # NoRow
    BY <2>1
  <2> QED BY <1>0, <2>1, <2>2, <2>3
<1>2. ASSUME NEW i \in Instances, NEW q \in Recordings, NEW failed \in BOOLEAN, FinishRow(i, q, failed) PROVE Goal
  BY <1>0, <1>2 DEF FinishRow, Row
<1>3. ASSUME NEW i \in Instances, Beat(i) PROVE Goal
  BY <1>0, <1>3 DEF Beat, Beaten, Row
<1>4. ASSUME NEW i \in Instances, NEW failed \in BOOLEAN, Sweep(i, failed) PROVE Goal
  BY <1>0, <1>4 DEF Sweep, Zombies
<1>5. ASSUME NEW i \in Instances, ScriptCloses(i) PROVE Goal
  BY <1>0, <1>5 DEF ScriptCloses, CloseRowsOf
<1>6. ASSUME NEW i \in Instances, CloseRows(i) PROVE Goal
  BY <1>0, <1>6 DEF CloseRows, CloseRowsOf, At
<1>7. ASSUME NEW q \in Recordings, RowGrowsOld(q) PROVE Goal
  BY <1>0, <1>7 DEF RowGrowsOld, Row
<1>8. ASSUME row' = row PROVE Goal
  BY <1>8
<1> QED
  BY <1>1, <1>2, <1>3, <1>4, <1>5, <1>6, <1>7, <1>8
     DEF Next, CreateFile, CreateFails, TakeOut, DeleteFile, Collect, Select, SelectFails,
         FilesDeleted, Start, Register, ForceShutdown, Stop, MarkStopped, Exit, Crash,
         InstanceGrowsOld

\* A row that has got the length of its recording keeps it, through any number
\* of crashes, restarts, reapers and forced shutdowns.  Of its file nothing is
\* said: a reaper that selected the row before may still delete that.
THEOREM FinishedStaysHolds == Spec => FinishedStays
<1> DEFINE A == \A r \in Recordings : row[r] # NoRow /\ row[r].end = "length"
                                        => row'[r] # NoRow /\ row'[r].end = "length"
<1>1. RowsInv /\ [Next]_vars => [A]_vars
  BY RowSteps DEF RowsInv, WorkInv, FreeInv, Zombie, Open
<1>2. RowsInv /\ [Next]_vars =>
        [\A r \in Recordings : row[r] # NoRow /\ row[r].end = "length"
                                 => row'[r] # NoRow /\ row'[r].end = "length"]_vars
  BY <1>1
<1> QED BY <1>2, RowsInductive, PTL DEF Spec, FinishedStays

\* A live row is ended without its length, and a file deleted, only when the
\* process it belongs to stops or was forced to: another process never does it.
THEOREM EndsOnlyWithOwnerHolds == Spec => EndsOnlyWithOwner
<1> DEFINE Ends == \A r \in Recordings :
                     Live(r) /\ (row'[r] = NoRow \/ row'[r].end = "start")
                       => proc[rec[r].by] = "close" \/ rec[r].by \in forced
           Spares == \A r \in files :
                     rec[r].stage \in Held /\ proc[rec[r].by] = "run" => r \in files'
<1>1. RowsInv /\ Next => Ends
  <2> SUFFICES ASSUME RowsInv, Next, NEW r \in Recordings, Live(r),
                      row'[r] = NoRow \/ row'[r].end = "start"
               PROVE  proc[rec[r].by] = "close" \/ rec[r].by \in forced
    OBVIOUS
  <2>1. row[r] # NoRow /\ row[r].end = "open" /\ ~Zombie(r)
    BY DEF Live, Zombie, Open
  <2>2. rec[r].stage # "free"
    BY <2>1 DEF RowsInv, WorkInv, FreeInv
  <2> QED BY <2>1, <2>2, RowSteps
<1>2. RowsInv /\ Next => Spares
  <2> SUFFICES ASSUME RowsInv, Next, NEW r \in files,
                      rec[r].stage \in Held, proc[rec[r].by] = "run"
               PROVE  r \in files'
    OBVIOUS
  <2>1. ASSUME NEW i \in Instances, NEW q \in Recordings, DeleteFile(i, q) PROVE r \in files'
    BY <2>1 DEF DeleteFile, RowsInv, WorkInv, SeenInv
  <2>2. ASSUME NEW i \in Instances, NEW q \in Recordings, CreateFile(i, q) PROVE r \in files'
    BY <2>2 DEF CreateFile
  <2>3. ASSUME files' = files PROVE r \in files'
    BY <2>3
  <2> QED
    BY <2>1, <2>2, <2>3
       DEF Next, table, Insert, CreateFails, TakeOut, FinishRow, Collect, Beat, Select,
           SelectFails, FilesDeleted, Sweep, Start, Register, ForceShutdown, ScriptCloses,
           Stop, CloseRows, MarkStopped, Exit, Crash, InstanceGrowsOld, RowGrowsOld
<1>3. RowsInv /\ [Next]_vars =>
        [/\ \A r \in Recordings :
              Live(r) /\ (row'[r] = NoRow \/ row'[r].end = "start")
                => proc[rec[r].by] = "close" \/ rec[r].by \in forced
         /\ \A r \in files :
              rec[r].stage \in Held /\ proc[rec[r].by] = "run" => r \in files']_vars
  BY <1>1, <1>2
<1> QED BY <1>3, RowsInductive, PTL DEF Spec, EndsOnlyWithOwner
====
