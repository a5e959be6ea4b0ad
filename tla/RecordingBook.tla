---- MODULE RecordingBook ----
(***************************************************************************)
(* What the Receiver of src/src/events/voice_receiver.rs promises of its   *)
(* recordings, as a ledger: nothing of SSRCs, users, maps, timeouts or     *)
(* tasks, only how far each recording has come.  A recording is opened     *)
(* once, may be paused and resumed, and is then either closed, finished    *)
(* and ended in that order, or lost: its row stays open and nothing of the *)
(* process comes back to it.                                               *)
(***************************************************************************)
CONSTANTS
  Recs,      \* the recordings
  RecUser    \* whose they are

VARIABLE life   \* how far each recording has come

Stages == {"none", "recording", "paused", "closing", "finished", "closed", "lost"}

Init == life = [r \in Recs |-> "none"]

\* One recording goes from a stage to a stage.
Moves(r, from, to) ==
  /\ life[r] = from
  /\ life' = [life EXCEPT ![r] = to]

\* Several recordings leave their stages together.
MoveAll(S, from, to) ==
  /\ \A r \in S : life[r] \in from
  /\ life' = [r \in Recs |-> IF r \in S THEN to ELSE life[r]]

Open(r)   == Moves(r, "none", "recording")
Fail(r)   == Moves(r, "none", "lost")            \* a row, but no file
Pause(r)  == Moves(r, "recording", "paused")
Resume(r) == Moves(r, "paused", "recording")
Close(S)  == MoveAll(S, {"recording", "paused"}, "closing")
Finish(r) == Moves(r, "closing", "finished")
End(r)    == Moves(r, "finished", "closed")
Unended(r) == Moves(r, "finished", "lost")       \* the UPDATE failed
Forget(S) == MoveAll(S, {"paused"}, "lost")

\* A recording takes the SSRC under which another of its user was left behind.
Displace(old, r) ==
  /\ RecUser[old] = RecUser[r] /\ old # r
  /\ life[old] = "recording"
  /\ life[r] \in {"recording", "paused"}
  /\ life' = [life EXCEPT ![old] = "lost", ![r] = "recording"]

Step(r) ==
  \/ Open(r) \/ Fail(r) \/ Pause(r) \/ Resume(r)
  \/ Finish(r) \/ End(r) \/ Unended(r)
  \/ \E old \in Recs : Displace(old, r)

Next ==
  /\ life' # life
  /\ \/ \E r \in Recs : Step(r)
     \/ \E S \in SUBSET Recs : Close(S) \/ Forget(S)

Spec == Init /\ [][Next]_life
====
