---- MODULE VoiceReceiverBook ----
(***************************************************************************)
(* The tasks of VoiceReceiver keep the ledger of RecordingBook: the stage  *)
(* of a recording is read off the map or the task that has it.             *)
(***************************************************************************)
EXTENDS VoiceReceiver

\* The event task takes a recording out of the maps to resume it ("rejoin") or
\* to park it ("park"); whatever else a task takes out it closes.
Carrying(r, label) == r \in held[Event] /\ pc[Event] = label
Closing(t) ==
  IF t = Event /\ pc[t] \in {"rejoin", "park"} THEN {} ELSE held[t]

Stage(r) ==
  IF row[r] # "open" THEN row[r]
  ELSE IF r \in Written \/ Carrying(r, "park") THEN "recording"
  ELSE IF r \in PausedNow \/ Carrying(r, "rejoin") THEN "paused"
  ELSE IF \E t \in Tasks : r \in Closing(t)
       THEN IF r \in finished THEN "finished" ELSE "closing"
  ELSE "lost"

Book == INSTANCE RecordingBook WITH life <- [r \in Recs |-> Stage(r)]

\* Whatever the events, the health checker and the timeouts do to each other, a
\* recording is opened once, paused and resumed only while nobody closes it, and
\* then closed by one task, finished and given its end_ts in that order.  A
\* recording is lost only if it was paused when the receiver was cleared, if its
\* file or its UPDATE failed, or if another recording of its user took its SSRC.
BookSpec == Book!Spec
====
