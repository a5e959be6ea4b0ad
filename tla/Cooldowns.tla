---- MODULE Cooldowns ----
(***************************************************************************)
(* The two cooldowns: of the jams of one member in one guild (cooldown.rs, *)
(* asked by /jam, by the Replay button and by jam_it) and of the stamps on *)
(* one member (commands/stamp.rs).  Each is read, and only later written,  *)
(* by requests that run side by side.                                      *)
(*                                                                         *)
(* One key of each table is followed; the others are independent.  What a  *)
(* request does after it was admitted, and the names a stamp observes      *)
(* before it looks at the clock, change nothing here.  Instant and the     *)
(* wall clock run alike.  The jams are kept in a map of the process, which  *)
(* starts empty; the stamps are rows that all instances share.             *)
(***************************************************************************)
EXTENDS Integers, FiniteSetsExt

CONSTANTS
  Requests,     \* what members ask for: a jam or a stamp each
  Second,       \* time units of a second
  Limits,       \* the seconds an administrator may set
  StampLimit,   \* STAMP_COOLDOWN_MS, in seconds
  MaxTime,      \* bound: how long the clock runs
  MaxEdits,     \* bound: changes of a limit
  Faults,       \* may a statement fail?
  Unset         \* no row, no entry

ASSUME CooldownAssumption ==
  /\ {Second, StampLimit} \subseteq Nat \ {0}
  /\ Limits \subseteq Nat /\ Unset \notin Int
  /\ {MaxTime, MaxEdits} \subseteq Nat
  /\ Faults \in BOOLEAN

VARIABLES
  now,       \* the clock
  override,  \* the row of user_jam_cooldown_overrides
  base,      \* the row of guild_jam_cooldowns
  edits,     \* how often they were changed
  last,      \* JamCooldown.last
  stamps,    \* stamp_ts of the rows of stamps
  request    \* what each request does, and what it has read

tables == <<override, base, edits>>
vars   == <<now, tables, last, stamps, request>>

----
Labels == {"idle", "override", "base", "clock", "look", "record", "newest", "insert",
           "admitted", "refused", "failed"}
Over   == {"admitted", "refused", "failed"}

\* secs is the limit the request is held to, at the time it reads, told the
\* seconds it is told to wait; before (history) who was answered already.
Request == [pc : Labels, kind : {"jam", "stamp"}, secs : Limits \cup {0, StampLimit},
            at : 0 .. MaxTime, told : Nat, before : SUBSET Requests]
Idle    == [pc |-> "idle", kind |-> "jam", secs |-> 0, at |-> 0, told |-> 0, before |-> {}]

Is(q, kind, label) == request[q].kind = kind /\ request[q].pc = label
Become(q, r)       == request' = [request EXCEPT ![q] = r]
Goto(q, label)     == Become(q, [request[q] EXCEPT !.pc = label])
Refuse(q, seconds) == Become(q, [request[q] EXCEPT !.pc = "refused", !.told = seconds])

Init ==
  /\ now = 0
  /\ override \in Limits \cup {Unset}
  /\ base \in Limits \cup {Unset}
  /\ edits = 0
  /\ last = Unset
  /\ stamps = {}
  /\ request = [q \in Requests |-> Idle]

Elapse ==
  /\ now < MaxTime
  /\ now' = now + 1
  /\ UNCHANGED <<tables, last, stamps, request>>

\* An administrator edits a limit; it takes effect at the next look.
Edit ==
  /\ edits < MaxEdits
  /\ edits' = edits + 1
  /\ \/ override' \in Limits \cup {Unset} /\ UNCHANGED base
     \/ base' \in Limits \cup {Unset} /\ UNCHANGED override
  /\ UNCHANGED <<now, last, stamps, request>>

Answered == {q \in Requests : request[q].pc \in Over}

\* Bound: all ask for the same, since jams and stamps do not meet.
Ask(q, kind) ==
  /\ request[q] = Idle
  /\ \A r \in Requests : request[r] # Idle => request[r].kind = kind
  /\ Become(q, [Idle EXCEPT !.pc = IF kind = "jam" THEN "override" ELSE "clock",
                            !.kind = kind,
                            !.secs = IF kind = "jam" THEN 0 ELSE StampLimit,
                            !.before = Answered])
  /\ UNCHANGED <<now, tables, last, stamps>>

----
(***************************************************************************)
(* check_and_record                                                        *)
(***************************************************************************)

\* resolve_cooldown: the override comes first; an error means no limit.
ReadOverride(q, failed) ==
  /\ Is(q, "jam", "override")
  /\ failed => Faults
  /\ IF ~failed /\ override = Unset
     THEN Goto(q, "base")
     ELSE Become(q, [request[q] EXCEPT !.pc = "clock", !.secs = IF failed THEN 0 ELSE override])
  /\ UNCHANGED <<now, tables, last, stamps>>

ReadBase(q, failed) ==
  /\ Is(q, "jam", "base")
  /\ failed => Faults
  /\ Become(q, [request[q] EXCEPT !.pc = "clock",
                                  !.secs = IF failed \/ base = Unset THEN 0 ELSE base])
  /\ UNCHANGED <<now, tables, last, stamps>>

\* Instant::now, or Utc::now; without a limit nothing is looked up.
ReadClock(q) ==
  /\ request[q].pc = "clock"
  /\ Become(q, [request[q] EXCEPT
                  !.at = now,
                  !.pc = IF request[q].kind = "stamp" THEN "newest"
                         ELSE IF request[q].secs = 0 THEN "record" ELSE "look"])
  /\ UNCHANGED <<now, tables, last, stamps>>

\* Mutant of JamWait: a begun second does not count.
JamWaitCut(remaining) == remaining \div Second

\* remaining.as_secs() + 1
JamWait(remaining) == remaining \div Second + 1

\* duration_since does not go below zero, when another request was faster.
Elapsed(q) == IF request[q].at < last THEN 0 ELSE request[q].at - last

Look(q) ==
  /\ Is(q, "jam", "look")
  /\ LET limit == request[q].secs * Second
     IN  IF last # Unset /\ Elapsed(q) < limit
         THEN Refuse(q, JamWait(limit - Elapsed(q)))
         ELSE Goto(q, "record")
  /\ UNCHANGED <<now, tables, last, stamps>>

\* Mutant of Record: an entry that is there is kept.
RecordOnce(q) ==
  /\ Is(q, "jam", "record")
  /\ last' = IF last = Unset THEN request[q].at ELSE last
  /\ Goto(q, "admitted")
  /\ UNCHANGED <<now, tables, stamps>>

\* The entry is replaced, by an older time too.
Record(q) ==
  /\ Is(q, "jam", "record")
  /\ last' = request[q].at
  /\ Goto(q, "admitted")
  /\ UNCHANGED <<now, tables, stamps>>

----
(***************************************************************************)
(* handle_stamp                                                            *)
(***************************************************************************)

\* Mutant of StampWait: what has passed, less the limit.
StampWaitSwapped(delta) == (delta - StampLimit * Second) \div Second

\* The seconds begun of what is left, which is more than the limit if another
\* request has read the clock later and inserted first.
StampWait(delta) == (StampLimit * Second - delta + Second - 1) \div Second

\* MAX(stamp_ts); an error means no limit.
NewestStamp(q, failed) ==
  LET delta == request[q].at - Max(stamps)
  IN  /\ Is(q, "stamp", "newest")
      /\ failed => Faults
      /\ IF failed THEN Become(q, [request[q] EXCEPT !.pc = "insert", !.secs = 0])
         ELSE IF stamps # {} /\ delta < StampLimit * Second
              THEN Refuse(q, StampWait(delta))
              ELSE Goto(q, "insert")
      /\ UNCHANGED <<now, tables, last, stamps>>

\* After the lookup of the recording.
InsertStamp(q, failed) ==
  /\ Is(q, "stamp", "insert")
  /\ failed => Faults
  /\ stamps' = IF failed THEN stamps ELSE stamps \cup {request[q].at}
  /\ Goto(q, IF failed THEN "failed" ELSE "admitted")
  /\ UNCHANGED <<now, tables, last>>

----
Step(q) ==
  \/ \E failed \in BOOLEAN : ReadOverride(q, failed)
  \/ \E failed \in BOOLEAN : ReadBase(q, failed)
  \/ ReadClock(q)
  \/ Look(q)
  \/ Record(q)
  \/ \E failed \in BOOLEAN : NewestStamp(q, failed)
  \/ \E failed \in BOOLEAN : InsertStamp(q, failed)

Next ==
  \/ Elapse
  \/ Edit
  \/ \E q \in Requests : \E kind \in {"jam", "stamp"} : Ask(q, kind)
  \/ \E q \in Requests : Step(q)

Spec == Init /\ [][Next]_vars

----
\* Every variable keeps its type; nobody is told to wait a negative time.
TypeOK ==
  /\ now \in 0 .. MaxTime
  /\ {override, base} \subseteq Limits \cup {Unset}
  /\ edits \in 0 .. MaxEdits
  /\ last \in 0 .. MaxTime \cup {Unset}
  /\ stamps \subseteq 0 .. MaxTime
  /\ request \in [Requests -> Request]

Same(a, b)    == a # b /\ request[a].kind = request[b].kind
After(b, a)   == a \in request[b].before
Overlap(a, b) == Same(a, b) /\ request[b].pc # "idle" /\ ~After(a, b) /\ ~After(b, a)
Alone(a)      == \A b \in Requests : ~Overlap(a, b)

\* A request that was admitted after the answer to another keeps the distance
\* of the limit it was held to, although check and record are two steps: for
\* stamps always, for jams if the earlier one overlapped no third that could
\* put an older time over its own ("TOCTOU: two /stamp calls ... can both pass
\* this check"; check_and_record).
CooldownKept ==
  \A a, b \in Requests :
    /\ Same(a, b) /\ After(b, a)
    /\ request[a].pc = "admitted" /\ request[b].pc = "admitted"
    /\ request[a].kind = "jam" => Alone(a)
    => request[b].secs = 0 \/ request[b].at - request[a].at >= request[b].secs * Second

\* Who was told to wait ("... s remaining", "Try again in ...s") and asks again
\* when that time is over is not refused under the same limit, unless another
\* request was admitted that was not answered when he first asked.
WaitIsEnough ==
  \A a, b \in Requests :
    /\ Same(a, b) /\ After(b, a)
    /\ request[a].pc = "refused" /\ request[b].pc = "refused"
    /\ request[a].secs = request[b].secs
    /\ request[b].at >= request[a].at + request[a].told * Second
    => \E c \in Requests : /\ Same(a, c) /\ ~After(a, c)
                           /\ request[c].pc = "admitted"
====
