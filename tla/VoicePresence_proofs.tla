---- MODULE VoicePresence_proofs ----
(***************************************************************************)
(* Types of VoicePresence, and what it tells of a member once his events   *)
(* have been handled one after the other: the rows replay to the cache and *)
(* the gauges follow it, for any members, channels, flags and bounds.      *)
(***************************************************************************)
EXTENDS VoicePresence, FiniteSetTheorems, SequenceTheorems, NaturalsInduction, WellFoundedInduction, TLAPS

\* The gauge and the start time of u are those of a voice state, as events up
\* to the n-th have left it.
Kept(u, voice, n) ==
  /\ presence[u] = voice
  /\ voice = Away => since[u] = Away
  /\ voice # Away => /\ since[u] \in Entries(u)
                     /\ since[u] <= n
                     /\ \A d \in Entries(u) : d <= n => d <= since[u]

\* At most one task of u is at work, for his last event, and the metrics are those
\* of the state before it; when he comes they need not be.
Tracked(u) ==
  \/ Working(u) = {} /\ Kept(u, state[u], Len(events))
  \/ \E e \in DOMAIN events :
       /\ Working(u) = {e}
       /\ events[e].new = state[u]
       /\ \A d \in DOMAIN events : events[d].who = u => d <= e
       /\ events[e].old # Away => Kept(u, events[e].old, e - 1)

\* So it is if tasks do not overlap, for whoever was not missed.
KeptInv == ~overlap => \A u \in Users \ missed : Tracked(u)

\* Rows that put a member where a voice state has him, and agree on its flags.
Replays(rows, voice) ==
  /\ Place(rows) = IF voice = Away THEN Away ELSE voice.chan
  /\ voice # Away =>
       \A f \in Flags : Told(rows, f) \in {"join", IF f \in voice.flags THEN "on" ELSE "off"}

\* The rows of u that are there, with those a task has still to insert, replay to
\* the state of the cache.
ReplaysTo(u) ==
  \/ Working(u) = {} /\ Replays(log[u], state[u])
  \/ \E e \in DOMAIN events : Working(u) = {e} /\ Replays(log[u] \o task[e].todo, state[u])

\* The members whose timeline is claimed to replay.
Whole == Users \ (Bots \cup missed \cup lost)

ReplayInv == ~overlap => \A u \in Whole : ReplaysTo(u)

\* A task has inserted its rows when it goes on to the metrics.
InsertedInv == \A e \in DOMAIN events : task[e].pc = "track" => task[e].todo = <<>>

----
(***************************************************************************)
(* Sets of bits and of places in a timeline.                               *)
(***************************************************************************)

\* The bounds, one by one.
LEMMA Bounds == /\ NumFlags \in Nat /\ MaxEvents \in Nat /\ MaxAsks \in Nat
                /\ Away \notin Channels /\ Bots \subseteq Users
BY PresenceAssumption

\* A set of numbers has a least one.
LEMMA LeastOf == ASSUME NEW T \in SUBSET Nat, T # {} PROVE \E x \in T : \A y \in T : x <= y
<1>1. PICK x \in T : \A y \in T : ~(<<y, x>> \in OpToRel(<, Nat))
  BY NatLessThanWellFounded, WFMin
<1>2. \A y \in T : ~(y < x)
  BY <1>1 DEF OpToRel
<1> QED BY <1>2

\* A set of places has a last one.
LEMMA GreatestOf ==
  ASSUME NEW n \in Nat, NEW I \in SUBSET (1 .. n), I # {}
  PROVE  \E p \in I : \A q \in I : q <= p
<1> DEFINE T == {m \in Nat : \A q \in I : q <= m}
<1>1. n \in T
  OBVIOUS
<1>2. PICK m \in T : \A k \in T : m <= k
  <2>1. T \in SUBSET Nat /\ T # {}
    BY <1>1
  <2> HIDE DEF T
  <2> QED BY <2>1, LeastOf
<1>3. m \in Nat /\ \A q \in I : q <= m
  BY <1>2
<1>4. m \in I
  <2> SUFFICES ASSUME m \notin I PROVE FALSE
    OBVIOUS
  <2>1. m # 0
    <3>1. PICK q \in I : TRUE
      OBVIOUS
    <3>2. q \in 1 .. n /\ q <= m
      BY <1>3
    <3> HIDE DEF T
    <3> QED BY <1>3, <3>2
  <2>2. m - 1 \in T
    BY <1>3, <2>1
  <2> QED BY <1>2, <1>3, <2>2
<1> QED BY <1>3, <1>4

\* The bits of a set can be put in order.
LEMMA RisingExists ==
  ASSUME NEW N \in Nat
  PROVE  \A S \in SUBSET (1 .. N) :
           \E bits \in [1 .. Cardinality(S) -> S] :
             \A m, n \in 1 .. Cardinality(S) : m < n => bits[m] < bits[n]
<1> DEFINE Ordered(S) == \E bits \in [1 .. Cardinality(S) -> S] :
                           \A m, n \in 1 .. Cardinality(S) : m < n => bits[m] < bits[n]
           Bad == {k \in Nat : \E S \in SUBSET (1 .. k) : ~Ordered(S)}
<1> SUFFICES Bad = {}
  OBVIOUS
<1> SUFFICES ASSUME Bad # {} PROVE FALSE
  OBVIOUS
<1>1. PICK k \in Bad : \A j \in Bad : k <= j
  <2>1. Bad \in SUBSET Nat
    OBVIOUS
  <2> HIDE DEF Bad
  <2> QED BY <2>1, LeastOf
<1>2. PICK S \in SUBSET (1 .. k) : ~Ordered(S)
  BY DEF Bad
<1>3. k \in Nat
  BY DEF Bad
<1> HIDE DEF Bad, Ordered
<1>4. IsFiniteSet(S)
  <2>1. IsFiniteSet(1 .. k)
    BY <1>3, FS_Interval
  <2> QED BY <2>1, FS_Subset
<1>5. Cardinality(S) \in Nat
  BY <1>4, FS_CardinalityType
<1>6. k # 0
  <2> SUFFICES ASSUME k = 0 PROVE FALSE
    OBVIOUS
  <2>1. S = {}
    OBVIOUS
  <2>2. Cardinality(S) = 0
    BY <2>1, FS_EmptySet
  <2>3. [m \in 1 .. 0 |-> 0] \in [1 .. 0 -> S]
    OBVIOUS
  <2>4. Ordered(S)
    <3>1. \A m, n \in 1 .. 0 : m < n => FALSE
      OBVIOUS
    <3> QED BY <2>2, <2>3, <3>1 DEF Ordered
  <2> QED BY <1>2, <2>4
<1>7. \A R \in SUBSET (1 .. k - 1) : Ordered(R)
  <2>1. k - 1 \in Nat /\ ~(k <= k - 1)
    BY <1>3, <1>6
  <2>2. k - 1 \notin Bad
    BY <1>1, <2>1
  <2> QED BY <2>1, <2>2 DEF Bad
<1>8. k \in S
  <2> SUFFICES ASSUME k \notin S PROVE FALSE
    OBVIOUS
  <2>1. S \in SUBSET (1 .. k - 1)
    BY <1>3
  <2> HIDE DEF Ordered, Bad
  <2> QED BY <1>2, <1>7, <2>1
<1> DEFINE c == Cardinality(S)
           R == S \ {k}
<1>9. Cardinality(R) = c - 1
  BY <1>4, <1>8, FS_RemoveElement
<1>10. R \in SUBSET (1 .. k - 1)
  BY <1>3
<1>11. PICK low \in [1 .. c - 1 -> R] : \A m, n \in 1 .. c - 1 : m < n => low[m] < low[n]
  BY <1>7, <1>9, <1>10 DEF Ordered
<1> DEFINE bits == [m \in 1 .. c |-> IF m < c THEN low[m] ELSE k]
<1> HIDE DEF R
<1>12. ASSUME NEW m \in 1 .. c, m < c PROVE bits[m] = low[m] /\ low[m] \in R
  <2>1. m \in 1 .. c - 1
    BY <1>5, <1>12
  <2>2. low[m] \in R
    BY <2>1
  <2> QED BY <1>12, <2>2
<1>13. \A m \in 1 .. c : bits[m] \in S
  BY <1>5, <1>8, <1>12 DEF R
<1>14. ASSUME NEW m \in 1 .. c, NEW n \in 1 .. c, m < n PROVE bits[m] < bits[n]
  <2>1. m < c /\ bits[m] = low[m] /\ low[m] \in R
    BY <1>5, <1>12, <1>14
  <2>2. CASE n < c
    <3>1. bits[n] = low[n]
      BY <1>12, <2>2
    <3> QED BY <1>5, <1>11, <1>14, <2>1, <2>2, <3>1
  <2>3. CASE ~(n < c)
    <3>1. bits[n] = k
      BY <2>3
    <3>2. low[m] \in 1 .. k - 1
      BY <1>10, <2>1
    <3>3. low[m] < k
      BY <1>3, <3>2
    <3> QED BY <2>1, <3>1, <3>3
  <2> QED BY <2>2, <2>3
<1>15. bits \in [1 .. c -> S]
  BY <1>13
<1> HIDE DEF bits
<1>16. Ordered(S)
  BY <1>14, <1>15 DEF Ordered
<1> QED BY <1>2, <1>16

\* What Rising makes of a set of flags: each once.
LEMMA RisingIs ==
  ASSUME NEW S \in SUBSET Flags
  PROVE  /\ Cardinality(S) \in Nat
         /\ Rising(S) \in [1 .. Cardinality(S) -> S]
         /\ \A m, n \in 1 .. Cardinality(S) : Rising(S)[m] = Rising(S)[n] => m = n
         /\ \A f \in S : \E m \in 1 .. Cardinality(S) : Rising(S)[m] = f
<1> DEFINE c == Cardinality(S)
<1>1. IsFiniteSet(S) /\ IsFiniteSet(1 .. c) /\ c \in Nat /\ Cardinality(1 .. c) = c
  <2>1. IsFiniteSet(S)
    <3>1. IsFiniteSet(1 .. NumFlags)
      BY Bounds, FS_Interval
    <3> QED BY <3>1, FS_Subset DEF Flags
  <2>2. c \in Nat
    BY <2>1, FS_CardinalityType
  <2> QED BY <2>1, <2>2, FS_Interval
<1>2. /\ Rising(S) \in [1 .. c -> S]
      /\ \A m, n \in 1 .. c : m < n => Rising(S)[m] < Rising(S)[n]
  <2>1. \E bits \in [1 .. c -> S] : \A m, n \in 1 .. c : m < n => bits[m] < bits[n]
    BY Bounds, RisingExists DEF Flags
  <2> HIDE DEF c
  <2> QED BY <2>1 DEF Rising, c
<1> HIDE DEF c
<1>3. \A m, n \in 1 .. c : Rising(S)[m] = Rising(S)[n] => m = n
  <2> SUFFICES ASSUME NEW m \in 1 .. c, NEW n \in 1 .. c, Rising(S)[m] = Rising(S)[n], m # n
               PROVE  FALSE
    OBVIOUS
  <2>1. Rising(S)[m] \in Int /\ Rising(S)[n] \in Int
    <3>1. Rising(S)[m] \in S /\ Rising(S)[n] \in S
      BY <1>2
    <3>2. S \subseteq Int
      BY Bounds DEF Flags
    <3> QED BY <3>1, <3>2
  <2>2. m < n \/ n < m
    BY <1>1
  <2>3. Rising(S)[m] < Rising(S)[n] \/ Rising(S)[n] < Rising(S)[m]
    BY <1>2, <2>2
  <2> QED BY <2>1, <2>3
<1>4. Rising(S) \in Surjection(1 .. c, S)
  <2>1. Rising(S) \in Injection(1 .. c, S)
    BY <1>2, <1>3 DEF Injection, IsInjective
  <2> QED BY <1>1, <2>1, FS_Injection DEF c
<1>5. \A f \in S : \E m \in 1 .. c : Rising(S)[m] = f
  BY <1>4 DEF Surjection
<1> QED BY <1>1, <1>2, <1>3, <1>5 DEF c

----
(***************************************************************************)
(* Types.                                                                  *)
(***************************************************************************)

\* The rows of an event.
LEMMA RowsOfType ==
  ASSUME NEW u \in Users, NEW old \in Voice \cup {Away}, NEW new \in Voice \cup {Away},
         NEW flags \in SUBSET Flags
  PROVE  RowsOf(u, old, new, flags) \in Seq(Rows)
<1>1. ASSUME NEW r \in Rows PROVE <<r>> \in Seq(Rows)
  OBVIOUS
<1>2. <<>> \in Seq(Rows)
  OBVIOUS
<1>3. \A v \in Voice : v.chan \in Channels /\ v.flags \in SUBSET Flags
  BY DEF Voice
<1>4. ChannelRows(old, new) \in Seq(Rows)
  <2>1. \A c \in Channels, w \in {"join", "leave", "switch"} : [what |-> w, of |-> c] \in Rows
    BY DEF Rows
  <2>2. CASE old = Away /\ new # Away
    <3>1. ChannelRows(old, new) = << [what |-> "join", of |-> new.chan] >>
      BY <2>2 DEF ChannelRows
    <3> QED BY <1>1, <1>3, <2>1, <2>2, <3>1
  <2>3. CASE old # Away /\ new = Away
    <3>1. ChannelRows(old, new) = << [what |-> "leave", of |-> old.chan] >>
      BY <2>3 DEF ChannelRows
    <3> QED BY <1>1, <1>3, <2>1, <2>3, <3>1
  <2>4. CASE old # Away /\ new # Away /\ old.chan # new.chan
    <3>1. ChannelRows(old, new) = << [what |-> "switch", of |-> new.chan] >>
      BY <2>4 DEF ChannelRows
    <3> QED BY <1>1, <1>3, <2>1, <2>4, <3>1
  <2>5. CASE ~(old = Away /\ new # Away) /\ ~(old # Away /\ new = Away)
             /\ ~(old # Away /\ new # Away /\ old.chan # new.chan)
    <3>1. ChannelRows(old, new) = <<>>
      BY <2>5, Zenon DEF ChannelRows
    <3> QED BY <1>2, <3>1
  <2> QED BY <2>2, <2>3, <2>4, <2>5
<1>5. FlagRows(old, flags) \in Seq(Rows)
  <2>1. CASE old = Away
    BY <1>2, <2>1 DEF FlagRows
  <2>2. CASE old # Away
    <3> DEFINE changed == (old.flags \cup flags) \ (old.flags \cap flags)
               bits == Rising(changed)
               c == Cardinality(changed)
               Row(n) == [what |-> IF bits[n] \in flags THEN "on" ELSE "off", of |-> bits[n]]
    <3>1. changed \in SUBSET Flags
      BY <1>3, <2>2
    <3>2. c \in Nat /\ bits \in [1 .. c -> changed]
      BY <3>1, RisingIs
    <3>3. FlagRows(old, flags) = [n \in DOMAIN bits |-> Row(n)]
      BY <2>2, Zenon DEF FlagRows
    <3> HIDE DEF bits, c, changed
    <3>4. \A f \in Flags, w \in {"on", "off"} : [what |-> w, of |-> f] \in Rows
      BY DEF Rows
    <3>5. \A n \in 1 .. c : Row(n) \in Rows
      BY <3>1, <3>2, <3>4
    <3> HIDE DEF Row
    <3>6. FlagRows(old, flags) = [n \in 1 .. c |-> Row(n)]
      BY <3>2, <3>3
    <3> QED BY <3>2, <3>5, <3>6
  <2> QED BY <2>1, <2>2
<1>6. ChannelRows(old, new) \o FlagRows(old, flags) \in Seq(Rows)
  BY <1>4, <1>5, ConcatProperties
<1> QED BY <1>2, <1>6 DEF RowsOf

\* What TypeOK says of the members, of the tasks and of the stream.
GuildOK   == state \in [Users -> Voice \cup {Away}] /\ events \in Seq(Event) /\ Len(events) <= MaxEvents
TasksOK   == task \in [EventIds -> Task]
LogOK     == log \in [Users -> Seq(Rows)]
MetricsOK == presence \in [Users -> Voice \cup {Away}] /\ since \in [Users -> EventIds \cup {Away}]
HistoryOK == overlap \in BOOLEAN /\ missed \subseteq Users /\ lost \subseteq Users
ViewerOK  == /\ asked \in -1 .. MaxAsks /\ topic \in Topics
             /\ dirty \subseteq {"topic", "global", "voice"}
             /\ stream \in Stream /\ shown \in Shown

\* TypeOK in these parts, in a state and in the next one.
LEMMA TypeParts ==
  TypeOK <=> GuildOK /\ TasksOK /\ LogOK /\ MetricsOK /\ ViewerOK /\ HistoryOK
BY Zenon DEF TypeOK, GuildOK, TasksOK, LogOK, MetricsOK, ViewerOK, HistoryOK

LEMMA PartsNext ==
  ASSUME GuildOK', TasksOK', LogOK', MetricsOK', ViewerOK', HistoryOK'
  PROVE  TypeOK'
BY Zenon DEF TypeOK, GuildOK, TasksOK, LogOK, MetricsOK, ViewerOK, HistoryOK

\* An event that was dispatched.
LEMMA EventIs ==
  ASSUME GuildOK, NEW e \in DOMAIN events
  PROVE  /\ e \in EventIds /\ events[e] \in Event
         /\ events[e].who \in Users
         /\ events[e].old \in Voice \cup {Away} /\ events[e].new \in Voice \cup {Away}
<1>1. e \in EventIds /\ events[e] \in Event
  BY Bounds DEF GuildOK, EventIds
<1> QED BY <1>1 DEF Event

\* The types of the first state.
LEMMA InitTypes == Init => TypeOK
<1> SUFFICES ASSUME Init PROVE TypeOK
  OBVIOUS
<1>1. GuildOK
  <2>1. events = <<>> /\ state \in [Users -> Voice \cup {Away}]
    BY DEF Init
  <2> QED BY <2>1, Bounds, EmptySeq DEF GuildOK
<1>2. TasksOK
  <2>1. Idle \in Task
    BY EmptySeq DEF Task, Idle
  <2> QED BY <2>1 DEF Init, TasksOK
<1>3. LogOK
  <2>1. <<>> \in Seq(Rows)
    BY EmptySeq
  <2> QED BY <2>1 DEF Init, LogOK
<1>4. MetricsOK
  BY DEF Init, MetricsOK, NoTimes
<1>5. ViewerOK
  <2>1. shown \in Shown /\ stream \in Stream
    BY DEF Init, Shown, Stream, Nothing, NoTimes, Closed, Topics
  <2>2. asked \in -1 .. MaxAsks
    <3>1. asked = 0
      BY DEF Init
    <3> QED BY <3>1, Bounds
  <2> QED BY <2>1, <2>2 DEF Init, ViewerOK, Topics
<1>6. HistoryOK
  BY DEF Init, HistoryOK
<1> QED BY <1>1, <1>2, <1>3, <1>4, <1>5, <1>6, TypeParts

\* An update of the gateway keeps them.
LEMMA UpdateTypes ==
  ASSUME TypeOK, NEW u \in Users, NEW new \in Voice \cup {Away},
         NEW flags \in SUBSET Flags, Update(u, new, flags)
  PROVE  TypeOK'
<1>1. GuildOK /\ TasksOK /\ HistoryOK
  BY TypeParts
<1> DEFINE e == Len(events) + 1
<1>2. e \in EventIds
  BY <1>1, Bounds DEF Update, GuildOK, EventIds
<1>3. state[u] \in Voice \cup {Away}
  BY <1>1 DEF GuildOK
<1>4. GuildOK'
  <2>1. [who |-> u, old |-> state[u], new |-> new] \in Event
    BY <1>3 DEF Event
  <2>2. events' = Append(events, [who |-> u, old |-> state[u], new |-> new])
    BY DEF Update
  <2>3. events' \in Seq(Event) /\ Len(events') = e
    BY <1>1, <2>1, <2>2, AppendProperties DEF GuildOK
  <2>4. state' \in [Users -> Voice \cup {Away}]
    BY <1>1 DEF Update, GuildOK
  <2> QED BY <2>3, <2>4 DEF Update, GuildOK
<1>5. TasksOK'
  <2>1. [pc |-> "route", todo |-> RowsOf(u, state[u], new, flags)] \in Task
    BY <1>3, RowsOfType DEF Task
  <2> QED BY <1>1, <1>2, <2>1 DEF Update, TasksOK
<1>6. HistoryOK'
  <2>1. overlap' = (overlap \/ Working(u) # {})
    BY DEF Update
  <2>2. overlap' \in BOOLEAN
    BY <2>1, Zenon
  <2>3. missed' \subseteq missed /\ lost' \subseteq lost
    BY DEF Update
  <2> QED BY <1>1, <2>2, <2>3 DEF HistoryOK
<1>7. UNCHANGED <<log, metrics, viewer, dirty>>
  BY DEF Update
<1> QED BY <1>4, <1>5, <1>6, <1>7, TypeParts, PartsNext DEF LogOK, MetricsOK, ViewerOK, metrics, viewer

\* So does each step of the task of an event.
LEMMA HandleTypes ==
  ASSUME TypeOK, NEW e \in DOMAIN events, Handle(e)
  PROVE  TypeOK'
<1>1. GuildOK /\ TasksOK /\ LogOK /\ MetricsOK /\ ViewerOK /\ HistoryOK
  BY TypeParts
<1>2. /\ e \in EventIds /\ events[e].who \in Users
      /\ events[e].old \in Voice \cup {Away} /\ events[e].new \in Voice \cup {Away}
  BY <1>1, EventIs
<1>3. task[e] \in Task /\ task[e].todo \in Seq(Rows)
  BY <1>1, <1>2 DEF TasksOK, Task
<1>4. ASSUME NEW failed \in BOOLEAN, Insert(e, failed) PROVE TypeOK'
  <2>1. Head(task[e].todo) \in Rows /\ Tail(task[e].todo) \in Seq(Rows)
    BY <1>3, <1>4, HeadTailProperties DEF Insert
  <2>2. LogOK'
    <3>1. log[events[e].who] \in Seq(Rows)
      BY <1>1, <1>2 DEF LogOK
    <3>2. Append(log[events[e].who], Head(task[e].todo)) \in Seq(Rows)
      BY <2>1, <3>1, AppendProperties
    <3> QED BY <1>1, <1>2, <1>4, <3>2 DEF Insert, LogOK
  <2>3. TasksOK'
    <3>1. [task[e] EXCEPT !.todo = Tail(@)] \in Task
      BY <1>3, <2>1 DEF Task
    <3>2. task' = [task EXCEPT ![e] = [task[e] EXCEPT !.todo = Tail(@)]]
      BY <1>4 DEF Insert
    <3> QED BY <1>1, <1>2, <3>1, <3>2 DEF TasksOK
  <2>4. UNCHANGED <<guild, metrics, viewer, dirty>> /\ HistoryOK'
    BY <1>1, <1>2, <1>4 DEF Insert, HistoryOK
  <2> QED BY <1>1, <2>2, <2>3, <2>4, PartsNext
          DEF GuildOK, MetricsOK, ViewerOK, guild, metrics, viewer
<1>5. CASE Announce(e)
  <2>1. TasksOK'
    <3>1. [task[e] EXCEPT !.pc = "track"] \in Task
      BY <1>3 DEF Task
    <3>2. task' = [task EXCEPT ![e] = [task[e] EXCEPT !.pc = "track"]]
      BY <1>5 DEF Announce
    <3> QED BY <1>1, <1>2, <3>1, <3>2 DEF TasksOK
  <2>2. dirty' \subseteq {"topic", "global", "voice"}
    BY <1>1, <1>5 DEF Announce, ViewerOK
  <2>3. UNCHANGED <<guild, log, metrics, viewer, history>>
    BY <1>5 DEF Announce
  <2> QED BY <1>1, <2>1, <2>2, <2>3, PartsNext
          DEF GuildOK, LogOK, MetricsOK, ViewerOK, HistoryOK, guild, metrics, viewer, history
<1>6. CASE Track(e)
  <2>1. TasksOK'
    <3>1. [task[e] EXCEPT !.pc = "done"] \in Task
      BY <1>3 DEF Task
    <3>2. task' = [task EXCEPT ![e] = [task[e] EXCEPT !.pc = "done"]]
      BY <1>6 DEF Track
    <3> QED BY <1>1, <1>2, <3>1, <3>2 DEF TasksOK
  <2>2. MetricsOK'
    <3>1. since[events[e].who] \in EventIds \cup {Away}
      BY <1>1, <1>2 DEF MetricsOK
    <3>2. TimeOf(e, since[events[e].who]) \in EventIds \cup {Away}
      BY <1>2, <3>1 DEF TimeOf
    <3> QED BY <1>1, <1>2, <1>6, <3>2 DEF Track, MetricsOK
  <2>3. UNCHANGED <<guild, log, viewer, dirty, history>>
    BY <1>6 DEF Track
  <2> QED BY <1>1, <2>1, <2>2, <2>3, PartsNext
          DEF GuildOK, LogOK, ViewerOK, HistoryOK, guild, viewer, history
<1>7. CASE Take(e) \/ Skip(e)
  <2>1. PICK l \in {"record", "skipped"} : task' = [task EXCEPT ![e] = [task[e] EXCEPT !.pc = l]]
    BY <1>7 DEF Take, Skip
  <2>2. TasksOK'
    <3>1. [task[e] EXCEPT !.pc = l] \in Task
      BY <1>3, <2>1 DEF Task
    <3> QED BY <1>1, <1>2, <2>1, <3>1 DEF TasksOK
  <2>3. UNCHANGED <<guild, log, metrics, viewer, dirty>>
    BY <1>7 DEF Take, Skip
  <2>4. HistoryOK'
    BY <1>1, <1>2, <1>7 DEF Take, Skip, HistoryOK, history
  <2> QED BY <1>1, <2>2, <2>3, <2>4, PartsNext
          DEF GuildOK, LogOK, MetricsOK, ViewerOK, guild, metrics, viewer
<1> QED BY <1>4, <1>5, <1>6, <1>7 DEF Handle

\* A step of the stream or of its client: what TypeOK says of the rest stays.
LEMMA ViewerOnly ==
  ASSUME TypeOK, UNCHANGED <<guild, task, log, metrics, history>>, ViewerOK'
  PROVE  TypeOK'
<1>1. GuildOK /\ TasksOK /\ LogOK /\ MetricsOK /\ HistoryOK
  BY TypeParts
<1> QED BY <1>1, PartsNext DEF GuildOK, TasksOK, LogOK, MetricsOK, HistoryOK, guild, metrics, history

\* What the stream holds.
LEMMA StreamIs ==
  /\ Closed \in Stream /\ Nothing \in Shown
  /\ \A s \in Stream :
       /\ s.pc \in {"off", "loop", "times", "build", "send", "wait"}
       /\ s.topic \in Topics /\ s.event \in Shown
       /\ s = [pc |-> s.pc, topic |-> s.topic, event |-> s.event]
  /\ \A l \in {"off", "loop", "times", "build", "send", "wait"}, t \in Topics, v \in Shown :
       [pc |-> l, topic |-> t, event |-> v] \in Stream
<1>1. Nothing \in Shown
  BY DEF Nothing, NoTimes, Shown
<1>2. Closed \in Stream
  BY <1>1 DEF Closed, Stream, Topics
<1> QED BY <1>1, <1>2 DEF Stream

\* So do the client and who wakes the stream.
LEMMA ClientTypes ==
  ASSUME TypeOK, Open \/ (\E t \in Topics : Ask(t)) \/ HangUp \/ GlobalUpdate
  PROVE  TypeOK'
<1>1. ViewerOK /\ GuildOK
  BY TypeParts
<1>2. CASE Open
  <2>1. stream' \in Stream
    <3>1. stream' = [pc |-> "loop", topic |-> "", event |-> Nothing]
      BY <1>2 DEF Open, Closed
    <3> QED BY <3>1, StreamIs DEF Topics
  <2>2. asked' \in -1 .. MaxAsks
    <3>1. asked' = 1 /\ MaxAsks > 0
      BY <1>2 DEF Open
    <3> QED BY <3>1, Bounds
  <2> QED BY <1>1, <1>2, <2>1, <2>2, ViewerOnly DEF Open, ViewerOK, viewer
<1>3. ASSUME NEW t \in Topics, Ask(t) PROVE TypeOK'
  <2>1. asked' \in -1 .. MaxAsks
    <3>1. asked \in 1 .. MaxAsks - 1 /\ asked' = asked + 1
      BY <1>3 DEF Ask
    <3> QED BY <3>1, Bounds
  <2> QED BY <1>1, <1>3, <2>1, ViewerOnly DEF Ask, ViewerOK
<1>4. CASE HangUp
  <2>1. asked' \in -1 .. MaxAsks
    <3>1. asked' = -1
      BY <1>4 DEF HangUp
    <3> QED BY <3>1, Bounds
  <2> QED BY <1>1, <1>4, <2>1, ViewerOnly DEF HangUp, ViewerOK
<1>5. CASE GlobalUpdate
  BY <1>1, <1>5, ViewerOnly DEF GlobalUpdate, ViewerOK, viewer
<1> QED BY <1>2, <1>3, <1>4, <1>5

\* So does the stream.
LEMMA StreamTypes == ASSUME TypeOK, Push \/ Tick PROVE TypeOK'
<1>1. ViewerOK /\ GuildOK /\ MetricsOK
  BY TypeParts
<1>2. /\ stream \in Stream /\ stream.event \in Shown
      /\ stream = [pc |-> stream.pc, topic |-> stream.topic, event |-> stream.event]
      /\ stream.pc \in {"off", "loop", "times", "build", "send", "wait"} /\ stream.topic \in Topics
  BY <1>1, StreamIs DEF ViewerOK
<1>3. CASE ReadTopic
  <2>1. stream' \in Stream
    <3>1. PICK l \in {"wait", "send", "times"} :
            stream' = [pc |-> l, topic |-> topic, event |-> stream.event]
      BY <1>2, <1>3 DEF ReadTopic
    <3> QED BY <1>1, <1>2, <3>1, StreamIs DEF ViewerOK
  <2> QED BY <1>1, <1>3, <2>1, ViewerOnly DEF ReadTopic, ViewerOK
<1>4. CASE ReadTimes
  <2>1. stream' \in Stream
    <3>1. [stream.event EXCEPT !.times = since] \in Shown
      BY <1>1, <1>2 DEF MetricsOK, Shown
    <3>2. stream' = [pc |-> "build", topic |-> stream.topic,
                     event |-> [stream.event EXCEPT !.times = since]]
      BY <1>2, <1>4 DEF ReadTimes
    <3> QED BY <1>2, <3>1, <3>2, StreamIs
  <2> QED BY <1>1, <1>4, <2>1, ViewerOnly DEF ReadTimes, ViewerOK
<1>5. CASE Build
  <2>1. stream' \in Stream
    <3> DEFINE built == [states |-> state,
                         times |-> [u \in Users |-> IF state[u] = Away THEN Away
                                                    ELSE stream.event.times[u]]]
    <3>1. stream.event.times \in [Users -> EventIds \cup {Away}]
      BY <1>2 DEF Shown
    <3>2. built \in Shown
      BY <1>1, <3>1 DEF GuildOK, Shown
    <3>3. stream' = [pc |-> "send", topic |-> stream.topic, event |-> built]
      BY <1>2, <1>5 DEF Build
    <3> QED BY <1>2, <3>2, <3>3, StreamIs
  <2> QED BY <1>1, <1>5, <2>1, ViewerOnly DEF Build, ViewerOK
<1>6. CASE Send
  <2>1. stream' \in Stream /\ shown' \in Shown
    <3>1. CASE asked = -1
      BY <1>1, <1>6, <3>1, StreamIs DEF Send, ViewerOK
    <3>2. CASE asked # -1
      <4>1. stream' = [pc |-> "wait", topic |-> stream.topic, event |-> Nothing]
        BY <1>2, <1>6, <3>2 DEF Send
      <4>2. shown' \in {shown, stream.event}
        BY <1>6, <3>2 DEF Send
      <4> QED BY <1>1, <1>2, <4>1, <4>2, StreamIs DEF ViewerOK
    <3> QED BY <3>1, <3>2
  <2> QED BY <1>1, <1>6, <2>1, ViewerOnly DEF Send, Unseen, ViewerOK
<1>7. ASSUME NEW w \in {"topic", "global", "voice"}, Changed(w) PROVE TypeOK'
  <2>1. stream' \in Stream
    <3>1. stream' = [pc |-> "loop", topic |-> stream.topic, event |-> stream.event]
      BY <1>2, <1>7 DEF Changed
    <3> QED BY <1>2, <3>1, StreamIs
  <2> QED BY <1>1, <1>7, <2>1, ViewerOnly DEF Changed, ViewerOK
<1>8. CASE TopicEnds
  BY <1>1, <1>8, StreamIs, ViewerOnly DEF TopicEnds, ViewerOK
<1>9. CASE Tick
  <2>1. stream' \in Stream
    <3>1. stream' = [pc |-> "loop", topic |-> stream.topic, event |-> stream.event]
      BY <1>2, <1>9 DEF Tick
    <3> QED BY <1>2, <3>1, StreamIs
  <2> QED BY <1>1, <1>9, <2>1, ViewerOnly DEF Tick, ViewerOK
<1> QED BY <1>3, <1>4, <1>5, <1>6, <1>7, <1>8, <1>9 DEF Push

LEMMA StutterTypes == ASSUME TypeOK, UNCHANGED vars PROVE TypeOK'
BY DEF TypeOK, vars, guild, metrics, viewer, history

\* So does every step.
LEMMA NextTypes == TypeOK /\ [Next]_vars => TypeOK'
<1> SUFFICES ASSUME TypeOK, [Next]_vars PROVE TypeOK'
  OBVIOUS
<1>1. CASE \E u \in Users : \E new \in Voice \cup {Away} :
            \E flags \in SUBSET Flags : Update(u, new, flags)
  BY <1>1, UpdateTypes
<1>2. CASE \E e \in DOMAIN events : Handle(e)
  BY <1>2, HandleTypes
<1>3. CASE Open \/ (\E t \in Topics : Ask(t)) \/ HangUp \/ GlobalUpdate
  BY <1>3, ClientTypes, Zenon
<1>4. CASE Push \/ Tick
  BY <1>4, StreamTypes, Zenon
<1>5. CASE UNCHANGED vars
  BY <1>5, StutterTypes
<1> QED BY <1>1, <1>2, <1>3, <1>4, <1>5, Zenon DEF Next

\* Every variable of VoicePresence keeps its type: the cache, the tasks and the
\* rows they insert, the gauges, and the stream with what it has sent.
THEOREM PresenceTypeCorrect == Spec => []TypeOK
<1> QED BY InitTypes, NextTypes, PTL DEF Spec

----
(***************************************************************************)
(* The gauges.                                                             *)
(***************************************************************************)

\* A step that moves nothing the metrics are about.
LEMMA KeptStays ==
  ASSUME KeptInv, UNCHANGED <<guild, metrics, overlap>>, missed \subseteq missed',
         \A u \in Users \ missed' : Working(u)' = Working(u)
  PROVE  KeptInv'
<1>1. UNCHANGED <<state, events, presence, since, overlap>>
  BY DEF guild, metrics
<1>2. \A u : Entries(u)' = Entries(u)
  BY <1>1 DEF Entries
<1>3. \A u \in Users \ missed' : Tracked(u) => Tracked(u)'
  BY <1>1, <1>2 DEF Tracked, Kept
<1> QED BY <1>1, <1>3 DEF KeptInv

\* A new event e: those before it stay, and its task is at work.
Dispatched(u, new, flags, e) ==
  /\ DOMAIN events = 1 .. e - 1 /\ DOMAIN events' = 1 .. e /\ Len(events') = e
  /\ events'[e].who = u /\ events'[e].old = state[u] /\ events'[e].new = new
  /\ \A d \in DOMAIN events : d \in Nat /\ d < e /\ events'[d] = events[d]
  /\ e \in EventIds /\ task'[e] = [pc |-> "route", todo |-> RowsOf(u, state[u], new, flags)]
  /\ \A d \in DOMAIN events : task'[d] = task[d]
  /\ Working(u)' = Working(u) \cup {e}
  /\ \A v \in Users \ {u} : Working(v)' = Working(v)

\* An update dispatches an event.
LEMMA UpdateIs ==
  ASSUME TypeOK, NEW u \in Users, NEW new \in Voice \cup {Away},
         NEW flags \in SUBSET Flags, Update(u, new, flags),
         NEW e \in Nat, e = Len(events) + 1
  PROVE  Dispatched(u, new, flags, e)
<1>1. GuildOK /\ TasksOK
  BY TypeParts
<1>2. e \in Nat /\ DOMAIN events = 1 .. e - 1 /\ Len(events) = e - 1
  BY <1>1 DEF GuildOK
<1>3. e \in EventIds
  BY <1>2, Bounds DEF Update, EventIds
<1>4. state[u] \in Voice \cup {Away}
  BY <1>1 DEF GuildOK
<1>5. /\ Len(events') = e /\ DOMAIN events' = 1 .. e
      /\ events'[e] = [who |-> u, old |-> state[u], new |-> new]
      /\ \A d \in 1 .. e - 1 : events'[d] = events[d]
  <2> DEFINE event == [who |-> u, old |-> state[u], new |-> new]
  <2>1. events \in Seq(Event) /\ event \in Event
    BY <1>1, <1>4 DEF GuildOK, Event
  <2>2. events' = Append(events, event)
    BY DEF Update
  <2> HIDE DEF event
  <2>3. /\ events' \in Seq(Event) /\ Len(events') = e
        /\ \A d \in 1 .. Len(events) : events'[d] = events[d]
        /\ events'[e] = event
    BY <2>1, <2>2, AppendProperties
  <2> QED BY <1>2, <2>3, LenProperties DEF event
<1>6. task' = [task EXCEPT ![e] = [pc |-> "route", todo |-> RowsOf(u, state[u], new, flags)]]
  BY DEF Update
<1>7. DOMAIN task = EventIds
  BY <1>1 DEF TasksOK
<1>8. /\ task'[e] = [pc |-> "route", todo |-> RowsOf(u, state[u], new, flags)]
      /\ \A d \in DOMAIN events : task'[d] = task[d]
  BY <1>2, <1>3, <1>6, <1>7
<1>9. Working(u)' = Working(u) \cup {e}
  BY <1>2, <1>5, <1>8 DEF Working
<1>10. \A v \in Users \ {u} : Working(v)' = Working(v)
  BY <1>2, <1>5, <1>8 DEF Working
<1> QED BY <1>2, <1>3, <1>5, <1>8, <1>9, <1>10 DEF Dispatched

\* A new event: its task is the only one of its member, if nothing overlaps.
LEMMA UpdateKept ==
  ASSUME TypeOK, KeptInv, NEW u \in Users, NEW new \in Voice \cup {Away},
         NEW flags \in SUBSET Flags, Update(u, new, flags)
  PROVE  KeptInv'
<1> SUFFICES ASSUME ~overlap', NEW v \in Users \ missed' PROVE Tracked(v)'
  BY DEF KeptInv
<1>1. ~overlap /\ Working(u) = {}
  BY DEF Update
<1> PICK e \in Nat : e = Len(events) + 1
  <2>1. GuildOK
    BY TypeParts
  <2> QED BY <2>1 DEF GuildOK
<1> PICK old : old = state[u]
  OBVIOUS
<1>2. /\ e \in Nat /\ DOMAIN events = 1 .. e - 1 /\ Len(events') = e
      /\ DOMAIN events' = 1 .. e
      /\ events'[e].who = u /\ events'[e].old = old /\ events'[e].new = new
      /\ \A d \in DOMAIN events : d \in Nat /\ d < e /\ events'[d] = events[d]
      /\ Working(u)' = Working(u) \cup {e}
      /\ \A w \in Users \ {u} : Working(w)' = Working(w)
  <2>1. Dispatched(u, new, flags, e)
    BY UpdateIs, Zenon
  <2> QED BY <2>1 DEF Dispatched
<1>3. presence' = presence /\ since' = since /\ state' = [state EXCEPT ![u] = new]
      /\ \A w \in Users \ missed' : w \in missed => w = u /\ old = Away
  BY DEF Update, metrics
<1>4. DOMAIN state = Users /\ Len(events) = e - 1
  <2>1. GuildOK
    BY TypeParts
  <2> QED BY <2>1 DEF GuildOK
<1>5. CASE v = u
  <2>1. Working(u)' = {e}
    BY <1>1, <1>2
  <2>2. ASSUME old # Away PROVE Kept(u, old, e - 1)
    <3>1. ~ \E d \in DOMAIN events : Working(u) = {d}
      BY <1>1
    <3>2. Kept(u, state[u], Len(events))
      <4>1. Tracked(u)
        BY <1>1, <1>3, <1>5, <2>2 DEF KeptInv
      <4> QED BY <1>1, <3>1, <4>1, Zenon DEF Tracked
    <3> QED BY <1>4, <3>2
  <2>3. \A d \in DOMAIN events : d \in Entries(u)' <=> d \in Entries(u)
    BY <1>2 DEF Entries
  <2>4. Entries(u) \subseteq DOMAIN events /\ \A d \in Entries(u)' : d <= e - 1 => d \in DOMAIN events
    BY <1>2 DEF Entries
  <2>5. old # Away => Kept(u, old, e - 1)'
    BY <1>2, <1>3, <2>2, <2>3, <2>4 DEF Kept
  <2>6. /\ events'[e].old = old /\ events'[e].new = state'[u] /\ e \in DOMAIN events'
        /\ \A d \in DOMAIN events' : d <= e
    BY <1>2, <1>3, <1>4
  <2> QED BY <1>5, <2>1, <2>5, <2>6 DEF Tracked
<1>6. CASE v # u
  <2>1. Entries(v)' = Entries(v) /\ Entries(v) \subseteq DOMAIN events
    BY <1>2, <1>6 DEF Entries
  <2>2. state'[v] = state[v] /\ Working(v)' = Working(v)
    BY <1>2, <1>3, <1>4, <1>6
  <2>3. ASSUME Working(v) = {} /\ Kept(v, state[v], Len(events)) PROVE Tracked(v)'
    <3>1. Kept(v, state[v], Len(events))'
      BY <1>2, <1>3, <1>4, <2>1, <2>2, <2>3 DEF Kept
    <3> QED BY <2>2, <2>3, <3>1 DEF Tracked
  <2>4. ASSUME NEW c \in DOMAIN events, Working(v) = {c}, events[c].new = state[v],
               \A d \in DOMAIN events : events[d].who = v => d <= c,
               events[c].old # Away => Kept(v, events[c].old, c - 1)
        PROVE  /\ Working(v)' = {c} /\ c \in DOMAIN events' /\ events'[c].new = state'[v]
               /\ \A d \in DOMAIN events' : events'[d].who = v => d <= c
               /\ events'[c].old # Away => Kept(v, events[c].old, c - 1)'
    <3>1. events'[c] = events[c] /\ c \in DOMAIN events'
      BY <1>2
    <3>2. events[c].old # Away => Kept(v, events[c].old, c - 1)'
      BY <1>3, <2>1, <2>4, <3>1 DEF Kept
    <3>3. \A d \in DOMAIN events' : events'[d].who = v => d <= c
      <4> SUFFICES ASSUME NEW d \in DOMAIN events', events'[d].who = v PROVE d <= c
        OBVIOUS
      <4>1. d # e /\ d \in DOMAIN events
        BY <1>2, <1>6
      <4> QED BY <1>2, <2>4, <4>1
    <3> QED BY <2>2, <2>4, <3>1, <3>2, <3>3
  <2>5. Tracked(v)
    BY <1>1, <1>3, <1>6 DEF KeptInv
  <2> QED BY <1>2, <2>3, <2>4, <2>5 DEF Tracked
<1> QED BY <1>5, <1>6

\* The last step of a task, for the last event of its member.
LEMMA TrackKept ==
  ASSUME TypeOK, KeptInv, NEW e \in DOMAIN events, Track(e)
  PROVE  KeptInv'
<1> SUFFICES ASSUME ~overlap', NEW v \in Users \ missed' PROVE Tracked(v)'
  BY DEF KeptInv
<1>1. GuildOK /\ TasksOK /\ MetricsOK
  BY TypeParts
<1>2. /\ e \in EventIds /\ events[e] \in Event
      /\ events[e].who \in Users
      /\ events[e].old \in Voice \cup {Away} /\ events[e].new \in Voice \cup {Away}
  BY <1>1, EventIs
<1> PICK u \in Users : u = events[e].who
  BY <1>2
<1> PICK event : event = events[e]
  OBVIOUS
<1>3. ~overlap /\ UNCHANGED <<state, events>> /\ Tracked(v)
  BY DEF Track, guild, history, KeptInv
<1>4. /\ \A d \in DOMAIN events : d # e => task'[d] = task[d]
      /\ task'[e].pc = "done" /\ task[e].pc = "track"
  BY <1>1, <1>2 DEF Track, TasksOK
<1>5. \A w \in Users : Entries(w)' = Entries(w)
  BY <1>3 DEF Entries
<1>6. Working(u)' = Working(u) \ {e} /\ e \in Working(u)
  BY <1>3, <1>4 DEF Working
<1>7. \A w \in Users \ {u} : Working(w)' = Working(w)
  BY <1>3, <1>4 DEF Working
<1>8. /\ presence' = [presence EXCEPT ![u] = event.new]
      /\ since' = [since EXCEPT ![u] = TimeOf(e, since[u])]
  BY DEF Track
<1>9. DOMAIN presence = Users /\ DOMAIN since = Users
  BY <1>1 DEF MetricsOK
<1>10. DOMAIN events = 1 .. Len(events) /\ Len(events) \in Nat
  BY <1>1 DEF GuildOK
<1>11. CASE v = u
  <2>1. /\ Working(u) = {e} /\ event.new = state[u]
        /\ \A d \in DOMAIN events : events[d].who = u => d <= e
        /\ event.old # Away => Kept(u, event.old, e - 1)
    <3>1. PICK d \in DOMAIN events :
            /\ Working(u) = {d} /\ events[d].new = state[u]
            /\ \A c \in DOMAIN events : events[c].who = u => c <= d
            /\ events[d].old # Away => Kept(u, events[d].old, d - 1)
      <4>1. Working(u) # {}
        BY <1>6
      <4> QED BY <1>3, <1>11, <4>1, Zenon DEF Tracked
    <3>2. d = e
      BY <1>6, <3>1
    <3> QED BY <3>1, <3>2
  <2>2. \A d \in Entries(u) : d \in DOMAIN events /\ d \in Nat /\ d <= e /\ d <= Len(events)
    BY <1>10, <2>1 DEF Entries
  <2>3. presence'[u] = event.new /\ since'[u] = TimeOf(e, since[u])
    BY <1>8, <1>9
  <2>4. e \in Nat /\ e <= Len(events)
    BY <1>10
  <2>5. CASE event.new = Away
    <3>1. since'[u] = Away
      BY <2>3, <2>5 DEF TimeOf
    <3>2. Kept(u, event.new, Len(events))'
      BY <2>3, <2>5, <3>1 DEF Kept
    <3> QED BY <1>3, <1>6, <1>11, <2>1, <3>2 DEF Tracked
  <2>6. CASE event.new # Away /\ event.old # Away /\ event.old.chan = event.new.chan
    <3>1. since'[u] = since[u] /\ e \notin Entries(u)
      BY <2>3, <2>6 DEF TimeOf, Entries
    <3>2. since[u] \in Entries(u) /\ \A d \in Entries(u) : d <= e - 1 => d <= since[u]
      BY <2>1, <2>6 DEF Kept
    <3>3. \A d \in Entries(u) : d <= since[u]
      BY <2>2, <2>4, <3>1, <3>2
    <3>4. Kept(u, event.new, Len(events))'
      BY <1>3, <1>5, <2>2, <2>3, <2>6, <3>1, <3>2, <3>3 DEF Kept
    <3> QED BY <1>3, <1>6, <1>11, <2>1, <3>4 DEF Tracked
  <2>7. CASE event.new # Away /\ (event.old = Away \/ event.old.chan # event.new.chan)
    <3>1. since'[u] = e
      BY <2>3, <2>7 DEF TimeOf
    <3>2. e \in Entries(u)
      BY <2>7 DEF Entries
    <3>3. Kept(u, event.new, Len(events))'
      BY <1>3, <1>5, <2>2, <2>3, <2>4, <2>7, <3>1, <3>2 DEF Kept
    <3> QED BY <1>3, <1>6, <1>11, <2>1, <3>3 DEF Tracked
  <2> QED BY <2>5, <2>6, <2>7
<1>12. CASE v # u
  <2>1. presence'[v] = presence[v] /\ since'[v] = since[v] /\ Working(v)' = Working(v) /\ Entries(v)' = Entries(v)
    BY <1>5, <1>7, <1>8, <1>9, <1>12
  <2>2. ASSUME NEW voice, NEW n, Kept(v, voice, n) PROVE Kept(v, voice, n)'
    BY <2>1, <2>2 DEF Kept
  <2>3. CASE Working(v) = {} /\ Kept(v, state[v], Len(events))
    <3>1. Kept(v, state[v], Len(events))'
      BY <1>3, <2>1, <2>3 DEF Kept
    <3> QED BY <2>1, <2>3, <3>1 DEF Tracked
  <2>4. ASSUME NEW c \in DOMAIN events, Working(v) = {c}, events[c].new = state[v],
               \A d \in DOMAIN events : events[d].who = v => d <= c,
               events[c].old # Away => Kept(v, events[c].old, c - 1)
        PROVE  Tracked(v)'
    <3>1. events[c].old # Away => Kept(v, events[c].old, c - 1)'
      BY <1>3, <2>1, <2>4 DEF Kept
    <3> QED BY <1>3, <2>1, <2>4, <3>1 DEF Tracked
  <2> QED BY <1>3, <2>3, <2>4 DEF Tracked
<1> QED BY <1>11, <1>12

\* A task that goes on is still at work.
LEMMA StillWorking ==
  ASSUME TypeOK, NEW e \in DOMAIN events,
         Take(e) \/ (\E failed \in BOOLEAN : Insert(e, failed)) \/ Announce(e)
  PROVE  /\ \A u \in Users : Working(u)' = Working(u)
         /\ \A d \in DOMAIN events \ {e} : task'[d] = task[d]
         /\ e \in Working(events[e].who)
<1>1. GuildOK /\ TasksOK
  BY TypeParts
<1>2. e \in EventIds
  BY <1>1, EventIs
<1>3. events' = events
  BY DEF Take, Insert, Announce, guild
<1>4. /\ \A d \in DOMAIN events \ {e} : task'[d] = task[d]
      /\ task[e].pc \in {"route", "record"} /\ task'[e].pc \in {"record", "track"}
  <2>1. DOMAIN task = EventIds /\ task[e] \in Task
    BY <1>1, <1>2 DEF TasksOK
  <2>2. CASE \E failed \in BOOLEAN : Insert(e, failed)
    <3>1. task' = [task EXCEPT ![e] = [task[e] EXCEPT !.todo = Tail(@)]]
      BY <2>2 DEF Insert
    <3>2. [task[e] EXCEPT !.todo = Tail(@)].pc = task[e].pc
      BY <2>1 DEF Task
    <3> QED BY <1>2, <2>1, <2>2, <3>1, <3>2 DEF Insert
  <2>3. CASE Announce(e)
    <3>1. task' = [task EXCEPT ![e] = [task[e] EXCEPT !.pc = "track"]]
      BY <2>3 DEF Announce
    <3>2. [task[e] EXCEPT !.pc = "track"].pc = "track"
      BY <2>1 DEF Task
    <3> QED BY <1>2, <2>1, <2>3, <3>1, <3>2 DEF Announce
  <2>4. CASE Take(e)
    <3>1. task' = [task EXCEPT ![e] = [task[e] EXCEPT !.pc = "record"]]
      BY <2>4 DEF Take
    <3>2. [task[e] EXCEPT !.pc = "record"].pc = "record"
      BY <2>1 DEF Task
    <3> QED BY <1>2, <2>1, <2>4, <3>1, <3>2 DEF Take
  <2> QED BY <2>2, <2>3, <2>4
<1>5. \A u \in Users : Working(u)' = Working(u)
  BY <1>3, <1>4 DEF Working
<1>6. e \in Working(events[e].who)
  BY <1>4 DEF Working
<1> QED BY <1>4, <1>5, <1>6

\* Every step keeps KeptInv, which holds at first and says what is claimed.
LEMMA NextKept == TypeOK /\ KeptInv /\ [Next]_vars => KeptInv'
<1> SUFFICES ASSUME TypeOK, KeptInv, [Next]_vars PROVE KeptInv'
  OBVIOUS
<1>1. CASE \E u \in Users : \E new \in Voice \cup {Away} :
            \E flags \in SUBSET Flags : Update(u, new, flags)
  BY <1>1, UpdateKept
<1>2. ASSUME NEW e \in DOMAIN events,
             Take(e) \/ (\E failed \in BOOLEAN : Insert(e, failed)) \/ Announce(e)
      PROVE  KeptInv'
  <2>1. UNCHANGED <<guild, metrics, overlap, missed>>
    BY <1>2 DEF Take, Insert, Announce, history
  <2> QED BY <1>2, <2>1, StillWorking, KeptStays
<1>3. ASSUME NEW e \in DOMAIN events, Track(e) PROVE KeptInv'
  BY <1>3, TrackKept
<1>4. ASSUME UNCHANGED <<guild, task, metrics, history>> PROVE KeptInv'
  <2>1. (\A u \in Users : Working(u)' = Working(u)) /\ UNCHANGED <<overlap, missed>>
    BY <1>4 DEF Working, guild, history
  <2> QED BY <1>4, <2>1, KeptStays
<1>5. CASE Open \/ (\E t \in Topics : Ask(t)) \/ HangUp \/ GlobalUpdate
  BY <1>4, <1>5 DEF Open, Ask, HangUp, GlobalUpdate
<1>6. CASE Push \/ Tick
  BY <1>4, <1>6 DEF Push, ReadTopic, ReadTimes, Build, Send, Changed, TopicEnds, Tick
<1>7. CASE UNCHANGED vars
  BY <1>4, <1>7 DEF vars
<1>8. ASSUME NEW e \in DOMAIN events, Skip(e) PROVE KeptInv'
  <2>1. GuildOK /\ TasksOK
    BY TypeParts
  <2>2. DOMAIN task = EventIds /\ DOMAIN events \subseteq EventIds
    BY <2>1, EventIs DEF TasksOK
  <2>3. UNCHANGED <<guild, metrics, overlap>> /\ events' = events
        /\ missed' = missed \cup {events[e].who}
    BY <1>8 DEF Skip, guild
  <2>4. \A d \in DOMAIN events : d # e => task'[d] = task[d]
    BY <1>8, <2>2 DEF Skip
  <2>5. \A u \in Users \ missed' : Working(u)' = Working(u)
    BY <2>3, <2>4 DEF Working
  <2> QED BY <2>3, <2>5, KeptStays
<1> QED BY <1>1, <1>2, <1>3, <1>5, <1>6, <1>7, <1>8 DEF Next, Handle

LEMMA InitKept == Init => KeptInv
<1> SUFFICES ASSUME Init, NEW u \in Users \ missed PROVE Working(u) = {} /\ Kept(u, state[u], Len(events))
  BY DEF KeptInv, Tracked
<1>1. events = <<>> /\ state[u] = Away /\ presence[u] = Away /\ since[u] = Away
  BY DEF Init, NoTimes
<1>2. Working(u) = {}
  BY <1>1 DEF Working
<1> QED BY <1>1, <1>2 DEF Kept

LEMMA KeptFollows == ASSUME TypeOK, KeptInv PROVE PresenceFollows
<1> SUFFICES ASSUME AtRest, ~overlap, NEW u \in Users \ missed
             PROVE  /\ presence[u] = state[u]
                    /\ since[u] = IF state[u] = Away THEN Away ELSE Came(u)
  BY DEF PresenceFollows
<1>1. GuildOK
  BY TypeParts
<1>2. Kept(u, state[u], Len(events))
  <2>1. Working(u) = {} /\ Tracked(u)
    BY DEF AtRest, KeptInv
  <2>2. ~ \E e \in DOMAIN events : Working(u) = {e}
    BY <2>1
  <2> QED BY <2>1, <2>2, Zenon DEF Tracked
<1>3. CASE state[u] = Away
  BY <1>2, <1>3 DEF Kept
<1>4. CASE state[u] # Away
  <2>1. Entries(u) \subseteq Nat /\ \A d \in Entries(u) : d <= Len(events)
    BY <1>1 DEF Entries, GuildOK
  <2>2. since[u] \in Entries(u) /\ \A d \in Entries(u) : d <= since[u]
    BY <1>2, <1>4, <2>1 DEF Kept
  <2>3. Came(u) \in Entries(u) /\ \A d \in Entries(u) : d <= Came(u)
    BY <2>2 DEF Came
  <2> QED BY <1>2, <1>4, <2>1, <2>2, <2>3 DEF Kept
<1> QED BY <1>3, <1>4

\* track_voice_presence and user_start_times: when no task is at work, and the
\* tasks for a member did not overlap, his gauge is what the cache has and the time
\* is that of his last entry, for everyone but those who were in voice when the
\* process started, or of whom it skipped an event, and have not come since.
THEOREM PresenceFollowsHolds == Spec => []PresenceFollows
<1>1. Spec => []TypeOK
  BY PresenceTypeCorrect
<1>2. Init => KeptInv
  BY InitKept
<1>3. TypeOK /\ KeptInv /\ [Next]_vars => KeptInv'
  BY NextKept
<1>4. TypeOK /\ KeptInv => PresenceFollows
  BY KeptFollows
<1> QED BY <1>1, <1>2, <1>3, <1>4, PTL DEF Spec

----
(***************************************************************************)
(* Timelines.                                                              *)
(***************************************************************************)

\* The rows that move a member, and those that tell of a flag.
Moves(rows) == {n \in 1 .. Len(rows) : rows[n].what \in {"join", "switch", "leave"}}
About(rows, f) == {n \in 1 .. Len(rows) : \/ rows[n].what = "join"
                                          \/ rows[n].what \in {"on", "off"} /\ rows[n].of = f}

\* The last of some places.
LEMMA MaxIs ==
  ASSUME NEW I \in SUBSET Nat, NEW p \in I, \A q \in I : q <= p
  PROVE  Max(I) = p
<1>1. \A q \in I : p >= q
  OBVIOUS
<1>2. PICK m : m = Max(I)
  OBVIOUS
<1>3. m \in I /\ \A q \in I : m >= q
  BY <1>1, <1>2, Zenon DEF Max
<1> QED BY <1>2, <1>3

\* The last row that moves a member puts him.
LEMMA PlaceIs ==
  ASSUME NEW rows \in Seq(Rows)
  PROVE  /\ Moves(rows) = {} => Place(rows) = Away
         /\ \A p \in Moves(rows) :
              (\A q \in Moves(rows) : q <= p)
                => Place(rows) = IF rows[p].what = "leave" THEN Away ELSE rows[p].of
<1>1. Place(rows) = LET n == IF Moves(rows) # {} THEN Max(Moves(rows)) ELSE 0
                    IN  IF n = 0 \/ rows[n].what = "leave" THEN Away ELSE rows[n].of
  BY Zenon DEF Place, SelectLastInSeq, Moves
<1>2. Moves(rows) \in SUBSET Nat /\ 0 \notin Moves(rows)
  BY DEF Moves
<1>3. ASSUME Moves(rows) = {} PROVE Place(rows) = Away
  BY <1>1, <1>3, Zenon
<1>4. ASSUME NEW p \in Moves(rows), \A q \in Moves(rows) : q <= p
      PROVE  Place(rows) = IF rows[p].what = "leave" THEN Away ELSE rows[p].of
  <2>1. Max(Moves(rows)) = p /\ p # 0
    BY <1>2, <1>4, MaxIs
  <2> QED BY <1>1, <2>1, Zenon
<1> QED BY <1>3, <1>4

\* The last row about a flag tells of it.
LEMMA ToldIs ==
  ASSUME NEW rows \in Seq(Rows), NEW f
  PROVE  /\ About(rows, f) = {} => Told(rows, f) = "nothing"
         /\ \A p \in About(rows, f) :
              (\A q \in About(rows, f) : q <= p) => Told(rows, f) = rows[p].what
<1>1. Told(rows, f) = LET n == IF About(rows, f) # {} THEN Max(About(rows, f)) ELSE 0
                      IN  IF n = 0 THEN "nothing" ELSE rows[n].what
  BY Zenon DEF Told, SelectLastInSeq, About
<1>2. About(rows, f) \in SUBSET Nat /\ 0 \notin About(rows, f)
  BY DEF About
<1>3. ASSUME About(rows, f) = {} PROVE Told(rows, f) = "nothing"
  BY <1>1, <1>3, Zenon
<1>4. ASSUME NEW p \in About(rows, f), \A q \in About(rows, f) : q <= p
      PROVE  Told(rows, f) = rows[p].what
  <2>1. Max(About(rows, f)) = p /\ p # 0
    BY <1>2, <1>4, MaxIs
  <2> QED BY <1>1, <2>1, Zenon
<1> QED BY <1>3, <1>4

\* The places of two sequences, of k and of l rows, one after the other.
Joined(rows, tail, all, k, l) ==
  /\ all = rows \o tail /\ all \in Seq(Rows) /\ k = Len(rows) /\ l = Len(tail) /\ Len(all) = k + l
  /\ \A n \in 1 .. k : all[n] = rows[n]
  /\ \A n \in 1 .. l : k + n \in 1 .. k + l /\ all[k + n] = tail[n]
  /\ \A m \in 1 .. k + l : m \in 1 .. k \/ \E n \in 1 .. l : m = k + n

\* Any two sequences can be looked at that way.
LEMMA JoinedIs ==
  ASSUME NEW rows \in Seq(Rows), NEW tail \in Seq(Rows)
  PROVE  \E all \in Seq(Rows), k \in Nat, l \in Nat : Joined(rows, tail, all, k, l)
<1> PICK all : all = rows \o tail
  OBVIOUS
<1> PICK k \in Nat, l \in Nat : k = Len(rows) /\ l = Len(tail)
  BY LenProperties
<1>1. /\ all \in Seq(Rows) /\ Len(all) = k + l
      /\ \A n \in 1 .. k + l : all[n] = IF n <= k THEN rows[n] ELSE tail[n - k]
  BY ConcatProperties
<1>2. \A n \in 1 .. k : all[n] = rows[n]
  BY <1>1
<1>3. ASSUME NEW n \in 1 .. l PROVE k + n \in 1 .. k + l /\ all[k + n] = tail[n]
  <2>1. k + n \in 1 .. k + l /\ ~(k + n <= k) /\ (k + n) - k = n
    OBVIOUS
  <2> QED BY <1>1, <2>1
<1>4. ASSUME NEW m \in 1 .. k + l PROVE m \in 1 .. k \/ \E n \in 1 .. l : m = k + n
  <2>1. CASE m <= k
    BY <2>1
  <2>2. CASE ~(m <= k)
    <3>1. m - k \in 1 .. l /\ m = k + (m - k)
      BY <2>2
    <3> QED BY <3>1
  <2> QED BY <2>1, <2>2
<1>5. Joined(rows, tail, all, k, l)
  BY <1>1, <1>2, <1>3, <1>4 DEF Joined
<1> QED BY <1>1, <1>5

\* Rows that come after: if some of them move the member, they alone count.
LEMMA PlaceBehind ==
  ASSUME NEW rows \in Seq(Rows), NEW tail \in Seq(Rows)
  PROVE  Place(rows \o tail) = IF Moves(tail) = {} THEN Place(rows) ELSE Place(tail)
<1> PICK all \in Seq(Rows), k \in Nat, l \in Nat : Joined(rows, tail, all, k, l)
  BY JoinedIs
<1>1. /\ all = rows \o tail /\ Len(all) = k + l /\ Len(rows) = k /\ Len(tail) = l
      /\ \A n \in 1 .. k : all[n] = rows[n]
      /\ \A n \in 1 .. l : k + n \in 1 .. k + l /\ all[k + n] = tail[n]
      /\ \A m \in 1 .. k + l : m \in 1 .. k \/ \E n \in 1 .. l : m = k + n
  BY DEF Joined
<1>2. Moves(rows) \in SUBSET (1 .. k) /\ Moves(tail) \in SUBSET (1 .. l)
      /\ Moves(all) \in SUBSET (1 .. k + l)
  BY <1>1 DEF Moves
<1>3. CASE Moves(tail) = {}
  <2>1. Moves(all) = Moves(rows)
    <3>1. ASSUME NEW m \in Moves(all) PROVE m \in Moves(rows)
      <4>1. ASSUME NEW n \in 1 .. l, m = k + n PROVE FALSE
        <5>1. n \in Moves(tail)
          BY <1>1, <3>1, <4>1 DEF Moves
        <5> QED BY <1>3, <5>1
      <4>2. m \in 1 .. k + l /\ ~ \E n \in 1 .. l : m = k + n
        BY <1>2, <3>1, <4>1
      <4>3. m \in 1 .. k
        BY <1>1, <4>2, Zenon
      <4> QED BY <1>1, <3>1, <4>3 DEF Moves
    <3>2. ASSUME NEW m \in Moves(rows) PROVE m \in Moves(all)
      BY <1>1, <3>2 DEF Moves
    <3> QED BY <3>1, <3>2
  <2>2. CASE Moves(rows) = {}
    <3>1. Place(all) = Place(rows)
      BY <2>1, <2>2, PlaceIs
    <3> QED BY <1>1, <1>3, <3>1
  <2>3. CASE Moves(rows) # {}
    <3>1. PICK p \in Moves(rows) : \A q \in Moves(rows) : q <= p
      BY <1>2, <2>3, GreatestOf
    <3>2. all[p] = rows[p]
      BY <1>1, <1>2, <3>1
    <3>3. Place(all) = Place(rows)
      BY <2>1, <3>1, <3>2, PlaceIs
    <3> QED BY <1>1, <1>3, <3>3
  <2> QED BY <2>2, <2>3
<1>4. CASE Moves(tail) # {}
  <2>1. PICK p \in Moves(tail) : \A q \in Moves(tail) : q <= p
    BY <1>2, <1>4, GreatestOf
  <2>2. p \in 1 .. l /\ all[k + p] = tail[p] /\ k + p \in Moves(all)
    BY <1>1, <1>2, <2>1 DEF Moves
  <2>3. ASSUME NEW q \in Moves(all) PROVE q <= k + p
    <3>1. CASE q \in 1 .. k
      BY <2>2, <3>1
    <3>2. ASSUME NEW n \in 1 .. l, q = k + n PROVE q <= k + p
      <4>1. n \in Moves(tail)
        BY <1>1, <2>3, <3>2 DEF Moves
      <4>2. n <= p /\ n \in Nat /\ p \in Nat
        BY <1>2, <2>1, <4>1
      <4> QED BY <3>2, <4>2
    <3>3. q \in 1 .. k + l
      BY <1>2, <2>3
    <3> QED BY <1>1, <3>1, <3>2, <3>3, Zenon
  <2>4. Place(all) = Place(tail)
    BY <2>1, <2>2, <2>3, PlaceIs
  <2> QED BY <1>1, <1>4, <2>4
<1> QED BY <1>3, <1>4

\* The same of what they tell of a flag.
LEMMA ToldBehind ==
  ASSUME NEW rows \in Seq(Rows), NEW tail \in Seq(Rows), NEW f \in Flags
  PROVE  Told(rows \o tail, f) = IF About(tail, f) = {} THEN Told(rows, f) ELSE Told(tail, f)
<1> PICK all \in Seq(Rows), k \in Nat, l \in Nat : Joined(rows, tail, all, k, l)
  BY JoinedIs
<1>1. /\ all = rows \o tail /\ Len(all) = k + l /\ Len(rows) = k /\ Len(tail) = l
      /\ \A n \in 1 .. k : all[n] = rows[n]
      /\ \A n \in 1 .. l : k + n \in 1 .. k + l /\ all[k + n] = tail[n]
      /\ \A m \in 1 .. k + l : m \in 1 .. k \/ \E n \in 1 .. l : m = k + n
  BY DEF Joined
<1>2. About(rows, f) \in SUBSET (1 .. k) /\ About(tail, f) \in SUBSET (1 .. l)
      /\ About(all, f) \in SUBSET (1 .. k + l)
  BY <1>1 DEF About
<1>3. CASE About(tail, f) = {}
  <2>1. About(all, f) = About(rows, f)
    <3>1. ASSUME NEW m \in About(all, f) PROVE m \in About(rows, f)
      <4>1. ASSUME NEW n \in 1 .. l, m = k + n PROVE FALSE
        <5>1. n \in About(tail, f)
          BY <1>1, <3>1, <4>1 DEF About
        <5> QED BY <1>3, <5>1
      <4>2. m \in 1 .. k + l /\ ~ \E n \in 1 .. l : m = k + n
        BY <1>2, <3>1, <4>1
      <4>3. m \in 1 .. k
        BY <1>1, <4>2, Zenon
      <4> QED BY <1>1, <3>1, <4>3 DEF About
    <3>2. ASSUME NEW m \in About(rows, f) PROVE m \in About(all, f)
      BY <1>1, <3>2 DEF About
    <3> QED BY <3>1, <3>2
  <2>2. CASE About(rows, f) = {}
    <3>1. Told(all, f) = Told(rows, f)
      BY <2>1, <2>2, ToldIs
    <3> QED BY <1>1, <1>3, <3>1
  <2>3. CASE About(rows, f) # {}
    <3>1. PICK p \in About(rows, f) : \A q \in About(rows, f) : q <= p
      BY <1>2, <2>3, GreatestOf
    <3>2. all[p] = rows[p]
      BY <1>1, <1>2, <3>1
    <3>3. Told(all, f) = Told(rows, f)
      BY <2>1, <3>1, <3>2, ToldIs
    <3> QED BY <1>1, <1>3, <3>3
  <2> QED BY <2>2, <2>3
<1>4. CASE About(tail, f) # {}
  <2>1. PICK p \in About(tail, f) : \A q \in About(tail, f) : q <= p
    BY <1>2, <1>4, GreatestOf
  <2>2. p \in 1 .. l /\ all[k + p] = tail[p] /\ k + p \in About(all, f)
    BY <1>1, <1>2, <2>1 DEF About
  <2>3. ASSUME NEW q \in About(all, f) PROVE q <= k + p
    <3>1. CASE q \in 1 .. k
      BY <2>2, <3>1
    <3>2. ASSUME NEW n \in 1 .. l, q = k + n PROVE q <= k + p
      <4>1. n \in About(tail, f)
        BY <1>1, <2>3, <3>2 DEF About
      <4>2. n <= p /\ n \in Nat /\ p \in Nat
        BY <1>2, <2>1, <4>1
      <4> QED BY <3>2, <4>2
    <3>3. q \in 1 .. k + l
      BY <1>2, <2>3
    <3> QED BY <1>1, <3>1, <3>2, <3>3, Zenon
  <2>4. Told(all, f) = Told(tail, f)
    BY <2>1, <2>2, <2>3, ToldIs
  <2> QED BY <1>1, <1>4, <2>4
<1> QED BY <1>3, <1>4

\* The rows of flags move nobody, and tell of the flags that differ.
LEMMA FlagRowsTell ==
  ASSUME NEW old \in Voice \cup {Away}, NEW flags \in SUBSET Flags
  PROVE  /\ FlagRows(old, flags) \in Seq(Rows)
         /\ Moves(FlagRows(old, flags)) = {}
         /\ \A f \in Flags :
              IF old # Away /\ (f \in old.flags) # (f \in flags)
              THEN /\ About(FlagRows(old, flags), f) # {}
                   /\ Told(FlagRows(old, flags), f) = IF f \in flags THEN "on" ELSE "off"
              ELSE About(FlagRows(old, flags), f) = {}
<1> PICK rows : rows = FlagRows(old, flags)
  OBVIOUS
<1>1. CASE old = Away
  <2>1. rows = <<>> /\ Len(rows) = 0
    BY <1>1 DEF FlagRows
  <2>2. Moves(rows) = {} /\ \A f \in Flags : About(rows, f) = {}
    BY <2>1 DEF Moves, About
  <2>3. rows \in Seq(Rows)
    BY <2>1, EmptySeq
  <2> QED BY <1>1, <2>2, <2>3, Zenon
<1>2. CASE old # Away
  <2> DEFINE changed == (old.flags \cup flags) \ (old.flags \cap flags)
             bits == Rising(changed)
             c == Cardinality(changed)
             What(f) == IF f \in flags THEN "on" ELSE "off"
  <2>1. changed \in SUBSET Flags
    BY <1>2 DEF Voice
  <2>2. /\ c \in Nat /\ bits \in [1 .. c -> changed]
        /\ \A f \in changed : \E m \in 1 .. c : bits[m] = f
    BY <2>1, RisingIs
  <2>3. rows = [n \in DOMAIN bits |-> [what |-> What(bits[n]), of |-> bits[n]]]
    BY <1>2, Zenon DEF FlagRows
  <2>4. \A f \in Flags : f \in changed <=> (f \in old.flags) # (f \in flags)
    OBVIOUS
  <2> HIDE DEF changed, bits, c
  <2>5. rows = [n \in 1 .. c |-> [what |-> What(bits[n]), of |-> bits[n]]]
    BY <2>2, <2>3
  <2>6. \A n \in 1 .. c : /\ rows[n].what = What(bits[n]) /\ rows[n].of = bits[n]
                          /\ bits[n] \in changed /\ bits[n] \in Flags
                          /\ rows[n] = [what |-> What(bits[n]), of |-> bits[n]]
    BY <2>1, <2>2, <2>5
  <2>7. \A f : What(f) \in {"on", "off"}
    OBVIOUS
  <2>8. \A w \in {"on", "off"}, f \in Flags : [what |-> w, of |-> f] \in Rows
    BY DEF Rows
  <2> HIDE DEF What
  <2>9. rows \in Seq(Rows) /\ Len(rows) = c
    <3>1. \A n \in 1 .. c : [what |-> What(bits[n]), of |-> bits[n]] \in Rows
      BY <2>6, <2>7, <2>8
    <3>2. rows \in [1 .. c -> Rows]
      BY <2>5, <3>1
    <3> QED BY <2>2, <3>2
  <2>10. Moves(rows) = {}
    BY <2>6, <2>7, <2>9 DEF Moves
  <2>11. ASSUME NEW f \in Flags, f \notin changed PROVE About(rows, f) = {}
    BY <2>6, <2>7, <2>9, <2>11 DEF About
  <2>12. ASSUME NEW f \in Flags, f \in changed
         PROVE  About(rows, f) # {} /\ Told(rows, f) = What(f)
    <3>1. PICK m \in 1 .. c : bits[m] = f
      BY <2>2, <2>12
    <3>2. m \in About(rows, f)
      BY <2>6, <2>7, <2>9, <3>1 DEF About
    <3>3. About(rows, f) \in SUBSET (1 .. c)
      BY <2>9 DEF About
    <3>4. PICK p \in About(rows, f) : \A q \in About(rows, f) : q <= p
      BY <2>2, <3>2, <3>3, GreatestOf
    <3>5. Told(rows, f) = rows[p].what
      BY <2>9, <3>4, ToldIs
    <3>6. rows[p].of = f /\ p \in 1 .. c
      BY <2>6, <2>7, <3>3, <3>4 DEF About
    <3> QED BY <2>6, <3>2, <3>5, <3>6
  <2> QED BY <1>2, <2>4, <2>9, <2>10, <2>11, <2>12 DEF What
<1> QED BY <1>1, <1>2

\* The row of a change of channel.
LEMMA ChannelRowsTell ==
  ASSUME NEW old \in Voice \cup {Away}, NEW new \in Voice \cup {Away}, ~(old = Away /\ new = Away)
  PROVE  /\ ChannelRows(old, new) \in Seq(Rows)
         /\ IF old # Away /\ new # Away /\ old.chan = new.chan
            THEN Moves(ChannelRows(old, new)) = {}
            ELSE /\ Moves(ChannelRows(old, new)) # {}
                 /\ Place(ChannelRows(old, new)) = IF new = Away THEN Away ELSE new.chan
         /\ \A f \in Flags :
              IF old = Away
              THEN /\ About(ChannelRows(old, new), f) # {}
                   /\ Told(ChannelRows(old, new), f) = "join"
              ELSE About(ChannelRows(old, new), f) = {}
<1> PICK rows : rows = ChannelRows(old, new)
  OBVIOUS
<1>1. \A v \in Voice : v.chan \in Channels
  BY DEF Voice
<1>2. \A c \in Channels, w \in {"join", "leave", "switch"} : [what |-> w, of |-> c] \in Rows
  BY DEF Rows
<1>3. ASSUME NEW r \in Rows, rows = <<r>>
      PROVE  rows \in Seq(Rows) /\ Len(rows) = 1 /\ rows[1] = r
  BY <1>3
<1>4. ASSUME NEW r \in Rows, rows = <<r>>, r.what \in {"join", "leave", "switch"}
      PROVE  Moves(rows) # {} /\ Place(rows) = IF r.what = "leave" THEN Away ELSE r.of
  <2>1. rows \in Seq(Rows) /\ Moves(rows) = {1} /\ rows[1] = r
    BY <1>3, <1>4 DEF Moves
  <2> QED BY <2>1, PlaceIs
<1>5. CASE old = Away /\ new # Away
  <2>1. PICK r \in Rows : rows = <<r>> /\ r.what = "join" /\ r.of = new.chan
    <3>1. rows = << [what |-> "join", of |-> new.chan] >>
      BY <1>5 DEF ChannelRows
    <3> QED BY <1>1, <1>2, <1>5, <3>1
  <2>2. ASSUME NEW f \in Flags PROVE About(rows, f) # {} /\ Told(rows, f) = "join"
    <3>1. rows \in Seq(Rows) /\ About(rows, f) = {1} /\ rows[1].what = "join"
      BY <1>3, <2>1 DEF About
    <3> QED BY <3>1, ToldIs
  <2>3. rows \in Seq(Rows) /\ Moves(rows) # {} /\ Place(rows) = new.chan
    BY <1>3, <1>4, <2>1
  <2> QED BY <1>5, <2>2, <2>3
<1>6. CASE old # Away /\ new = Away
  <2>1. PICK r \in Rows : rows = <<r>> /\ r.what = "leave"
    <3>1. rows = << [what |-> "leave", of |-> old.chan] >>
      BY <1>6 DEF ChannelRows
    <3> QED BY <1>1, <1>2, <1>6, <3>1
  <2>2. ASSUME NEW f \in Flags PROVE About(rows, f) = {}
    BY <1>3, <2>1 DEF About
  <2>3. rows \in Seq(Rows) /\ Moves(rows) # {} /\ Place(rows) = Away
    BY <1>3, <1>4, <2>1
  <2> QED BY <1>6, <2>2, <2>3
<1>7. CASE old # Away /\ new # Away /\ old.chan # new.chan
  <2>1. PICK r \in Rows : rows = <<r>> /\ r.what = "switch" /\ r.of = new.chan
    <3>1. rows = << [what |-> "switch", of |-> new.chan] >>
      BY <1>7 DEF ChannelRows
    <3> QED BY <1>1, <1>2, <1>7, <3>1
  <2>2. ASSUME NEW f \in Flags PROVE About(rows, f) = {}
    BY <1>3, <2>1 DEF About
  <2>3. rows \in Seq(Rows) /\ Moves(rows) # {} /\ Place(rows) = new.chan
    BY <1>3, <1>4, <2>1
  <2> QED BY <1>7, <2>2, <2>3
<1>8. CASE old # Away /\ new # Away /\ old.chan = new.chan
  <2>1. rows = <<>>
    BY <1>8, Zenon DEF ChannelRows
  <2>2. rows \in Seq(Rows) /\ Len(rows) = 0
    BY <2>1, EmptySeq
  <2>3. Moves(rows) = {} /\ \A f \in Flags : About(rows, f) = {}
    BY <2>2 DEF Moves, About
  <2> QED BY <1>8, <2>2, <2>3
<1> QED BY <1>5, <1>6, <1>7, <1>8

\* The flags of a voice state, unless the member is gone.
FlagsOf(new, flags) == new # Away => flags = new.flags

\* A timeline that replays to the old state replays to the new one with the
\* rows of the event behind it; so does any timeline when a member comes.
LEMMA RowsReplay ==
  ASSUME NEW u \in Users \ Bots, NEW old \in Voice \cup {Away}, NEW new \in Voice \cup {Away},
         NEW flags \in SUBSET Flags, FlagsOf(new, flags),
         ~(old = Away /\ new = Away), NEW rows \in Seq(Rows), old # Away => Replays(rows, old)
  PROVE  Replays(rows \o RowsOf(u, old, new, flags), new)
<1> PICK chans : chans = ChannelRows(old, new)
  OBVIOUS
<1> PICK bits : bits = FlagRows(old, flags)
  OBVIOUS
<1> PICK tail : tail = chans \o bits
  OBVIOUS
<1>1. RowsOf(u, old, new, flags) = tail
  BY DEF RowsOf
<1>2. /\ chans \in Seq(Rows) /\ bits \in Seq(Rows) /\ tail \in Seq(Rows)
      /\ Moves(bits) = {}
      /\ IF old # Away /\ new # Away /\ old.chan = new.chan
         THEN Moves(chans) = {}
         ELSE Moves(chans) # {} /\ Place(chans) = IF new = Away THEN Away ELSE new.chan
  <2>1. bits \in Seq(Rows) /\ Moves(bits) = {}
    BY FlagRowsTell
  <2>2. /\ chans \in Seq(Rows)
        /\ IF old # Away /\ new # Away /\ old.chan = new.chan
           THEN Moves(chans) = {}
           ELSE Moves(chans) # {} /\ Place(chans) = IF new = Away THEN Away ELSE new.chan
    BY ChannelRowsTell
  <2>3. tail \in Seq(Rows)
    BY <2>1, <2>2, ConcatProperties
  <2> QED BY <2>1, <2>2, <2>3
<1>3. Place(tail) = Place(chans)
  BY <1>2, PlaceBehind
<1>4. Moves(tail) = {} <=> Moves(chans) = {}
  <2> PICK k \in Nat, l \in Nat : Joined(chans, bits, tail, k, l)
    <3>1. PICK all \in Seq(Rows), k \in Nat, l \in Nat : Joined(chans, bits, all, k, l)
      BY <1>2, JoinedIs
    <3>2. all = tail
      BY <3>1 DEF Joined
    <3> QED BY <3>1, <3>2
  <2>1. /\ Len(tail) = k + l /\ Len(chans) = k /\ Len(bits) = l
        /\ \A n \in 1 .. k : tail[n] = chans[n]
        /\ \A n \in 1 .. l : tail[k + n] = bits[n]
        /\ \A m \in 1 .. k + l : m \in 1 .. k \/ \E n \in 1 .. l : m = k + n
    BY DEF Joined
  <2>2. ASSUME NEW m \in Moves(chans) PROVE m \in Moves(tail)
    BY <2>1, <2>2 DEF Moves
  <2>3. ASSUME NEW m \in Moves(tail) PROVE m \in Moves(chans)
    <3>1. m \in 1 .. k + l
      BY <2>1, <2>3 DEF Moves
    <3>2. ASSUME NEW n \in 1 .. l, m = k + n PROVE FALSE
      <4>1. n \in Moves(bits)
        BY <2>1, <2>3, <3>2 DEF Moves
      <4> QED BY <1>2, <4>1
    <3>3. m \in 1 .. k
      BY <2>1, <3>1, <3>2, Zenon
    <3> QED BY <2>1, <2>3, <3>3 DEF Moves
  <2> QED BY <2>2, <2>3
<1>5. Place(rows \o tail) = IF new = Away THEN Away ELSE new.chan
  <2>1. Place(rows \o tail) = IF Moves(tail) = {} THEN Place(rows) ELSE Place(tail)
    BY <1>2, PlaceBehind
  <2>2. CASE old # Away /\ new # Away /\ old.chan = new.chan
    BY <1>2, <1>4, <2>1, <2>2 DEF Replays
  <2>3. CASE ~(old # Away /\ new # Away /\ old.chan = new.chan)
    BY <1>2, <1>3, <1>4, <2>1, <2>3
  <2> QED BY <2>2, <2>3
<1>6. ASSUME new # Away, NEW f \in Flags
      PROVE  Told(rows \o tail, f) \in {"join", IF f \in new.flags THEN "on" ELSE "off"}
  <2>1. rows \o tail = (rows \o chans) \o bits
    BY <1>2, ConcatAssociative
  <2>2. rows \o chans \in Seq(Rows)
    BY <1>2, ConcatProperties
  <2>3. Told((rows \o chans) \o bits, f) =
          IF About(bits, f) = {} THEN Told(rows \o chans, f) ELSE Told(bits, f)
    <3>1. bits \in Seq(Rows)
      BY <1>2
    <3>2. ASSUME NEW front \in Seq(Rows)
          PROVE  Told(front \o bits, f) = IF About(bits, f) = {} THEN Told(front, f) ELSE Told(bits, f)
      BY <3>1, ToldBehind, Zenon
    <3> QED BY <2>2, <3>2, Zenon
  <2>4. Told(rows \o chans, f) = IF About(chans, f) = {} THEN Told(rows, f) ELSE Told(chans, f)
    BY <1>2, ToldBehind
  <2>5. IF old # Away /\ (f \in old.flags) # (f \in new.flags)
        THEN About(bits, f) # {} /\ Told(bits, f) = IF f \in new.flags THEN "on" ELSE "off"
        ELSE About(bits, f) = {}
    <3>1. IF old # Away /\ (f \in old.flags) # (f \in flags)
          THEN About(bits, f) # {} /\ Told(bits, f) = IF f \in flags THEN "on" ELSE "off"
          ELSE About(bits, f) = {}
      BY FlagRowsTell
    <3>2. flags = new.flags
      BY <1>6 DEF FlagsOf
    <3> QED BY <3>1, <3>2
  <2>6. IF old = Away THEN About(chans, f) # {} /\ Told(chans, f) = "join" ELSE About(chans, f) = {}
    BY <1>6, ChannelRowsTell
  <2>7. CASE old = Away
    BY <2>1, <2>3, <2>4, <2>5, <2>6, <2>7
  <2>8. CASE old # Away /\ (f \in old.flags) # (f \in new.flags)
    BY <2>1, <2>3, <2>5, <2>8
  <2>9. CASE old # Away /\ ~((f \in old.flags) # (f \in new.flags))
    <3>1. Told(rows \o tail, f) = Told(rows, f)
      BY <2>1, <2>3, <2>4, <2>5, <2>6, <2>9
    <3>2. Told(rows, f) \in {"join", IF f \in old.flags THEN "on" ELSE "off"}
      BY <2>9 DEF Replays
    <3> QED BY <2>9, <3>1, <3>2
  <2> QED BY <2>7, <2>8, <2>9
<1> QED BY <1>1, <1>5, <1>6 DEF Replays

\* A step that moves neither rows nor states.
LEMMA ReplayStays ==
  ASSUME ReplayInv, InsertedInv, UNCHANGED <<guild, task, log, history>>
  PROVE  ReplayInv' /\ InsertedInv'
<1>1. UNCHANGED <<state, events, task, log, overlap, Whole>>
  BY DEF guild, history, Whole
<1>2. \A u : Working(u)' = Working(u)
  BY <1>1 DEF Working
<1> QED BY <1>1, <1>2 DEF ReplayInv, ReplaysTo, InsertedInv

\* The rows of the tasks and of the others stay as they are for a member.
LEMMA ReplaysToStays ==
  ASSUME NEW u \in Users, ReplaysTo(u), log'[u] = log[u], state'[u] = state[u], Working(u)' = Working(u),
         \A e \in DOMAIN events : e \in DOMAIN events' /\ (e \in Working(u) => task'[e] = task[e])
  PROVE  ReplaysTo(u)'
BY DEF ReplaysTo

\* A new event: the rows its task has to insert make up for the new state.
LEMMA UpdateReplays ==
  ASSUME TypeOK, ReplayInv, InsertedInv,
         NEW u \in Users, NEW new \in Voice \cup {Away},
         NEW flags \in SUBSET Flags, Update(u, new, flags)
  PROVE  ReplayInv' /\ InsertedInv'
<1>1. GuildOK /\ LogOK
  BY TypeParts
<1> PICK e \in Nat : e = Len(events) + 1
  BY <1>1 DEF GuildOK
<1> PICK old : old = state[u]
  OBVIOUS
<1>2. Dispatched(u, new, flags, e)
  BY UpdateIs, Zenon
<1>3. /\ DOMAIN events = 1 .. e - 1 /\ DOMAIN events' = 1 .. e
      /\ \A d \in DOMAIN events : d < e /\ events'[d] = events[d] /\ task'[d] = task[d]
      /\ task'[e] = [pc |-> "route", todo |-> RowsOf(u, old, new, flags)]
      /\ Working(u)' = Working(u) \cup {e}
      /\ \A v \in Users \ {u} : Working(v)' = Working(v)
  BY <1>2 DEF Dispatched
<1>4. log' = log /\ state' = [state EXCEPT ![u] = new] /\ ~(old = Away /\ new = Away)
      /\ FlagsOf(new, flags)
      /\ Whole' = IF old = Away THEN Whole \cup ({u} \ Bots) ELSE Whole
  BY DEF Update, FlagsOf, Whole
<1>5. InsertedInv'
  <2> SUFFICES ASSUME NEW d \in DOMAIN events', task'[d].pc = "track" PROVE task'[d].todo = <<>>
    BY DEF InsertedInv
  <2>1. d # e
    BY <1>3
  <2>2. d \in DOMAIN events
    BY <1>3, <2>1
  <2> QED BY <1>3, <2>2 DEF InsertedInv
<1>6. ASSUME ~overlap', NEW v \in Whole' PROVE ReplaysTo(v)'
  <2>1. ~overlap /\ Working(u) = {} /\ v \in Users \ Bots /\ (v \in Whole => ReplaysTo(v))
    BY <1>6 DEF Update, ReplayInv, Whole
  <2>2. CASE v = u
    <3>1. (old # Away => Replays(log[u], old)) /\ log[u] \in Seq(Rows) /\ old \in Voice \cup {Away}
      <4>1. ASSUME old # Away PROVE Replays(log[u], old)
        <5>1. u \in Whole
          BY <1>4, <1>6, <2>2, <4>1
        <5>2. ReplaysTo(u)
          BY <2>1, <2>2, <5>1
        <5> QED BY <2>1, <5>2 DEF ReplaysTo
      <4> QED BY <1>1, <4>1 DEF LogOK, GuildOK
    <3>2. PICK rows : rows = log[u] \o RowsOf(u, old, new, flags)
      OBVIOUS
    <3>3. Replays(rows, new)
      BY <1>4, <2>1, <2>2, <3>1, <3>2, RowsReplay
    <3>4. /\ Working(u)' = {e} /\ e \in DOMAIN events' /\ state'[u] = new
          /\ log'[u] \o task'[e].todo = rows
      BY <1>1, <1>3, <1>4, <2>1, <3>2 DEF GuildOK
    <3>5. Replays(rows, new)'
      BY <3>3 DEF Replays
    <3> QED BY <2>2, <3>4, <3>5 DEF ReplaysTo
  <2>3. CASE v # u
    <3>1. log'[v] = log[v] /\ state'[v] = state[v] /\ Working(v)' = Working(v)
      BY <1>1, <1>3, <1>4, <2>1, <2>3 DEF GuildOK
    <3>2. \A d \in DOMAIN events : d \in DOMAIN events' /\ task'[d] = task[d]
      BY <1>3
    <3>3. v \in Users /\ ReplaysTo(v)
      BY <1>4, <1>6, <2>1, <2>3
    <3> QED BY <3>1, <3>2, <3>3, ReplaysToStays
  <2> QED BY <2>2, <2>3
<1> QED BY <1>5, <1>6 DEF ReplayInv

\* A row that is inserted goes over from those to insert to those there are.
LEMMA RowGoesOver ==
  ASSUME NEW rows \in Seq(Rows), NEW row \in Rows, NEW rest \in Seq(Rows)
  PROVE  Append(rows, row) \o rest = rows \o (<<row>> \o rest)
<1>1. <<row>> \in Seq(Rows)
  OBVIOUS
<1>2. Append(rows, row) = rows \o <<row>>
  BY AppendIsConcat
<1>3. \A one \in Seq(Rows) : (rows \o one) \o rest = rows \o (one \o rest)
  BY ConcatAssociative
<1>4. (rows \o <<row>>) \o rest = rows \o (<<row>> \o rest)
  BY <1>1, <1>3, Zenon
<1> QED BY <1>2, <1>4, Zenon

\* A task inserts its rows, and has none left when it is done.
LEMMA HandleReplays ==
  ASSUME TypeOK, ReplayInv, InsertedInv, NEW e \in DOMAIN events, Handle(e)
  PROVE  ReplayInv' /\ InsertedInv'
<1>1. GuildOK /\ TasksOK /\ LogOK
  BY TypeParts
<1>2. e \in EventIds /\ events[e].who \in Users
  BY <1>1, EventIs
<1> PICK u \in Users : u = events[e].who
  BY <1>2
<1>3. UNCHANGED <<state, events, overlap>> /\ Whole' \subseteq Whole
  <2>1. ASSUME NEW failed \in BOOLEAN, Insert(e, failed)
        PROVE  UNCHANGED <<state, events, overlap, missed>> /\ lost \subseteq lost'
    BY <2>1 DEF Insert, guild
  <2>2. ASSUME Take(e) \/ Skip(e) \/ Announce(e) \/ Track(e)
        PROVE  UNCHANGED <<state, events, overlap, lost>> /\ missed \subseteq missed'
    BY <2>2 DEF Take, Skip, Announce, Track, guild, history
  <2>3. UNCHANGED <<state, events, overlap>> /\ missed \subseteq missed' /\ lost \subseteq lost'
    BY <2>1, <2>2 DEF Handle
  <2> QED BY <2>3 DEF Whole
<1>4. task[e] \in Task /\ task[e].todo \in Seq(Rows) /\ log[u] \in Seq(Rows)
  BY <1>1, <1>2 DEF TasksOK, LogOK, Task
<1>5. e \in Working(u) /\ task[e].pc \in {"route", "record", "track"}
  <2>1. task[e].pc \in {"route", "record", "track"}
    BY DEF Handle, Take, Skip, Insert, Announce, Track
  <2> QED BY <2>1 DEF Working
<1>6. \A d \in DOMAIN events : d # e => task'[d] = task[d]
  <2>1. PICK t : task' = [task EXCEPT ![e] = t]
    BY DEF Handle, Take, Skip, Insert, Announce, Track
  <2>2. DOMAIN task = EventIds /\ DOMAIN events \subseteq EventIds
    BY <1>1, EventIs DEF TasksOK
  <2> QED BY <2>1, <2>2
<1>7. ASSUME NEW v \in Users \ {u} PROVE log'[v] = log[v] /\ Working(v)' = Working(v)
  <2>1. log'[v] = log[v]
    BY <1>1 DEF Handle, Take, Skip, Insert, Announce, Track, LogOK
  <2>2. Working(v)' = Working(v)
    BY <1>3, <1>6 DEF Working
  <2> QED BY <2>1, <2>2
<1>8. ASSUME NEW v \in Users \ {u}, ReplaysTo(v) PROVE ReplaysTo(v)'
  <2>1. \A d \in Working(v) : d \in DOMAIN events /\ d # e
    BY DEF Working
  <2>2. \A d \in DOMAIN events : d \in DOMAIN events' /\ (d \in Working(v) => task'[d] = task[d])
    BY <1>3, <1>6, <2>1
  <2>3. state'[v] = state[v] /\ log'[v] = log[v] /\ Working(v)' = Working(v) /\ v \in Users
    BY <1>3, <1>7
  <2> QED BY <1>8, <2>2, <2>3, ReplaysToStays
<1>9. ASSUME ReplaysTo(u)
      PROVE  Working(u) = {e} /\ Replays(log[u] \o task[e].todo, state[u])
  BY <1>5, <1>9 DEF ReplaysTo
<1>10. ASSUME ReplaysTo(u), NEW rows, rows = log[u] \o task[e].todo,
              Working(u)' = {e} /\ log'[u] \o task'[e].todo = rows
       PROVE  ReplaysTo(u)'
  <2>1. Replays(rows, state[u])
    BY <1>9, <1>10
  <2>2. PICK voice : voice = state[u]
    OBVIOUS
  <2>3. Replays(rows, voice)'
    BY <2>1, <2>2 DEF Replays
  <2>4. state'[u] = voice /\ e \in DOMAIN events'
    BY <1>3, <2>2
  <2> QED BY <1>10, <2>3, <2>4 DEF ReplaysTo
<1>11. DOMAIN task = EventIds /\ DOMAIN log = Users
  BY <1>1 DEF TasksOK, LogOK
<1>12. ASSUME u \in Whole' /\ ReplaysTo(u) => ReplaysTo(u)' PROVE ReplayInv'
  <2>1. ASSUME ~overlap', NEW v \in Whole' PROVE ReplaysTo(v)'
    <3>1. ReplaysTo(v) /\ v \in Users
      BY <1>3, <2>1 DEF ReplayInv, Whole
    <3>2. CASE v = u
      BY <1>12, <2>1, <3>1, <3>2
    <3>3. CASE v # u
      BY <1>8, <2>1, <3>1, <3>3
    <3> QED BY <3>2, <3>3
  <2> QED BY <2>1 DEF ReplayInv
<1>13. ASSUME NEW failed \in BOOLEAN, Insert(e, failed) PROVE ReplayInv' /\ InsertedInv'
  <2>1. PICK row \in Rows, rest \in Seq(Rows) :
          task[e].todo = <<row>> \o rest /\ row = Head(task[e].todo) /\ rest = Tail(task[e].todo)
    <3>1. task[e].todo # <<>>
      BY <1>13 DEF Insert
    <3>2. Head(task[e].todo) \in Rows /\ Tail(task[e].todo) \in Seq(Rows)
      BY <1>4, <3>1, HeadTailProperties
    <3>3. task[e].todo = <<Head(task[e].todo)>> \o Tail(task[e].todo)
      BY <1>4, <3>1
    <3> QED BY <3>2, <3>3
  <2>2. task'[e].todo = rest /\ task'[e].pc = "record"
    <3>1. task' = [task EXCEPT ![e] = [task[e] EXCEPT !.todo = Tail(@)]]
      BY <1>13 DEF Insert
    <3>2. task'[e] = [task[e] EXCEPT !.todo = rest]
      BY <1>2, <1>11, <2>1, <3>1
    <3> QED BY <1>4, <1>13, <3>2 DEF Insert, Task
  <2>3. u \in Whole' => log'[u] = Append(log[u], row)
    BY <1>11, <1>13, <2>1 DEF Insert, Whole
  <2>4. u \in Whole' => log'[u] \o rest = log[u] \o task[e].todo
    <3>1. Append(log[u], row) \o rest = log[u] \o (<<row>> \o rest)
      BY <1>4, RowGoesOver
    <3> QED BY <2>1, <2>3, <3>1
  <2>5. Working(u)' = Working(u)
    BY <1>13, StillWorking
  <2>6. ASSUME u \in Whole', ReplaysTo(u) PROVE ReplaysTo(u)'
    <3>1. Working(u)' = {e}
      BY <1>9, <2>5, <2>6
    <3> QED BY <1>10, <2>2, <2>4, <2>6, <3>1
  <2>7. InsertedInv'
    BY <1>3, <1>6, <2>2 DEF InsertedInv
  <2> QED BY <1>12, <2>6, <2>7
<1>14. CASE Announce(e)
  <2>1. task'[e].todo = task[e].todo /\ log' = log /\ task[e].todo = <<>>
    <3>1. task' = [task EXCEPT ![e] = [task[e] EXCEPT !.pc = "track"]]
      BY <1>14 DEF Announce
    <3>2. task'[e] = [task[e] EXCEPT !.pc = "track"]
      BY <1>2, <1>11, <3>1
    <3> QED BY <1>4, <1>14, <3>2 DEF Announce, Task
  <2>2. Working(u)' = Working(u)
    BY <1>14, StillWorking
  <2>3. ASSUME ReplaysTo(u) PROVE ReplaysTo(u)'
    <3>1. Working(u)' = {e}
      BY <1>9, <2>2, <2>3
    <3> QED BY <1>10, <2>1, <2>3, <3>1
  <2>4. InsertedInv'
    BY <1>3, <1>6, <2>1 DEF InsertedInv
  <2> QED BY <1>12, <2>3, <2>4
<1>15. CASE Track(e)
  <2>1. task'[e].pc = "done" /\ log' = log /\ task[e].pc = "track"
    <3>1. task' = [task EXCEPT ![e] = [task[e] EXCEPT !.pc = "done"]]
      BY <1>15 DEF Track
    <3>2. task'[e] = [task[e] EXCEPT !.pc = "done"]
      BY <1>2, <1>11, <3>1
    <3> QED BY <1>4, <1>15, <3>2 DEF Track, Task
  <2>2. Working(u)' = Working(u) \ {e}
    BY <1>3, <1>6, <2>1 DEF Working
  <2>3. ASSUME ReplaysTo(u) PROVE ReplaysTo(u)'
    <3>1. Working(u)' = {} /\ Replays(log[u] \o task[e].todo, state[u])
      BY <1>9, <2>2, <2>3
    <3>2. task[e].todo = <<>>
      BY <2>1 DEF InsertedInv
    <3>3. log[u] \o <<>> = log[u]
      BY <1>4, ConcatEmptySeq
    <3>4. PICK rows, voice : rows = log[u] /\ voice = state[u]
      OBVIOUS
    <3>5. Replays(rows, voice)
      BY <3>1, <3>2, <3>3, <3>4
    <3>6. Replays(rows, voice)'
      BY <3>5 DEF Replays
    <3>7. log'[u] = rows /\ state'[u] = voice
      BY <1>3, <2>1, <3>4
    <3> QED BY <3>1, <3>6, <3>7 DEF ReplaysTo
  <2>4. InsertedInv'
    BY <1>3, <1>6, <2>1 DEF InsertedInv
  <2> QED BY <1>12, <2>3, <2>4
<1>16. CASE Take(e)
  <2>1. task'[e] = [task[e] EXCEPT !.pc = "record"] /\ log' = log
    BY <1>2, <1>11, <1>16 DEF Take
  <2>2. task'[e].pc = "record" /\ task'[e].todo = task[e].todo
    BY <1>4, <2>1 DEF Task
  <2>3. ASSUME ReplaysTo(u) PROVE ReplaysTo(u)'
    <3>1. Working(u)' = {e}
      BY <1>9, <1>16, <2>3, StillWorking
    <3> QED BY <1>10, <2>1, <2>2, <2>3, <3>1
  <2>4. InsertedInv'
    BY <1>3, <1>6, <2>2 DEF InsertedInv
  <2> QED BY <1>12, <2>3, <2>4
<1>17. CASE Skip(e)
  <2>1. task'[e] = [task[e] EXCEPT !.pc = "skipped"]
    BY <1>2, <1>11, <1>17 DEF Skip
  <2>2. task'[e].pc = "skipped"
    BY <1>4, <2>1 DEF Task
  <2>3. u \notin Whole'
    BY <1>17 DEF Skip, Whole
  <2>4. InsertedInv'
    BY <1>3, <1>6, <2>2 DEF InsertedInv
  <2> QED BY <1>12, <2>3, <2>4
<1> QED BY <1>13, <1>14, <1>15, <1>16, <1>17 DEF Handle

\* Every step keeps them, and they hold at first.
LEMMA NextReplays == TypeOK /\ ReplayInv /\ InsertedInv /\ [Next]_vars => ReplayInv' /\ InsertedInv'
<1> SUFFICES ASSUME TypeOK, ReplayInv, InsertedInv, [Next]_vars PROVE ReplayInv' /\ InsertedInv'
  OBVIOUS
<1>1. CASE \E u \in Users : \E new \in Voice \cup {Away} :
            \E flags \in SUBSET Flags : Update(u, new, flags)
  BY <1>1, UpdateReplays
<1>2. CASE \E e \in DOMAIN events : Handle(e)
  BY <1>2, HandleReplays
<1>3. ASSUME UNCHANGED <<guild, task, log, history>> PROVE ReplayInv' /\ InsertedInv'
  BY <1>3, ReplayStays
<1>4. CASE Open \/ (\E t \in Topics : Ask(t)) \/ HangUp \/ GlobalUpdate
  BY <1>3, <1>4 DEF Open, Ask, HangUp, GlobalUpdate
<1>5. CASE Push \/ Tick
  BY <1>3, <1>5 DEF Push, ReadTopic, ReadTimes, Build, Send, Changed, TopicEnds, Tick
<1>6. CASE UNCHANGED vars
  BY <1>3, <1>6 DEF vars
<1> QED BY <1>1, <1>2, <1>4, <1>5, <1>6 DEF Next

LEMMA InitReplays == Init => ReplayInv /\ InsertedInv
<1> SUFFICES ASSUME Init PROVE ReplayInv /\ InsertedInv
  OBVIOUS
<1>1. events = <<>>
  BY DEF Init
<1>2. ASSUME NEW u \in Whole PROVE ReplaysTo(u)
  <2>1. Working(u) = {}
    BY <1>1 DEF Working
  <2>2. log[u] = <<>> /\ state[u] = Away
    BY DEF Init, Whole
  <2>3. Place(log[u]) = Away
    <3>1. <<>> \in Seq(Rows) /\ Moves(<<>>) = {}
      BY EmptySeq DEF Moves
    <3> QED BY <2>2, <3>1, PlaceIs
  <2> QED BY <2>1, <2>2, <2>3 DEF ReplaysTo, Replays
<1>3. InsertedInv
  BY <1>1 DEF InsertedInv
<1> QED BY <1>2, <1>3 DEF ReplayInv

\* record_voice_events: when no task is at work, and the tasks for a member did
\* not overlap, his rows of voice_state_events put him where the cache has him,
\* and the last of them about a flag says what it is: unless a row of his could not
\* be inserted or an event was not this process's to handle since he last came.
THEOREM TimelineReplaysHolds == Spec => []TimelineReplays
<1>1. Spec => []TypeOK
  BY PresenceTypeCorrect
<1>2. Init => ReplayInv /\ InsertedInv
  BY InitReplays
<1>3. TypeOK /\ ReplayInv /\ InsertedInv /\ [Next]_vars => ReplayInv' /\ InsertedInv'
  BY NextReplays
<1>4. ReplayInv => TimelineReplays
  <2> SUFFICES ASSUME ReplayInv, AtRest, ~overlap, NEW u \in Users \ (Bots \cup missed \cup lost)
               PROVE  Replays(log[u], state[u])
    BY Zenon DEF TimelineReplays, Replays
  <2>1. Working(u) = {}
    BY DEF AtRest
  <2>2. ReplaysTo(u)
    BY DEF ReplayInv, Whole
  <2> QED BY <2>1, <2>2 DEF ReplaysTo
<1> QED BY <1>1, <1>2, <1>3, <1>4, PTL DEF Spec

----
(***************************************************************************)
(* The dashboard.                                                          *)
(***************************************************************************)

\* No event of a member is on its way to being announced, or was skipped.
Settled(u) == \A e \in DOMAIN events :
                events[e].who = u => task[e].pc \notin {"route", "record", "skipped"}

\* A stream that waits for the voice of the guild with nothing unseen has sent
\* the states the cache has, but for members with an event that is not announced
\* yet, or never: a change that falls between the building of a message and the
\* select is not lost.
NoUpdateMissed ==
  /\ stream.pc = "wait" /\ stream.topic = "voice"
  /\ "voice" \notin dirty
  => \A u \in Users : Settled(u) => shown.states[u] = state[u]

\* Every change of a member in the cache has been announced and seen.
Seen(u) == "voice" \notin dirty /\ Settled(u)

\* What is built for a subscriber of the voice holds the cache, but for changes
\* that are unseen or still to be announced.
BuiltInv ==
  stream.pc = "send" /\ stream.topic = "voice"
    => \A u \in Users : Seen(u) => stream.event.states[u] = state[u]

SeenInv == BuiltInv /\ NoUpdateMissed

\* What is to be shown for one member.
LEMMA SeenOne ==
  SeenInv <=>
    \A u \in Users : Seen(u) /\ stream.topic = "voice" =>
      /\ stream.pc = "send" => stream.event.states[u] = state[u]
      /\ stream.pc = "wait" => shown.states[u] = state[u]
BY Zenon DEF SeenInv, BuiltInv, NoUpdateMissed, Seen

\* It is enough to show it for each member in the next state.
LEMMA SeenNext ==
  ASSUME \A u \in Users : Seen(u)' /\ stream'.topic = "voice" =>
           /\ stream'.pc = "send" => stream'.event.states[u] = state'[u]
           /\ stream'.pc = "wait" => shown'.states[u] = state'[u]
  PROVE  SeenInv'
BY Zenon DEF SeenInv, BuiltInv, NoUpdateMissed, Seen

\* A step that keeps the cache and the stream, and makes nothing seen.
LEMMA SeenStays ==
  ASSUME SeenInv, UNCHANGED <<state, stream, shown>>,
         stream = Closed \/ \A u \in Users : Seen(u)' => Seen(u)
  PROVE  SeenInv'
<1>1. CASE stream = Closed
  <2>1. stream'.pc = "off"
    BY <1>1 DEF Closed
  <2> QED BY <2>1, SeenNext
<1>2. CASE \A u \in Users : Seen(u)' => Seen(u)
  BY <1>2, SeenOne, SeenNext
<1> QED BY <1>1, <1>2

LEMMA NextSeen == TypeOK /\ SeenInv /\ [Next]_vars => SeenInv'
<1> SUFFICES ASSUME TypeOK, SeenInv, [Next]_vars PROVE SeenInv'
  OBVIOUS
<1>1. GuildOK /\ TasksOK /\ ViewerOK
  BY TypeParts
<1>2. ASSUME NEW u \in Users, NEW new \in Voice \cup {Away},
         NEW flags \in SUBSET Flags, Update(u, new, flags) PROVE SeenInv'
  <2> PICK e \in Nat : e = Len(events) + 1
    BY <1>1 DEF GuildOK
  <2>1. Dispatched(u, new, flags, e)
    BY <1>2, UpdateIs, Zenon
  <2>2. /\ e \in DOMAIN events' /\ events'[e].who = u /\ task'[e].pc = "route"
        /\ \A d \in DOMAIN events : /\ d \in DOMAIN events' /\ events'[d] = events[d]
                                    /\ task'[d] = task[d]
    BY <2>1 DEF Dispatched
  <2>3. ~ Seen(u)'
    BY <2>2 DEF Seen, Settled
  <2>4. ASSUME NEW v \in Users, v # u PROVE state'[v] = state[v] /\ (Seen(v)' => Seen(v))
    <3>1. state'[v] = state[v] /\ dirty' = dirty
      BY <1>1, <1>2, <2>4 DEF Update, GuildOK
    <3> QED BY <2>2, <3>1 DEF Seen, Settled
  <2>5. stream' = stream /\ shown' = shown
    BY <1>2 DEF Update, viewer
  <2> QED BY <2>3, <2>4, <2>5, SeenOne, SeenNext
<1>3. ASSUME NEW e \in DOMAIN events, Handle(e) PROVE SeenInv'
  <2>1. UNCHANGED <<state, events, stream, shown>>
    BY <1>3 DEF Handle, Take, Skip, Insert, Announce, Track, guild, viewer
  <2>2. PICK t : task' = [task EXCEPT ![e] = t]
    BY <1>3 DEF Handle, Take, Skip, Insert, Announce, Track
  <2>3. e \in EventIds /\ DOMAIN task = EventIds /\ DOMAIN events \subseteq EventIds
    BY <1>1, EventIs DEF TasksOK
  <2>4. task[e] \in Task /\ events[e].who \in Users
    BY <1>1, <2>3, EventIs DEF TasksOK
  <2>5. \A d \in DOMAIN events : d # e => task'[d] = task[d]
    BY <2>2, <2>3
  <2>6. ASSUME dirty' = dirty,
               task[e].pc \in {"route", "record", "skipped"}
                 => task'[e].pc \in {"route", "record", "skipped"}
        PROVE  SeenInv'
    <3>1. \A u \in Users : Seen(u)' => Seen(u)
      BY <2>1, <2>5, <2>6 DEF Seen, Settled
    <3> QED BY <2>1, <3>1, SeenStays
  <2>7. ASSUME NEW failed \in BOOLEAN, Insert(e, failed) PROVE SeenInv'
    <3>1. task' = [task EXCEPT ![e] = [task[e] EXCEPT !.todo = Tail(@)]] /\ dirty' = dirty
      BY <2>7 DEF Insert
    <3>2. task'[e].pc = task[e].pc
      BY <2>3, <2>4, <3>1 DEF Task
    <3> QED BY <2>6, <3>1, <3>2
  <2>8. CASE Announce(e)
    <3>1. CASE stream = Closed
      BY <2>1, <3>1, SeenStays
    <3>2. CASE stream # Closed
      <4>1. "voice" \in dirty'
        BY <2>8, <3>2 DEF Announce
      <4> QED BY <2>1, <4>1, SeenStays DEF Seen
    <3> QED BY <3>1, <3>2
  <2>9. CASE Track(e)
    BY <2>6, <2>9 DEF Track
  <2>10. CASE Take(e) \/ Skip(e)
    <3>1. PICK l \in {"record", "skipped"} : task' = [task EXCEPT ![e] = [task[e] EXCEPT !.pc = l]]
      BY <2>10 DEF Take, Skip
    <3>2. task'[e].pc = l
      BY <2>3, <2>4, <3>1 DEF Task
    <3>3. dirty' = dirty
      BY <2>10 DEF Take, Skip
    <3> QED BY <2>6, <3>2, <3>3
  <2> QED BY <1>3, <2>7, <2>8, <2>9, <2>10 DEF Handle
<1>4. CASE Open
  <2>1. stream' = [pc |-> "loop", topic |-> "", event |-> Nothing]
    BY <1>4 DEF Open, Closed
  <2> QED BY <2>1, SeenNext
<1>5. ASSUME NEW t \in Topics, Ask(t) PROVE SeenInv'
  <2>1. UNCHANGED <<state, stream, shown>> /\ (\A u \in Users : Seen(u)' => Seen(u))
    BY <1>5 DEF Ask, guild, Seen, Settled
  <2> QED BY <2>1, SeenStays
<1>6. CASE HangUp
  <2>1. UNCHANGED <<state, stream, shown>> /\ (\A u \in Users : Seen(u)' => Seen(u))
    BY <1>6 DEF HangUp, guild, Seen, Settled
  <2> QED BY <2>1, SeenStays
<1>7. CASE GlobalUpdate
  <2>1. UNCHANGED <<state, stream, shown>> /\ (\A u \in Users : Seen(u)' => Seen(u))
    BY <1>7 DEF GlobalUpdate, guild, viewer, Seen, Settled
  <2> QED BY <2>1, SeenStays
<1>8. /\ stream \in Stream
      /\ stream = [pc |-> stream.pc, topic |-> stream.topic, event |-> stream.event]
  BY <1>1, StreamIs DEF ViewerOK
<1>9. ASSUME stream'.pc \notin {"send", "wait"} PROVE SeenInv'
  BY <1>9, SeenNext
<1>10. CASE ReadTopic
  <2>1. PICK l \in {"wait", "send", "times"} :
          /\ stream' = [pc |-> l, topic |-> topic, event |-> stream.event]
          /\ topic = "voice" => l = "times"
    BY <1>1, <1>8, <1>10 DEF ReadTopic, ViewerOK, Topics
  <2> QED BY <2>1, SeenNext
<1>11. CASE ReadTimes
  <2>1. stream'.pc = "build"
    BY <1>8, <1>11 DEF ReadTimes
  <2> QED BY <1>9, <2>1
<1>12. CASE Build
  <2>1. stream'.pc = "send" /\ stream'.event.states = state' /\ state' = state
    <3>1. PICK built : built.states = state /\ stream' = [stream EXCEPT !.event = built, !.pc = "send"]
      BY <1>12 DEF Build
    <3> QED BY <1>8, <1>12, <3>1 DEF Build, guild
  <2> QED BY <2>1, SeenNext
<1>13. CASE Send
  <2>1. UNCHANGED <<state, events, task, dirty>>
    BY <1>13 DEF Send, Unseen, guild
  <2>2. CASE asked = -1
    <3>1. stream' = Closed
      BY <1>13, <2>2 DEF Send
    <3>2. stream'.pc = "off"
      BY <3>1 DEF Closed
    <3> QED BY <1>9, <3>2
  <2>3. CASE asked # -1
    <3>1. stream' = [pc |-> "wait", topic |-> stream.topic, event |-> Nothing]
      BY <1>8, <1>13, <2>3 DEF Send
    <3>2. stream.pc = "send" /\ (stream.topic # "global" => shown' = stream.event)
      BY <1>13, <2>3 DEF Send
    <3>3. \A u \in Users : Seen(u)' => Seen(u)
      BY <2>1 DEF Seen, Settled
    <3> QED BY <2>1, <3>1, <3>2, <3>3, SeenOne, SeenNext
  <2> QED BY <2>2, <2>3
<1>14. ASSUME NEW w \in {"topic", "global", "voice"}, Changed(w) PROVE SeenInv'
  <2>1. stream'.pc = "loop"
    BY <1>8, <1>14 DEF Changed
  <2> QED BY <1>9, <2>1
<1>15. CASE TopicEnds
  <2>1. stream'.pc = "off"
    BY <1>15 DEF TopicEnds, Closed
  <2> QED BY <1>9, <2>1
<1>16. CASE Tick
  <2>1. stream'.pc = "loop"
    BY <1>8, <1>16 DEF Tick
  <2> QED BY <1>9, <2>1
<1>17. CASE UNCHANGED vars
  <2>1. UNCHANGED <<state, stream, shown>> /\ (\A u \in Users : Seen(u)' => Seen(u))
    BY <1>17 DEF vars, guild, viewer, Seen, Settled
  <2> QED BY <2>1, SeenStays
<1> QED BY <1>2, <1>3, <1>4, <1>5, <1>6, <1>7, <1>10, <1>11, <1>12, <1>13, <1>14, <1>15, <1>16, <1>17
       DEF Next, Push

\* dashboard_stream: whatever the order of borrow, send and changed, a stream
\* that waits with nothing unseen has sent the cache as far as it is announced.
THEOREM NoUpdateMissedHolds == Spec => []NoUpdateMissed
<1>1. Init => SeenInv
  <2>1. Init => stream = Closed
    BY DEF Init
  <2>2. Closed.pc = "off"
    BY DEF Closed
  <2> QED BY <2>1, <2>2, SeenOne
<1>2. TypeOK /\ SeenInv /\ [Next]_vars => SeenInv'
  BY NextSeen
<1>3. SeenInv => NoUpdateMissed
  BY DEF SeenInv
<1> QED BY PresenceTypeCorrect, <1>1, <1>2, <1>3, PTL DEF Spec
====
