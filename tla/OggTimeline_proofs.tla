---- MODULE OggTimeline_proofs ----
(***************************************************************************)
(* The file of a recording keeps up with the clock, and its row with the   *)
(* file, for any length of frames, timeouts, buffer and lag and however    *)
(* often the user leaves and the driver drops: TypeOK, AudioKeepsUp,       *)
(* RowMatchesFile and ClosedFileIsComplete are invariants of OggTimeline.  *)
(***************************************************************************)
EXTENDS OggTimeline, FunctionTheorems, FiniteSetTheorems, TLAPS

\* The last time by t at which a tick is due.
Beat(t) == t - (t % Frame)

\* What may follow an event in the queue: ticks come one frame apart while the
\* driver is up, and nothing but its return after it has gone down.
Follows(a, b) ==
  /\ a.kind = "down" <=> b.kind = "up"
  /\ a.kind # "down" => Beat(b.at) = Beat(a.at) + IF b.kind = "tick" THEN Frame ELSE 0
Timely(event) ==
  /\ event.at <= now /\ now <= event.at + MaxLag
  /\ event.kind = "tick" => Beat(event.at) = event.at
LastIs(last) ==
  /\ last.kind = "down" <=> ~driver.up
  /\ driver.up => Beat(now) = Beat(last.at)
QueueInv ==
  /\ \A n \in DOMAIN queue : Timely(queue[n])
  /\ \A m, n \in DOMAIN queue : m <= n => queue[m].at <= queue[n].at
  /\ \A n \in DOMAIN queue : n + 1 \in DOMAIN queue => Follows(queue[n], queue[n + 1])
  /\ queue # <<>> => LastIs(queue[Len(queue)])

HeadIs(kind) == queue # <<>> /\ Head(queue).kind = kind
Kept == place \in {"active", "paused"}

\* What the event task is at is the head of the queue.
TaskInv ==
  /\ task.at = "creating" => HeadIs("speak") /\ Head(queue).at <= start
  /\ task.at = "writing" => HeadIs("tick") /\ place \notin {"none", "paused", "gone"}
  /\ task.at \in {"padding", "checking"} =>
       /\ HeadIs("up") /\ disconnectedAt = 0
       /\ Head(queue).at <= task.time /\ task.time <= now
       /\ Kept => start <= task.time
  /\ task.at = "creating" => place = "none"
OutageInv ==
  /\ place = "none" => HeadIs("speak") /\ disconnectedAt = 0 /\ writer = Fresh
  /\ Kept /\ disconnectedAt # 0 => IF queue = <<>> THEN ~driver.up ELSE HeadIs("up")
  /\ Kept /\ disconnectedAt = 0 =>
       /\ queue = <<>> => driver.up
       /\ HeadIs("up") => task.at \in {"padding", "checking"}

TimeInv ==
  /\ start \in 0 .. now /\ pausedAt \in 0 .. now
  /\ disconnectedAt \in 0 .. now /\ closing \in 0 .. now
  /\ place = "paused" => start <= pausedAt
  /\ place \in {"taken", "finished"} => start <= closing
  /\ writer.disk <= writer.pages
  /\ writer.finished => place \in {"finished", "closed", "gone"}

Waiting == Cardinality({n \in DOMAIN queue : queue[n].kind \in {"leave", "down"}})
Over == gaps - Waiting

Low(n)  == n * (Frame + MaxLag - 1)
High(n) == Frame + MaxLag - 1 + n * (2 * Frame + MaxLag - 2)

\* The moment up to which the ticks have been handled.
Front == IF queue = <<>> THEN Beat(now)
         ELSE Beat(Head(queue).at) - IF Head(queue).kind = "tick" THEN Frame ELSE 0

\* The time line is within n gaps.
Within(file, time, low, high) == time <= file + Low(low) /\ file <= time + High(high)

FrontInv ==
  ~writer.broken =>
    /\ place = "active" /\ disconnectedAt = 0 /\ task.at # "padding" =>
         Within(File, Front - start, Over, Over)
    /\ place = "active" /\ task.at = "padding" =>
         Within(File + task.frames * Frame, Front - start, Over, Over)
    /\ place = "active" /\ disconnectedAt # 0 =>
         Within(File, disconnectedAt - start, Over, Over - 1)
    /\ place = "paused" => Within(File, pausedAt - start, Over, Over - 1)

Pending == IF task.at = "writing" /\ ~writer.finished THEN Frame ELSE 0
Matches(length) ==
  /\ File + Pending - length <= Ahead
  /\ row.cut \/ length - File <= Behind
EndInv ==
  ~writer.broken =>
    /\ place \in {"taken", "finished"} => Matches(closing - start)
    /\ place \in {"closed", "gone"} /\ ~row.open => Matches(row.length)

----
\* The constants, one by one.
LEMMA Constants ==
  /\ Frame \in Nat /\ Frame >= 1 /\ Buffer \in Nat /\ Buffer >= 1
  /\ RejoinAfter \in Nat /\ OutageAfter \in Nat /\ MaxLag \in Nat
  /\ MaxTime \in Nat /\ MaxGaps \in Nat /\ Frame <= MaxTime
BY TimeAssumption

\* Multiples of a frame.
LEMMA Multiples ==
  ASSUME NEW a \in Int, NEW b \in Int
  PROVE  /\ a * Frame \in Int
         /\ (a + b) * Frame = a * Frame + b * Frame
         /\ a < b => a * Frame + Frame <= b * Frame
<1>0. Frame \in Nat /\ Frame >= 1
  BY Constants
<1>1. a * Frame \in Int /\ (a + b) * Frame = a * Frame + b * Frame
  BY <1>0
<1>2. ASSUME a < b PROVE a * Frame + Frame <= b * Frame
  <2> DEFINE d == b - a - 1
  <2>1. d \in Nat /\ b = (a + 1) + d
    BY <1>2
  <2>2. d * Frame >= 0
    BY <1>0, <2>1
  <2>3. b * Frame = (a + 1) * Frame + d * Frame
    BY <1>0, <2>1
  <2>4. (a + 1) * Frame = a * Frame + Frame
    BY <1>0
  <2> QED BY <1>0, <2>2, <2>3, <2>4
<1> QED BY <1>1, <1>2

LEMMA BeatIs ==
  ASSUME NEW t \in Nat
  PROVE  /\ Beat(t) \in Int /\ Beat(t) <= t /\ t < Beat(t) + Frame
         /\ Beat(t) = (t \div Frame) * Frame /\ t \div Frame \in Int
<1>0. Frame \in Nat /\ Frame >= 1
  BY Constants
<1>1. t \div Frame \in Int /\ t % Frame \in 0 .. Frame - 1
  BY <1>0
<1>2. t = Frame * (t \div Frame) + (t % Frame)
  BY <1>0
<1> QED BY <1>0, <1>1, <1>2 DEF Beat

\* A tick is due when a frame is over, and not before.
LEMMA BeatStep ==
  ASSUME NEW t \in Nat
  PROVE  IF (t + 1) % Frame = 0
         THEN Beat(t + 1) = t + 1 /\ Beat(t + 1) = Beat(t) + Frame
         ELSE Beat(t + 1) = Beat(t)
<1>0. Frame \in Nat /\ Frame >= 1
  BY Constants
<1> DEFINE p == t \div Frame
           q == (t + 1) \div Frame
           r == t % Frame
           s == (t + 1) % Frame
<1>1. /\ p \in Int /\ q \in Int /\ r \in 0 .. Frame - 1 /\ s \in 0 .. Frame - 1
      /\ Beat(t) = t - r /\ Beat(t + 1) = (t + 1) - s
      /\ Beat(t) = p * Frame /\ Beat(t + 1) = q * Frame
  BY <1>0, BeatIs DEF Beat
<1> HIDE DEF p, q, r, s
<1>2. ~(q < p)
  BY <1>0, <1>1, Multiples
<1>3. ~(p + 1 < q)
  BY <1>0, <1>1, Multiples
<1>4. q = p \/ q = p + 1
  BY <1>1, <1>2, <1>3
<1>5. (p + 1) * Frame = p * Frame + Frame
  BY <1>0, <1>1
<1>6. IF s = 0
      THEN Beat(t + 1) = t + 1 /\ Beat(t + 1) = Beat(t) + Frame
      ELSE Beat(t + 1) = Beat(t)
  BY <1>0, <1>1, <1>4, <1>5
<1> QED BY <1>6 DEF s

LEMMA SilenceIs ==
  ASSUME NEW gap \in Nat
  PROVE  /\ SilenceFrames(gap) \in Nat
         /\ gap <= SilenceFrames(gap) * Frame /\ SilenceFrames(gap) * Frame < gap + Frame
<1>0. Frame \in Nat /\ Frame >= 1
  BY Constants
<1>1. CASE gap = 0
  BY <1>0, <1>1 DEF SilenceFrames
<1>2. CASE gap # 0
  <2> DEFINE t == gap + Frame - 1
             q == t \div Frame
             r == t % Frame
  <2>1. t \in Nat
    BY <1>0
  <2>2. q \in Nat /\ r \in 0 .. Frame - 1 /\ t = Frame * q + r
    BY <1>0, <2>1
  <2>3. SilenceFrames(gap) = q
    BY <1>2 DEF SilenceFrames
  <2> HIDE DEF q, r
  <2> QED BY <1>0, <2>2, <2>3
<1> QED BY <1>1, <1>2

\* What one more gap may add.
LEMMA Gaps ==
  ASSUME NEW n \in Int
  PROVE  /\ Low(n) \in Int /\ High(n) \in Int
         /\ Low(n + 1) = Low(n) + (Frame + MaxLag - 1)
         /\ High(n) = High(n - 1) + (2 * Frame + MaxLag - 2)
         /\ High(n + 1) = High(n) + (2 * Frame + MaxLag - 2)
<1> DEFINE a == Frame + MaxLag - 1
           b == 2 * Frame + MaxLag - 2
<1>1. a \in Int /\ b \in Int
  BY Constants
<1>2. Low(n) = n * a /\ Low(n + 1) = (n + 1) * a
  BY DEF Low
<1>3. High(n) = a + n * b /\ High(n - 1) = a + (n - 1) * b /\ High(n + 1) = a + (n + 1) * b
  BY DEF High
<1> HIDE DEF a, b
<1>4. /\ Low(n) \in Int /\ High(n) \in Int /\ Low(n + 1) = Low(n) + a
      /\ High(n) = High(n - 1) + b /\ High(n + 1) = High(n) + b
  BY <1>1, <1>2, <1>3
<1> QED BY <1>4 DEF a, b

LEMMA GapsMonotone ==
  ASSUME NEW m \in Int, NEW n \in Int, m <= n
  PROVE  Low(m) <= Low(n) /\ High(m) <= High(n)
<1> DEFINE a == Frame + MaxLag - 1
           b == 2 * Frame + MaxLag - 2
           d == n - m
<1>1. a \in Nat /\ b \in Nat /\ d \in Nat /\ n = m + d
  BY Constants
<1>2. Low(n) = n * a /\ Low(m) = m * a
  BY DEF Low
<1>3. High(n) = a + n * b /\ High(m) = a + m * b
  BY DEF High
<1> HIDE DEF a, b, d
<1>4. n * a = m * a + d * a /\ n * b = m * b + d * b /\ d * a >= 0 /\ d * b >= 0
  BY <1>1
<1>5. m * a \in Int /\ m * b \in Int /\ d * a \in Int /\ d * b \in Int
  BY <1>1
<1> HIDE DEF a
<1> QED BY <1>1, <1>2, <1>3, <1>4, <1>5

----
Kinds  == {"tick", "speak", "leave", "down", "up"}
Queued == [kind : Kinds, at : 1 .. MaxTime]
Places == {"none", "active", "paused", "taken", "finished", "closed", "gone"}
Tasks  == [at : {"idle", "creating", "writing", "padding", "checking"},
           frames : Nat, time : 0 .. MaxTime]
Writer == [granule : Nat, pages : Nat, disk : Nat, finished : BOOLEAN, broken : BOOLEAN,
           lost : BOOLEAN]

\* What TypeOK says of the world, of the event task, and of the recording.
WorldOK == /\ now \in 1 .. MaxTime /\ driver \in [up : BOOLEAN, present : BOOLEAN]
           /\ queue \in Seq(Queued) /\ gaps \in 0 .. MaxGaps
FileOK  == /\ place \in Places /\ writer \in Writer
           /\ row \in [open : BOOLEAN, length : Nat, cut : BOOLEAN]
TimesOK == /\ start \in 0 .. MaxTime /\ pausedAt \in 0 .. MaxTime
           /\ disconnectedAt \in 0 .. MaxTime /\ closing \in 0 .. MaxTime

LEMMA TypeParts == TypeOK <=> WorldOK /\ task \in Tasks /\ FileOK /\ TimesOK
BY DEF TypeOK, WorldOK, FileOK, TimesOK, Queued, Kinds, Places, Tasks, Writer

LEMMA PartsNext == ASSUME WorldOK', task' \in Tasks, FileOK', TimesOK' PROVE TypeOK'
<1>1. {start, pausedAt, disconnectedAt, closing}' \subseteq 0 .. MaxTime
  BY DEF TimesOK
<1> QED BY <1>1 DEF TypeOK, WorldOK, FileOK, Queued, Kinds, Places, Tasks, Writer

\* The queue as a sequence.
LEMMA QueueIs ==
  ASSUME WorldOK
  PROVE  /\ Len(queue) \in Nat /\ DOMAIN queue = 1 .. Len(queue)
         /\ queue = <<>> <=> Len(queue) = 0
         /\ queue # <<>> => Head(queue) = queue[1] /\ Head(queue) \in Queued
         /\ \A n \in 1 .. Len(queue) :
              /\ queue[n] \in Queued /\ queue[n].kind \in Kinds /\ queue[n].at \in 1 .. MaxTime
<1>1. queue \in Seq(Queued)
  BY DEF WorldOK
<1>2. Len(queue) \in Nat /\ DOMAIN queue = 1 .. Len(queue)
  BY <1>1
<1>3. queue = <<>> <=> Len(queue) = 0
  BY <1>1
<1>4. \A n \in 1 .. Len(queue) : queue[n] \in Queued
  BY <1>1
<1>5. queue # <<>> => Head(queue) = queue[1] /\ Head(queue) \in Queued
  BY <1>1
<1>6. \A e \in Queued : e.kind \in Kinds /\ e.at \in 1 .. MaxTime
  BY DEF Queued
<1> QED BY <1>2, <1>3, <1>4, <1>5, <1>6

LEMMA Emitted ==
  ASSUME WorldOK, NEW kind \in Kinds, NEW time \in 1 .. MaxTime, queue' = Emit(kind, time)
  PROVE  /\ queue' \in Seq(Queued) /\ Len(queue') = Len(queue) + 1
         /\ DOMAIN queue' = 1 .. Len(queue) + 1
         /\ \A n \in 1 .. Len(queue) : queue'[n] = queue[n]
         /\ queue'[Len(queue) + 1] = [kind |-> kind, at |-> time]
         /\ queue' # <<>> /\ Head(queue') = queue'[1]
<1>1. [kind |-> kind, at |-> time] \in Queued
  BY DEF Queued
<1> DEFINE e == [kind |-> kind, at |-> time]
<1> HIDE DEF e
<1>2. e \in Queued /\ queue' = Append(queue, e) /\ queue \in Seq(Queued)
  BY <1>1 DEF e, Emit, WorldOK
<1>3. /\ queue' \in Seq(Queued) /\ Len(queue') = Len(queue) + 1
      /\ DOMAIN queue' = 1 .. Len(queue) + 1
      /\ \A n \in 1 .. Len(queue) : queue'[n] = queue[n]
      /\ queue'[Len(queue) + 1] = e
  BY <1>2
<1>4. queue' # <<>> /\ Head(queue') = queue'[1]
  BY <1>2, <1>3
<1> QED BY <1>3, <1>4 DEF e

LEMMA Popped ==
  ASSUME WorldOK, queue # <<>>, queue' = Tail(queue)
  PROVE  /\ queue' \in Seq(Queued) /\ Len(queue') = Len(queue) - 1
         /\ DOMAIN queue' = 1 .. Len(queue) - 1 /\ Len(queue) >= 1
         /\ \A n \in 1 .. Len(queue) - 1 : queue'[n] = queue[n + 1]
         /\ queue' # <<>> => Head(queue') = queue'[1]
BY DEF WorldOK

\* The gaps in the queue.
GapsIn(s) == {n \in DOMAIN s : s[n].kind \in {"leave", "down"}}

LEMMA WaitingIs ==
  ASSUME WorldOK
  PROVE  /\ IsFiniteSet(GapsIn(queue)) /\ Waiting = Cardinality(GapsIn(queue)) /\ Waiting \in Nat
<1>1. IsFiniteSet(1 .. Len(queue))
  BY QueueIs, FS_Interval
<1>2. GapsIn(queue) \subseteq 1 .. Len(queue)
  BY QueueIs DEF GapsIn
<1>3. IsFiniteSet(GapsIn(queue))
  BY <1>1, <1>2, FS_Subset
<1> QED BY <1>3, FS_CardinalityType DEF Waiting, GapsIn

LEMMA EmitCount ==
  ASSUME WorldOK, NEW kind \in Kinds, NEW time \in 1 .. MaxTime, queue' = Emit(kind, time)
  PROVE  Waiting' = Waiting + IF kind \in {"leave", "down"} THEN 1 ELSE 0
<1> DEFINE m == Len(queue) + 1
<1> DEFINE more == IF kind \in {"leave", "down"} THEN {m} ELSE {}
<1>1. GapsIn(queue') = GapsIn(queue) \cup more /\ m \notin GapsIn(queue)
  <2>1. /\ Len(queue) \in Nat /\ DOMAIN queue = 1 .. Len(queue) /\ DOMAIN queue' = 1 .. m
        /\ \A n \in 1 .. Len(queue) : queue'[n] = queue[n]
        /\ queue'[m].kind = kind
    <3>1. Len(queue) \in Nat /\ DOMAIN queue = 1 .. Len(queue)
      BY QueueIs
    <3>2. DOMAIN queue' = 1 .. m /\ \A n \in 1 .. Len(queue) : queue'[n] = queue[n]
      BY Emitted
    <3>3. queue'[m] = [kind |-> kind, at |-> time]
      BY Emitted
    <3> QED BY <3>1, <3>2, <3>3
  <2>2. DOMAIN queue' = DOMAIN queue \cup {m} /\ m \notin DOMAIN queue
    BY <2>1
  <2> HIDE DEF m
  <2>3. ASSUME NEW n PROVE n \in GapsIn(queue') <=> n \in GapsIn(queue) \cup more
    BY <2>1, <2>2 DEF GapsIn
  <2> QED BY <2>2, <2>3 DEF GapsIn
<1>2. Waiting' = Cardinality(GapsIn(queue'))
  BY DEF Waiting, GapsIn
<1>3. Cardinality(GapsIn(queue) \cup {m}) = Waiting + 1
  BY <1>1, WaitingIs, FS_AddElement
<1>4. Waiting = Cardinality(GapsIn(queue)) /\ Waiting \in Nat
  BY WaitingIs
<1>5. CASE kind \in {"leave", "down"}
  BY <1>1, <1>2, <1>3, <1>5, Zenon
<1>6. CASE kind \notin {"leave", "down"}
  <2>1. GapsIn(queue') = GapsIn(queue)
    BY <1>1, <1>6
  <2> QED BY <1>2, <1>4, <1>6, <2>1
<1> QED BY <1>5, <1>6

LEMMA PopCount ==
  ASSUME WorldOK, queue # <<>>, queue' = Tail(queue)
  PROVE  Waiting' = Waiting - IF Head(queue).kind \in {"leave", "down"} THEN 1 ELSE 0
<1> DEFINE T == GapsIn(queue) \ {1}
           f == [n \in T |-> n - 1]
<1>1. \A n \in DOMAIN queue' : n + 1 \in DOMAIN queue /\ queue'[n] = queue[n + 1] /\ n \in Nat
  BY QueueIs, Popped
<1>2. \A n \in DOMAIN queue : n \in Int /\ (n # 1 => n - 1 \in DOMAIN queue' /\ (n - 1) + 1 = n)
  BY QueueIs, Popped
<1>3. f \in [T -> GapsIn(queue')]
  <2> SUFFICES ASSUME NEW n \in T PROVE n - 1 \in GapsIn(queue')
    OBVIOUS
  <2>1. n - 1 \in DOMAIN queue' /\ queue[n] = queue'[n - 1]
    BY <1>1, <1>2 DEF GapsIn
  <2> QED BY <2>1 DEF GapsIn
<1>4. \A a, b \in T : f[a] = f[b] => a = b
  BY <1>2 DEF GapsIn
<1>5. \A n \in GapsIn(queue') : \E t \in T : f[t] = n
  <2> SUFFICES ASSUME NEW n \in GapsIn(queue') PROVE n + 1 \in T /\ f[n + 1] = n
    OBVIOUS
  <2>1. n + 1 \in DOMAIN queue /\ queue'[n] = queue[n + 1] /\ n \in Nat /\ n # 0
    BY <1>1, Popped DEF GapsIn
  <2>2. n + 1 \in T
    BY <2>1 DEF GapsIn
  <2> QED BY <2>1, <2>2
<1>6. ExistsBijection(T, GapsIn(queue'))
  BY <1>3, <1>4, <1>5, Fun_IsBij DEF ExistsBijection
<1>7. IsFiniteSet(T)
  BY WaitingIs, FS_Subset
<1>8. Waiting' = Cardinality(GapsIn(queue')) /\ Waiting = Cardinality(GapsIn(queue)) /\ Waiting \in Nat
  BY WaitingIs DEF Waiting, GapsIn
<1>9. Waiting' = Cardinality(T)
  BY <1>6, <1>7, <1>8, FS_Bijection
<1>10. 1 \in GapsIn(queue) <=> Head(queue).kind \in {"leave", "down"}
  BY QueueIs DEF GapsIn
<1>11. Cardinality(T) = Waiting - IF 1 \in GapsIn(queue) THEN 1 ELSE 0
  <2>1. Cardinality(T) = IF 1 \in GapsIn(queue) THEN Cardinality(GapsIn(queue)) - 1
                         ELSE Cardinality(GapsIn(queue))
    BY WaitingIs, FS_RemoveElement, Zenon
  <2> HIDE DEF T
  <2> QED BY <1>8, <2>1
<1> QED BY <1>9, <1>10, <1>11

----
\* The queue when the world stands still, goes on, or hands over an event.
LEMMA QueueStays ==
  ASSUME QueueInv, UNCHANGED world
  PROVE  QueueInv' /\ Front' = Front /\ Waiting' = Waiting /\ Over' = Over
BY DEF world, QueueInv, Timely, Follows, LastIs, Front, Waiting, Over

LEMMA EmitQueue ==
  ASSUME WorldOK, QueueInv, NEW kind \in Kinds \ {"tick"}, queue' = Emit(kind, now),
         UNCHANGED now, kind = "up" <=> ~driver.up, kind = "down" <=> ~driver'.up
  PROVE  /\ QueueInv' /\ Front' = Front
         /\ queue' # <<>> /\ Head(queue').kind = IF queue = <<>> THEN kind ELSE Head(queue).kind
         /\ queue # <<>> => Head(queue') = Head(queue)
<1> PICK l : l = Len(queue)
  OBVIOUS
<1>1. /\ l \in Nat /\ DOMAIN queue = 1 .. l /\ (queue = <<>> <=> l = 0)
      /\ queue # <<>> => Head(queue) = queue[1]
      /\ \A n \in 1 .. l : queue[n].at \in Nat
  BY QueueIs
<1>2. now \in Nat /\ now \in 1 .. MaxTime
  BY DEF WorldOK
<1>3. /\ DOMAIN queue' = 1 .. l + 1 /\ Len(queue') = l + 1
      /\ \A n \in 1 .. l : queue'[n] = queue[n]
      /\ queue' # <<>> /\ Head(queue') = queue'[1]
  BY <1>2, Emitted
<1>4. queue'[l + 1].kind = kind /\ queue'[l + 1].at = now
  <2>1. queue'[l + 1] = [kind |-> kind, at |-> now]
    BY <1>2, Emitted
  <2> QED BY <2>1
<1>5. /\ \A n \in 1 .. l : Timely(queue[n])
      /\ \A m, n \in 1 .. l : m <= n => queue[m].at <= queue[n].at
      /\ \A n \in 1 .. l : n + 1 \in 1 .. l => Follows(queue[n], queue[n + 1])
      /\ l # 0 => LastIs(queue[l])
  BY <1>1 DEF QueueInv
<1>6. \A n \in 1 .. l + 1 : Timely(queue[n])'
  <2>1. \A n \in 1 .. l : Timely(queue[n])'
    BY <1>3, <1>5 DEF Timely
  <2>2. Timely(queue[l + 1])'
    BY <1>2, <1>4, Constants DEF Timely
  <2> QED BY <1>1, <2>1, <2>2
<1>7. \A m, n \in 1 .. l + 1 : m <= n => queue'[m].at <= queue'[n].at
  <2>1. \A m \in 1 .. l : queue'[m].at <= now
    BY <1>3, <1>5 DEF Timely
  <2> QED BY <1>1, <1>2, <1>3, <1>4, <1>5, <2>1
<1>8. ASSUME NEW n \in 1 .. l PROVE Follows(queue[n], queue[n + 1])'
  <2>1. CASE n + 1 \in 1 .. l
    BY <1>3, <1>5, <2>1 DEF Follows
  <2>2. CASE n = l
    <3>1. queue'[n] = queue[n] /\ LastIs(queue[n])
      BY <1>3, <1>5, <2>2
    <3>2. queue'[n + 1].kind = kind /\ queue'[n + 1].at = now /\ kind # "tick"
      BY <1>4, <2>2
    <3>3. Beat(now) \in Int
      BY <1>2, BeatIs
    <3> QED BY <3>1, <3>2, <3>3 DEF Follows, LastIs
  <2> QED BY <1>1, <2>1, <2>2
<1>9. LastIs(queue[l + 1])'
  BY <1>4 DEF LastIs
<1>10. QueueInv'
  <2>1. \A n \in 1 .. l + 1 : n + 1 \in 1 .. l + 1 => n \in 1 .. l
    BY <1>1
  <2> QED BY <1>3, <1>6, <1>7, <1>8, <1>9, <2>1 DEF QueueInv
<1>11. CASE queue = <<>>
  <2>1. Head(queue').kind = kind /\ Head(queue').at = now
    BY <1>1, <1>3, <1>4, <1>11
  <2>2. Beat(now) \in Int
    BY <1>2, BeatIs
  <2> QED BY <1>3, <1>10, <1>11, <2>1, <2>2 DEF Front
<1>12. CASE queue # <<>>
  <2>1. Head(queue') = Head(queue)
    BY <1>1, <1>3, <1>12
  <2> QED BY <1>3, <1>10, <1>12, <2>1 DEF Front
<1> QED BY <1>11, <1>12

LEMMA ElapseQueue ==
  ASSUME WorldOK, QueueInv, Elapse
  PROVE  /\ QueueInv'
         /\ driver.up \/ queue # <<>> => Front' = Front
         /\ queue # <<>> => queue' # <<>> /\ Head(queue') = Head(queue)
         /\ queue = <<>> /\ queue' # <<>> => driver.up /\ Head(queue').kind = "tick"
         /\ now' = now + 1 /\ WorldOK' /\ Waiting' = Waiting
<1> PICK l : l = Len(queue)
  OBVIOUS
<1>1. /\ l \in Nat /\ DOMAIN queue = 1 .. l /\ (queue = <<>> <=> l = 0)
      /\ queue # <<>> => Head(queue) = queue[1]
      /\ \A n \in 1 .. l : queue[n].at \in Nat
  BY QueueIs
<1>2. /\ now \in Nat /\ now + 1 \in 1 .. MaxTime /\ now' = now + 1 /\ MaxLag \in Nat
      /\ UNCHANGED <<driver, gaps>>
      /\ queue # <<>> => now < queue[1].at + MaxLag
  BY <1>1, Constants DEF WorldOK, Elapse, OnTime
<1>3. /\ \A n \in 1 .. l : Timely(queue[n])
      /\ \A m, n \in 1 .. l : m <= n => queue[m].at <= queue[n].at
      /\ \A n \in 1 .. l : n + 1 \in 1 .. l => Follows(queue[n], queue[n + 1])
      /\ l # 0 => LastIs(queue[l])
  BY <1>1 DEF QueueInv
<1>4. ASSUME NEW n \in 1 .. l, queue'[n] = queue[n] PROVE Timely(queue[n])'
  <2>1. queue[1].at <= queue[n].at /\ 1 \in 1 .. l /\ queue # <<>>
    BY <1>1, <1>3
  <2>2. now + 1 <= queue[n].at + MaxLag
    BY <1>1, <1>2, <2>1
  <2> QED BY <1>1, <1>2, <1>3, <1>4, <2>2 DEF Timely
<1>5. CASE driver.up /\ (now + 1) % Frame = 0
  <2>1. queue' = Emit("tick", now + 1) /\ "tick" \in Kinds
    BY <1>2, <1>5 DEF Elapse, Kinds
  <2>2. /\ DOMAIN queue' = 1 .. l + 1 /\ Len(queue') = l + 1 /\ queue' \in Seq(Queued)
        /\ \A n \in 1 .. l : queue'[n] = queue[n]
        /\ queue' # <<>> /\ Head(queue') = queue'[1]
    BY <1>2, <2>1, Emitted
  <2>3. queue'[l + 1].kind = "tick" /\ queue'[l + 1].at = now + 1
    <3>1. queue'[l + 1] = [kind |-> "tick", at |-> now + 1]
      BY <1>2, <2>1, Emitted
    <3> QED BY <3>1
  <2>4. Beat(now + 1) = now + 1 /\ Beat(now + 1) = Beat(now) + Frame /\ Beat(now) \in Int
    BY <1>2, <1>5, BeatStep, BeatIs
  <2>5. \A n \in 1 .. l + 1 : Timely(queue[n])'
    <3>1. Timely(queue[l + 1])'
      BY <1>2, <2>3, <2>4 DEF Timely
    <3> QED BY <1>1, <1>4, <2>2, <3>1
  <2>6. \A m, n \in 1 .. l + 1 : m <= n => queue'[m].at <= queue'[n].at
    <3>1. \A m \in 1 .. l : queue'[m].at <= now + 1
      BY <1>1, <1>2, <1>3, <2>2 DEF Timely
    <3> QED BY <1>1, <1>2, <1>3, <2>2, <2>3, <3>1
  <2>7. ASSUME NEW n \in 1 .. l PROVE Follows(queue[n], queue[n + 1])'
    <3>1. CASE n + 1 \in 1 .. l
      BY <1>3, <2>2, <3>1 DEF Follows
    <3>2. CASE n = l
      <4>1. queue'[n] = queue[n] /\ LastIs(queue[n])
        BY <1>3, <2>2, <3>2
      <4>2. queue'[n + 1].kind = "tick" /\ queue'[n + 1].at = now + 1
        BY <2>3, <3>2
      <4> QED BY <1>5, <2>4, <4>1, <4>2 DEF Follows, LastIs
    <3> QED BY <1>1, <3>1, <3>2
  <2>8. LastIs(queue[l + 1])'
    BY <1>2, <1>5, <2>3 DEF LastIs
  <2>9. QueueInv'
    <3>1. \A n \in 1 .. l + 1 : n + 1 \in 1 .. l + 1 => n \in 1 .. l
      BY <1>1
    <3> QED BY <2>2, <2>5, <2>6, <2>7, <2>8, <3>1 DEF QueueInv
  <2>10. Front' = Front
    <3>1. CASE queue = <<>>
      <4>1. Head(queue').kind = "tick" /\ Head(queue').at = now + 1
        BY <1>1, <2>2, <2>3, <3>1
      <4> QED BY <2>2, <2>4, <3>1, <4>1, Constants DEF Front
    <3>2. CASE queue # <<>>
      <4>1. Head(queue') = Head(queue)
        BY <1>1, <2>2, <3>2
      <4> QED BY <2>2, <3>2, <4>1 DEF Front
    <3> QED BY <3>1, <3>2
  <2>11. Waiting' = Waiting
    BY <1>2, <2>1, EmitCount, WaitingIs
  <2>12. WorldOK'
    BY <1>2, <2>2 DEF WorldOK
  <2>13. queue = <<>> => Head(queue').kind = "tick"
    BY <1>1, <2>2, <2>3
  <2>14. queue # <<>> => Head(queue') = Head(queue)
    BY <1>1, <2>2
  <2> QED BY <1>2, <1>5, <2>2, <2>9, <2>10, <2>11, <2>12, <2>13, <2>14
<1>6. CASE ~(driver.up /\ (now + 1) % Frame = 0)
  <2>1. queue' = queue
    BY <1>2, <1>6 DEF Elapse
  <2>2. driver.up => Beat(now + 1) = Beat(now)
    BY <1>2, <1>6, BeatStep
  <2>3. \A n \in 1 .. l : Timely(queue[n])'
    BY <1>4, <2>1
  <2>4. \A n \in 1 .. l : n + 1 \in 1 .. l => Follows(queue[n], queue[n + 1])'
    BY <1>3, <2>1 DEF Follows
  <2>5. l # 0 => LastIs(queue[l])'
    BY <1>2, <1>3, <2>1, <2>2 DEF LastIs
  <2>6. QueueInv'
    BY <1>1, <1>3, <2>1, <2>3, <2>4, <2>5 DEF QueueInv
  <2>7. driver.up \/ queue # <<>> => Front' = Front
    BY <1>2, <2>1, <2>2 DEF Front
  <2>8. WorldOK' /\ Waiting' = Waiting
    BY <1>2, <2>1 DEF WorldOK, Waiting
  <2> QED BY <1>2, <2>1, <2>6, <2>7, <2>8
<1> QED BY <1>5, <1>6

\* The next event takes the place of the head.
LEMMA PopQueue ==
  ASSUME WorldOK, QueueInv, queue # <<>>, queue' = Tail(queue), UNCHANGED <<now, driver, gaps>>
  PROVE  /\ QueueInv' /\ WorldOK'
         /\ Head(queue).kind # "down" =>
              /\ Front' = Beat(Head(queue).at)
              /\ IF queue' = <<>> THEN driver.up ELSE Head(queue').kind # "up"
         /\ Head(queue).kind = "down" =>
              IF queue' = <<>> THEN ~driver.up ELSE Head(queue').kind = "up"
<1> PICK l : l = Len(queue)
  OBVIOUS
<1>1. /\ l \in Nat /\ DOMAIN queue = 1 .. l /\ (queue = <<>> <=> l = 0)
      /\ Head(queue) = queue[1]
      /\ \A n \in 1 .. l : queue[n].at \in Nat
  BY QueueIs
<1>2. /\ queue' \in Seq(Queued) /\ Len(queue') = l - 1 /\ DOMAIN queue' = 1 .. l - 1 /\ l >= 1
      /\ \A n \in 1 .. l - 1 : queue'[n] = queue[n + 1]
      /\ queue' # <<>> => Head(queue') = queue'[1]
  BY Popped
<1>3. /\ \A n \in 1 .. l : Timely(queue[n])
      /\ \A m, n \in 1 .. l : m <= n => queue[m].at <= queue[n].at
      /\ \A n \in 1 .. l : n + 1 \in 1 .. l => Follows(queue[n], queue[n + 1])
      /\ LastIs(queue[l])
  BY <1>1, <1>2 DEF QueueInv
<1>4. \A n \in 1 .. l - 1 : n \in 1 .. l /\ n + 1 \in 1 .. l
  BY <1>1
<1>5. \A n \in 1 .. l - 1 : Timely(queue[n])'
  BY <1>2, <1>3, <1>4 DEF Timely
<1>6. \A m, n \in 1 .. l - 1 : m <= n => queue'[m].at <= queue'[n].at
  <2> SUFFICES ASSUME NEW m \in 1 .. l - 1, NEW n \in 1 .. l - 1, m <= n
               PROVE  queue'[m].at <= queue'[n].at
    OBVIOUS
  <2>1. m + 1 \in 1 .. l /\ n + 1 \in 1 .. l /\ m + 1 <= n + 1
    BY <1>1
  <2> QED BY <1>2, <1>3, <2>1
<1>7. ASSUME NEW n \in 1 .. l - 1, n + 1 \in 1 .. l - 1 PROVE Follows(queue[n], queue[n + 1])'
  <2>1. n + 1 \in 1 .. l /\ (n + 1) + 1 \in 1 .. l
    BY <1>4, <1>7
  <2>2. Follows(queue[n + 1], queue[(n + 1) + 1])
    BY <1>3, <2>1
  <2>3. queue'[n] = queue[n + 1] /\ queue'[n + 1] = queue[(n + 1) + 1]
    BY <1>2, <1>7
  <2> QED BY <2>2, <2>3 DEF Follows
<1>8. l - 1 # 0 => LastIs(queue[l - 1])'
  <2> SUFFICES ASSUME l - 1 # 0 PROVE LastIs(queue[l - 1])'
    OBVIOUS
  <2>1. l - 1 \in 1 .. l - 1 /\ (l - 1) + 1 = l
    BY <1>1, <1>2
  <2>2. queue'[l - 1] = queue[l]
    BY <1>2, <2>1
  <2> QED BY <1>3, <2>2 DEF LastIs
<1>9. queue' = <<>> <=> l - 1 = 0
  <2>1. \A s \in Seq(Queued) : s = <<>> <=> Len(s) = 0
    OBVIOUS
  <2> QED BY <1>2, <2>1
<1>10. QueueInv'
  BY <1>2, <1>5, <1>6, <1>7, <1>8, <1>9 DEF QueueInv
<1>11. WorldOK'
  BY <1>2 DEF WorldOK
<1>12. CASE queue' = <<>>
  <2>1. LastIs(Head(queue))
    BY <1>1, <1>2, <1>3, <1>9, <1>12
  <2> QED BY <1>10, <1>11, <1>12, <2>1 DEF LastIs, Front
<1>13. CASE queue' # <<>>
  <2>1. 1 \in 1 .. l - 1 /\ 1 + 1 \in 1 .. l
    BY <1>1, <1>2, <1>9, <1>13
  <2>2. Head(queue') = queue[1 + 1] /\ queue[1 + 1].kind \in Kinds /\ queue[1 + 1].at \in Nat
    BY <1>1, <1>2, <1>13, <2>1, QueueIs
  <2>3. Follows(Head(queue), Head(queue'))
    BY <1>1, <1>2, <1>3, <2>1, <2>2
  <2>4. Beat(Head(queue).at) \in Int /\ Beat(queue[1 + 1].at) \in Int
    <3>1. 1 \in 1 .. l /\ Head(queue).at \in Nat
      BY <1>1, <2>1
    <3> QED BY <2>2, <3>1, BeatIs
  <2> QED BY <1>10, <1>11, <1>13, <2>2, <2>3, <2>4, Constants DEF Follows, Front
<1> QED BY <1>12, <1>13

----
\* What writing and finishing make of a writer.
LEMMA OnDiskIs ==
  ASSUME NEW w \in Writer, w.disk <= w.pages, NEW p \in Nat, w.pages <= p
  PROVE  OnDisk(w, p) \in Nat /\ OnDisk(w, p) <= p
<1> DEFINE h == p - w.disk
           q == (h - 1) \div Buffer
<1>1. w.disk \in Nat /\ w.pages \in Nat /\ h \in Nat /\ Buffer \in Nat /\ Buffer >= 1
  BY Constants DEF Writer
<1>2. CASE h = 0
  BY <1>1, <1>2 DEF OnDisk
<1>3. CASE h # 0
  <2>1. h - 1 \in Nat
    BY <1>1, <1>3
  <2>2. q \in Nat /\ Buffer * q \in Nat /\ Buffer * q <= h - 1
    <3> DEFINE t == h - 1
    <3>1. t \in Nat
      BY <2>1
    <3> HIDE DEF t
    <3>2. t \div Buffer \in Nat /\ Buffer * (t \div Buffer) \in Nat /\ Buffer * (t \div Buffer) <= t
      BY <1>1, <3>1
    <3> QED BY <3>2 DEF t
  <2>3. OnDisk(w, p) = w.disk + Buffer * q
    BY <1>3 DEF OnDisk
  <2> HIDE DEF q
  <2> QED BY <1>1, <2>2, <2>3
<1> QED BY <1>2, <1>3

LEMMA NumbersOf == ASSUME NEW w \in Writer PROVE w.granule \in Nat /\ w.pages \in Nat /\ w.disk \in Nat
BY DEF Writer

LEMMA AppendedIs ==
  ASSUME NEW w \in Writer, w.disk <= w.pages, NEW n \in Nat
  PROVE  /\ Appended(w, n) \in Writer
         /\ Appended(w, n).disk <= Appended(w, n).pages
         /\ Appended(w, n).granule = w.granule + n
         /\ Appended(w, n).finished = w.finished /\ Appended(w, n).broken = w.broken
<1> PICK v, g, p, d : /\ v = Appended(w, n) /\ g = w.granule + n /\ p = w.pages + n
                      /\ d = OnDisk(w, w.pages + n)
  OBVIOUS
<1>1. g \in Nat /\ p \in Nat /\ w.pages <= p
  BY NumbersOf
<1>2. d \in Nat /\ d <= p
  BY <1>1, OnDiskIs
<1>3. v = [w EXCEPT !.granule = g, !.pages = p, !.disk = d]
  BY DEF Appended
<1>4. v \in Writer
  BY <1>1, <1>2, <1>3 DEF Writer
<1>5. v.granule = w.granule + n /\ v.pages = p /\ v.disk = d
  BY <1>3 DEF Writer
<1>6. v.finished = w.finished /\ v.broken = w.broken
  BY <1>3, Zenon DEF Writer
<1>7. v.disk <= v.pages
  BY <1>2, <1>5
<1> QED BY <1>4, <1>5, <1>6, <1>7, Zenon

LEMMA WrittenIs ==
  ASSUME NEW w \in Writer, w.disk <= w.pages, NEW n \in Nat, NEW v \in Written(w, n)
  PROVE  /\ v \in Writer /\ v.disk <= v.pages /\ v.finished = w.finished
         /\ ~v.broken => ~w.broken /\ v.granule = w.granule + IF w.finished THEN 0 ELSE n
<1>1. CASE w.finished
  <2>1. v = w /\ w.granule \in Nat
    BY <1>1, NumbersOf DEF Written
  <2>2. v.finished = w.finished /\ (~v.broken => ~w.broken)
    BY <2>1, Zenon
  <2>3. v.granule = w.granule + IF w.finished THEN 0 ELSE n
    BY <1>1, <2>1
  <2>4. v \in Writer /\ v.disk <= v.pages
    BY <2>1
  <2> QED BY <2>2, <2>3, <2>4, Zenon
<1>2. CASE ~w.finished /\ v = Appended(w, n)
  <2>1. /\ v \in Writer /\ v.disk <= v.pages /\ v.granule = w.granule + n
        /\ v.finished = w.finished /\ v.broken = w.broken
    BY <1>2, AppendedIs, Zenon
  <2>2. ~v.broken => ~w.broken
    BY <2>1, Zenon
  <2>3. v.granule = w.granule + IF w.finished THEN 0 ELSE n
    BY <1>2, <2>1
  <2> QED BY <2>1, <2>2, <2>3, Zenon
<1>3. CASE ~w.finished /\ v # Appended(w, n)
  <2>1. PICK k \in 0 .. (IF Faults THEN n ELSE 0) - 1 :
               v = [Appended(w, k) EXCEPT !.granule = @ + 1, !.broken = @ \/ k + 1 < n]
    BY <1>3 DEF Written, CutShort
  <2>2. k \in Nat /\ k + 1 <= n
    BY <2>1
  <2> DEFINE u == Appended(w, k)
  <2>3. /\ u \in Writer /\ u.disk <= u.pages /\ u.finished = w.finished
        /\ u.broken = w.broken /\ u.granule = w.granule + k
    BY <2>2, AppendedIs
  <2> PICK g, b : g = u.granule + 1 /\ b = (u.broken \/ k + 1 < n)
    OBVIOUS
  <2>4. v = [u EXCEPT !.granule = g, !.broken = b]
    BY <2>1, Zenon
  <2> HIDE DEF u
  <2>5. g \in Nat /\ u.granule \in Nat /\ w.granule \in Nat
    BY <2>3, NumbersOf
  <2>6. b \in BOOLEAN
    BY Zenon
  <2>7. v \in Writer
    BY <2>3, <2>4, <2>5, <2>6 DEF Writer
  <2>8. v.disk = u.disk /\ v.pages = u.pages /\ v.granule = g
    BY <2>3, <2>4 DEF Writer
  <2>9. v.finished = u.finished /\ v.broken = b
    BY <2>3, <2>4, Zenon DEF Writer
  <2>10. v.disk <= v.pages
    BY <2>3, <2>8
  <2>11. ~v.broken => ~w.broken /\ ~(k + 1 < n)
    BY <2>3, <2>9, Zenon
  <2>12. ~(k + 1 < n) => v.granule = w.granule + n
    BY <2>2, <2>3, <2>5, <2>8
  <2>13. ~v.broken => ~w.broken /\ v.granule = w.granule + IF w.finished THEN 0 ELSE n
    BY <1>3, <2>11, <2>12, Zenon
  <2> QED BY <2>3, <2>7, <2>9, <2>10, <2>13, Zenon
<1> QED BY <1>1, <1>2, <1>3

LEMMA FinishedIs ==
  ASSUME NEW w \in Writer, w.disk <= w.pages, NEW v \in Finished(w)
  PROVE  /\ v \in Writer /\ v.disk <= v.pages /\ v.granule = w.granule
         /\ v.broken = w.broken /\ (w.finished => v.finished)
<1>1. CASE v = [w EXCEPT !.finished = TRUE]
  <2>1. v \in Writer /\ v.disk = w.disk /\ v.pages = w.pages /\ v.granule = w.granule
    BY <1>1 DEF Writer
  <2>2. v.broken = w.broken /\ v.finished
    BY <1>1, Zenon DEF Writer
  <2> QED BY <2>1, <2>2
<1>2. CASE v = w
  BY <1>2
<1> QED BY <1>1, <1>2 DEF Finished

\* Dropping a writer finishes it, flushes it, and may lose a page.
Dropped(w) == {v \in Writer : v.disk <= v.pages /\ v.granule = w.granule /\ v.broken = w.broken}

LEMMA LostIs ==
  ASSUME NEW w \in Writer, w.disk <= w.pages
  PROVE  [w EXCEPT !.lost = TRUE] \in Dropped(w)
<1> PICK v : v = [w EXCEPT !.lost = TRUE]
  OBVIOUS
<1>1. v \in Writer /\ v.disk = w.disk /\ v.pages = w.pages /\ v.granule = w.granule
  BY DEF Writer
<1>2. v.broken = w.broken
  BY Zenon DEF Writer
<1> QED BY <1>1, <1>2 DEF Dropped

LEMMA RetriedIs ==
  ASSUME NEW w \in Writer, w.disk <= w.pages, NEW v \in Retried(w)
  PROVE  v \in Dropped(w)
<1>1. CASE v = w
  BY <1>1 DEF Dropped
<1>2. CASE v = [w EXCEPT !.finished = TRUE]
  <2>1. v \in Finished(w)
    BY <1>2 DEF Finished
  <2> QED BY <2>1, FinishedIs DEF Dropped
<1>3. CASE v = [w EXCEPT !.lost = TRUE]
  BY <1>3, LostIs
<1> QED BY <1>1, <1>2, <1>3 DEF Retried

LEMMA FlushedIs ==
  ASSUME NEW w \in Writer, w.disk <= w.pages, NEW v \in Flushed(w)
  PROVE  v \in Dropped(w)
<1>1. CASE v = [w EXCEPT !.disk = w.pages]
  <2>1. w.pages \in Nat
    BY NumbersOf
  <2>2. v \in Writer /\ v.disk = v.pages /\ v.granule = w.granule
    BY <1>1, <2>1 DEF Writer
  <2>3. v.broken = w.broken
    BY <1>1, Zenon DEF Writer
  <2> QED BY <2>2, <2>3, NumbersOf DEF Dropped
<1>2. CASE v = [w EXCEPT !.lost = TRUE]
  BY <1>2, LostIs
<1> QED BY <1>1, <1>2 DEF Flushed

LEMMA DropIs ==
  ASSUME Drop, writer \in Writer, writer.disk <= writer.pages
  PROVE  writer' \in Dropped(writer)
<1>1. PICK w \in Retried(writer) : writer' \in Flushed(w)
  BY DEF Drop
<1>2. w \in Dropped(writer)
  BY RetriedIs
<1>3. writer' \in Dropped(w)
  BY <1>1, <1>2, FlushedIs DEF Dropped
<1> QED BY <1>2, <1>3 DEF Dropped

----
BasicInv == TypeOK /\ QueueInv /\ TaskInv /\ OutageInv /\ TimeInv /\ Waiting <= gaps

LEMMA HeadOf ==
  ASSUME WorldOK, QueueInv, queue # <<>>
  PROVE  /\ Head(queue).at \in Nat /\ Head(queue).at <= now /\ now <= Head(queue).at + MaxLag
         /\ Head(queue).kind = "tick" => Beat(Head(queue).at) = Head(queue).at
<1>1. 1 \in DOMAIN queue /\ Head(queue) = queue[1] /\ queue[1].at \in Nat
  BY QueueIs
<1> QED BY <1>1 DEF QueueInv, Timely

\* What the steps do to the world.
Still == UNCHANGED world
Handed(kind) == HeadIs(kind) /\ queue' = Tail(queue) /\ UNCHANGED <<now, driver, gaps>>

LEMMA StillBasic ==
  ASSUME WorldOK, QueueInv, Waiting <= gaps, Still
  PROVE  /\ WorldOK' /\ QueueInv' /\ Waiting' <= gaps' /\ Front' = Front /\ Over' = Over
         /\ UNCHANGED <<now, driver, queue, gaps>>
BY QueueStays DEF Still, world, WorldOK

LEMMA HandedBasic ==
  ASSUME WorldOK, QueueInv, Waiting <= gaps, NEW kind \in Kinds, Handed(kind)
  PROVE  /\ WorldOK' /\ QueueInv' /\ Waiting' <= gaps'
         /\ Over' = Over + IF kind \in {"leave", "down"} THEN 1 ELSE 0
         /\ kind # "down" =>
              /\ Front' = Beat(Head(queue).at)
              /\ IF queue' = <<>> THEN driver.up ELSE Head(queue').kind # "up"
         /\ kind = "down" => IF queue' = <<>> THEN ~driver.up ELSE Head(queue').kind = "up"
<1>1. /\ queue # <<>> /\ Head(queue).kind = kind /\ queue' = Tail(queue)
      /\ UNCHANGED <<now, driver, gaps>> /\ gaps \in Nat
  BY DEF Handed, HeadIs, WorldOK
<1>2. Waiting' = Waiting - IF kind \in {"leave", "down"} THEN 1 ELSE 0
  BY <1>1, PopCount
<1>3. Waiting \in Nat
  BY WaitingIs
<1>4. Waiting' <= gaps' /\ Over' = Over + IF kind \in {"leave", "down"} THEN 1 ELSE 0
  BY <1>1, <1>2, <1>3 DEF Over
<1> QED BY <1>1, <1>4, PopQueue

\* The world goes on: time passes, or something happens to the user or the driver.
Goes == Elapse \/ Speaks \/ Leaves \/ Drops \/ Returns

LEMMA GoesWorld ==
  ASSUME WorldOK, QueueInv, Waiting <= gaps, Goes
  PROVE  /\ WorldOK' /\ QueueInv' /\ Waiting' <= gaps' /\ Over' = Over
         /\ now <= now' /\ Followed
         /\ UNCHANGED <<task, place, start, pausedAt, disconnectedAt, writer, closing, row>>
         /\ driver.up \/ queue # <<>> => Front' = Front
         /\ queue # <<>> => queue' # <<>> /\ Head(queue') = Head(queue)
         /\ queue = <<>> => IF queue' = <<>> THEN driver'.up = driver.up
                            ELSE Head(queue').kind = "up" <=> ~driver.up
<1>0. now \in Nat /\ now \in 1 .. MaxTime /\ gaps \in Nat /\ gaps \in 0 .. MaxGaps /\ Waiting \in Nat
  BY WaitingIs DEF WorldOK
<1>1. CASE Elapse
  <2>1. UNCHANGED <<driver, gaps, task, place, start, pausedAt, disconnectedAt, writer, closing, row>>
        /\ Followed
    BY <1>1 DEF Elapse
  <2> QED BY <1>0, <1>1, <2>1, ElapseQueue DEF Over
<1>2. ASSUME NEW kind \in Kinds \ {"tick"}, Happens(kind), driver' \in [up : BOOLEAN, present : BOOLEAN],
             kind = "up" <=> ~driver.up, kind = "down" <=> ~driver'.up,
             gaps' = gaps + (IF kind \in {"leave", "down"} THEN 1 ELSE 0), gaps' \in 0 .. MaxGaps
      PROVE  /\ WorldOK' /\ QueueInv' /\ Waiting' <= gaps' /\ Over' = Over
             /\ now <= now' /\ Followed
             /\ UNCHANGED <<task, place, start, pausedAt, disconnectedAt, writer, closing, row>>
             /\ Front' = Front
             /\ queue # <<>> => queue' # <<>> /\ Head(queue') = Head(queue)
             /\ queue = <<>> => queue' # <<>> /\ (Head(queue').kind = "up" <=> ~driver.up)
  <2>1. /\ queue' = Emit(kind, now) /\ UNCHANGED now /\ Followed
        /\ UNCHANGED <<task, place, start, pausedAt, disconnectedAt, writer, closing, row>>
    BY <1>2 DEF Happens
  <2>2. /\ QueueInv' /\ Front' = Front
        /\ queue' # <<>> /\ Head(queue').kind = IF queue = <<>> THEN kind ELSE Head(queue).kind
        /\ queue # <<>> => Head(queue') = Head(queue)
    BY <1>2, <2>1, EmitQueue
  <2>3. Waiting' = Waiting + IF kind \in {"leave", "down"} THEN 1 ELSE 0
    BY <1>0, <2>1, EmitCount
  <2>4. Waiting' <= gaps' /\ Over' = Over
    BY <1>0, <1>2, <2>3 DEF Over
  <2>5. queue' \in Seq(Queued)
    BY <1>0, <2>1, Emitted
  <2>6. WorldOK'
    BY <1>2, <2>1, <2>5 DEF WorldOK
  <2> QED BY <1>0, <1>2, <2>1, <2>2, <2>4, <2>6
<1>3. driver \in [up : BOOLEAN, present : BOOLEAN]
  BY DEF WorldOK
<1>4. CASE Speaks
  <2>1. /\ Happens("speak") /\ driver' = [driver EXCEPT !.present = TRUE]
        /\ driver.up /\ gaps' = gaps
    BY <1>4 DEF Speaks
  <2>2. driver' \in [up : BOOLEAN, present : BOOLEAN] /\ driver'.up
    BY <1>3, <2>1
  <2>3. /\ gaps' \in 0 .. MaxGaps /\ "speak" \in Kinds \ {"tick"}
        /\ gaps' = gaps + (IF "speak" \in {"leave", "down"} THEN 1 ELSE 0)
    BY <1>0, <2>1 DEF Kinds
  <2> QED BY <1>2, <2>1, <2>2, <2>3
<1>5. CASE Leaves
  <2>1. /\ Happens("leave") /\ driver' = [driver EXCEPT !.present = FALSE]
        /\ driver.up /\ gaps' = gaps + 1 /\ gaps < MaxGaps
    BY <1>5 DEF Leaves
  <2>2. driver' \in [up : BOOLEAN, present : BOOLEAN] /\ driver'.up
    BY <1>3, <2>1
  <2>3. gaps' \in 0 .. MaxGaps
    BY <1>0, <2>1, Constants
  <2> QED BY <1>0, <1>2, <2>1, <2>2, <2>3 DEF Kinds
<1>6. CASE Drops
  <2>1. /\ Happens("down") /\ driver' = [driver EXCEPT !.up = FALSE]
        /\ driver.up /\ gaps' = gaps + 1 /\ gaps < MaxGaps
    BY <1>6 DEF Drops
  <2>2. driver' \in [up : BOOLEAN, present : BOOLEAN] /\ ~driver'.up
    BY <1>3, <2>1
  <2>3. gaps' \in 0 .. MaxGaps
    BY <1>0, <2>1, Constants
  <2> QED BY <1>0, <1>2, <2>1, <2>2, <2>3 DEF Kinds
<1>7. CASE Returns
  <2>1. /\ Happens("up") /\ driver' = [driver EXCEPT !.up = TRUE]
        /\ ~driver.up /\ gaps' = gaps
    BY <1>7 DEF Returns
  <2>2. driver' \in [up : BOOLEAN, present : BOOLEAN] /\ driver'.up
    BY <1>3, <2>1
  <2>3. /\ gaps' \in 0 .. MaxGaps /\ "up" \in Kinds \ {"tick"}
        /\ gaps' = gaps + (IF "up" \in {"leave", "down"} THEN 1 ELSE 0)
    BY <1>0, <2>1 DEF Kinds
  <2> QED BY <1>2, <2>1, <2>2, <2>3
<1> QED BY <1>1, <1>4, <1>5, <1>6, <1>7 DEF Goes

LEMMA GoesBasic == ASSUME BasicInv, Goes PROVE BasicInv'
<1>0. /\ WorldOK /\ QueueInv /\ Waiting <= gaps /\ task \in Tasks /\ FileOK /\ TimesOK
      /\ TaskInv /\ OutageInv /\ TimeInv
  BY TypeParts DEF BasicInv
<1>1. /\ WorldOK' /\ QueueInv' /\ Waiting' <= gaps' /\ now <= now'
      /\ UNCHANGED <<task, place, start, pausedAt, disconnectedAt, writer, closing, row>>
      /\ queue # <<>> => queue' # <<>> /\ Head(queue') = Head(queue)
      /\ queue = <<>> => IF queue' = <<>> THEN driver'.up = driver.up
                         ELSE Head(queue').kind = "up" <=> ~driver.up
  BY <1>0, GoesWorld
<1>2. task' \in Tasks /\ FileOK' /\ TimesOK'
  BY <1>0, <1>1 DEF FileOK, TimesOK
<1>3. TypeOK'
  BY <1>1, <1>2, PartsNext
<1>4. now \in Nat /\ now' \in Nat
  BY <1>0, <1>1 DEF WorldOK
<1>5. TimeInv'
  BY <1>0, <1>1, <1>4 DEF TimeInv
<1>6. TaskInv'
  <2>1. \A kind \in Kinds : HeadIs(kind) => HeadIs(kind)'
    BY <1>1 DEF HeadIs
  <2>2. task.time \in Nat
    BY <1>0 DEF Tasks
  <2> QED BY <1>0, <1>1, <1>4, <2>1, <2>2 DEF TaskInv, HeadIs, Kept
<1>7. OutageInv'
  BY <1>0, <1>1 DEF OutageInv, HeadIs, Kept
<1> QED BY <1>1, <1>3, <1>5, <1>6, <1>7 DEF BasicInv

LEMMA CreateBasic == ASSUME BasicInv, Create PROVE BasicInv'
<1>0. /\ WorldOK /\ QueueInv /\ Waiting <= gaps /\ task \in Tasks /\ FileOK /\ TimesOK
      /\ TaskInv /\ OutageInv /\ TimeInv
  BY TypeParts DEF BasicInv
<1>1. Still
  BY DEF Create, Still, world, Busy, Timeless
<1>2. /\ WorldOK' /\ QueueInv' /\ Waiting' <= gaps'
      /\ UNCHANGED <<now, driver, queue, gaps>>
  BY <1>0, <1>1, StillBasic
<1>3. now \in 1 .. MaxTime /\ now \in Nat /\ start \in Nat /\ pausedAt \in Nat /\ task.time \in Nat
      /\ MaxTime \in Nat /\ task.time \in 0 .. MaxTime
  BY <1>0, Constants DEF WorldOK, TimesOK, Tasks
<1>10. queue # <<>> /\ Head(queue).kind = "speak" /\ Head(queue).at <= now
  BY <1>0, HeadOf DEF Create, Handles
<1>4. task' \in Tasks
  BY <1>0, <1>3, <1>10 DEF Create, Busy, Idle, Tasks
<1>5. FileOK'
  BY <1>0, <1>3, <1>10 DEF Create, FileOK, Places
<1>6. TimesOK'
  BY <1>0, <1>3, <1>10 DEF Create, TimesOK
<1>7. TaskInv'
  BY <1>0, <1>2, <1>3, <1>10 DEF Create, Busy, Idle, TaskInv, HeadIs, Kept, Handles
<1>8. OutageInv'
  BY <1>0, <1>2, <1>3, <1>10 DEF Create, Busy, Idle, TaskInv, OutageInv, HeadIs, Kept, Handles
<1>9. TimeInv'
  BY <1>0, <1>2, <1>3, <1>10 DEF Create, TimeInv, TaskInv
<1> QED BY <1>2, <1>4, <1>5, <1>6, <1>7, <1>8, <1>9, PartsNext DEF BasicInv

LEMMA CreatedBasic == ASSUME BasicInv, Created PROVE BasicInv'
<1>0. /\ WorldOK /\ QueueInv /\ Waiting <= gaps /\ task \in Tasks /\ FileOK /\ TimesOK
      /\ TaskInv /\ OutageInv /\ TimeInv
  BY TypeParts DEF BasicInv
<1>1. Handed("speak") /\ "speak" \in Kinds
  BY <1>0 DEF Created, Handed, HeadIs, Done, Timeless, TaskInv, Kinds
<1>2. /\ WorldOK' /\ QueueInv' /\ Waiting' <= gaps' /\ UNCHANGED <<now, driver, gaps>>
      /\ HeadIs("speak")
      /\ IF queue' = <<>> THEN driver.up ELSE Head(queue').kind # "up"
  BY <1>0, <1>1, HandedBasic DEF Handed
<1>3. now \in 1 .. MaxTime /\ now \in Nat /\ start \in Nat /\ pausedAt \in Nat /\ task.time \in Nat
      /\ MaxTime \in Nat /\ task.time \in 0 .. MaxTime
  BY <1>0, Constants DEF WorldOK, TimesOK, Tasks
<1>4. task' \in Tasks
  BY <1>0, <1>3 DEF Created, Done, Idle, Tasks
<1>5. FileOK'
  BY <1>0, <1>3 DEF Created, FileOK, Places
<1>6. TimesOK'
  BY <1>0, <1>3 DEF Created, TimesOK
<1>7. TaskInv'
  BY <1>0, <1>2, <1>3 DEF Created, Done, Idle, TaskInv, HeadIs, Kept
<1>8. OutageInv'
  BY <1>0, <1>2, <1>3 DEF Created, Done, Idle, TaskInv, OutageInv, HeadIs, Kept
<1>9. TimeInv'
  BY <1>0, <1>2, <1>3 DEF Created, TimeInv, TaskInv
<1> QED BY <1>2, <1>4, <1>5, <1>6, <1>7, <1>8, <1>9, PartsNext DEF BasicInv

LEMMA SpeakIgnoredBasic == ASSUME BasicInv, SpeakIgnored PROVE BasicInv'
<1>0. /\ WorldOK /\ QueueInv /\ Waiting <= gaps /\ task \in Tasks /\ FileOK /\ TimesOK
      /\ TaskInv /\ OutageInv /\ TimeInv
  BY TypeParts DEF BasicInv
<1>1. Handed("speak") /\ "speak" \in Kinds
  BY <1>0 DEF SpeakIgnored, Handed, HeadIs, Handles, Done, Timeless, TaskInv, Kinds
<1>2. /\ WorldOK' /\ QueueInv' /\ Waiting' <= gaps' /\ UNCHANGED <<now, driver, gaps>>
      /\ HeadIs("speak")
      /\ IF queue' = <<>> THEN driver.up ELSE Head(queue').kind # "up"
  BY <1>0, <1>1, HandedBasic DEF Handed
<1>3. now \in 1 .. MaxTime /\ now \in Nat /\ start \in Nat /\ pausedAt \in Nat /\ task.time \in Nat
      /\ MaxTime \in Nat /\ task.time \in 0 .. MaxTime
  BY <1>0, Constants DEF WorldOK, TimesOK, Tasks
<1>4. task' \in Tasks
  BY <1>0, <1>3 DEF SpeakIgnored, Done, Idle, Tasks
<1>5. FileOK'
  BY <1>0, <1>3 DEF SpeakIgnored, FileOK, Places
<1>6. TimesOK'
  BY <1>0, <1>3 DEF SpeakIgnored, TimesOK
<1>7. TaskInv'
  BY <1>0, <1>2, <1>3 DEF SpeakIgnored, Done, Idle, TaskInv, HeadIs, Kept, Handles
<1>8. OutageInv'
  BY <1>0, <1>2, <1>3 DEF SpeakIgnored, Done, Idle, TaskInv, OutageInv, HeadIs, Kept, Handles
<1>9. TimeInv'
  BY <1>0, <1>2, <1>3 DEF SpeakIgnored, TimeInv, TaskInv
<1> QED BY <1>2, <1>4, <1>5, <1>6, <1>7, <1>8, <1>9, PartsNext DEF BasicInv

LEMMA PauseBasic == ASSUME BasicInv, Pause PROVE BasicInv'
<1>0. /\ WorldOK /\ QueueInv /\ Waiting <= gaps /\ task \in Tasks /\ FileOK /\ TimesOK
      /\ TaskInv /\ OutageInv /\ TimeInv
  BY TypeParts DEF BasicInv
<1>1. Handed("leave") /\ "leave" \in Kinds
  BY <1>0 DEF Pause, Handed, HeadIs, Handles, Done, Timeless, TaskInv, Kinds
<1>2. /\ WorldOK' /\ QueueInv' /\ Waiting' <= gaps' /\ UNCHANGED <<now, driver, gaps>>
      /\ HeadIs("leave")
      /\ IF queue' = <<>> THEN driver.up ELSE Head(queue').kind # "up"
  BY <1>0, <1>1, HandedBasic DEF Handed
<1>3. now \in 1 .. MaxTime /\ now \in Nat /\ start \in Nat /\ pausedAt \in Nat /\ task.time \in Nat
      /\ MaxTime \in Nat /\ task.time \in 0 .. MaxTime
  BY <1>0, Constants DEF WorldOK, TimesOK, Tasks
<1>4. task' \in Tasks
  BY <1>0, <1>3 DEF Pause, Done, Idle, Tasks
<1>5. FileOK'
  BY <1>0, <1>3 DEF Pause, FileOK, Places
<1>6. TimesOK'
  BY <1>0, <1>3 DEF Pause, TimesOK
<1>7. TaskInv'
  BY <1>0, <1>2, <1>3 DEF Pause, Done, Idle, TaskInv, HeadIs, Kept, Handles
<1>8. OutageInv'
  BY <1>0, <1>2, <1>3 DEF Pause, Done, Idle, TaskInv, OutageInv, HeadIs, Kept, Handles
<1>9. TimeInv'
  BY <1>0, <1>2, <1>3 DEF Pause, TimeInv, TaskInv
<1> QED BY <1>2, <1>4, <1>5, <1>6, <1>7, <1>8, <1>9, PartsNext DEF BasicInv

LEMMA DisconnectBasic == ASSUME BasicInv, Disconnect PROVE BasicInv'
<1>0. /\ WorldOK /\ QueueInv /\ Waiting <= gaps /\ task \in Tasks /\ FileOK /\ TimesOK
      /\ TaskInv /\ OutageInv /\ TimeInv
  BY TypeParts DEF BasicInv
<1>1. Handed("down") /\ "down" \in Kinds
  BY <1>0 DEF Disconnect, Handed, HeadIs, Handles, Done, Timeless, TaskInv, Kinds
<1>2. /\ WorldOK' /\ QueueInv' /\ Waiting' <= gaps' /\ UNCHANGED <<now, driver, gaps>>
      /\ HeadIs("down")
      /\ IF queue' = <<>> THEN ~driver.up ELSE Head(queue').kind = "up"
  BY <1>0, <1>1, HandedBasic DEF Handed
<1>3. now \in 1 .. MaxTime /\ now \in Nat /\ start \in Nat /\ pausedAt \in Nat /\ task.time \in Nat
      /\ MaxTime \in Nat /\ task.time \in 0 .. MaxTime
  BY <1>0, Constants DEF WorldOK, TimesOK, Tasks
<1>4. task' \in Tasks
  BY <1>0, <1>3 DEF Disconnect, Done, Idle, Tasks
<1>5. FileOK'
  BY <1>0, <1>3 DEF Disconnect, FileOK, Places
<1>6. TimesOK'
  BY <1>0, <1>3 DEF Disconnect, TimesOK
<1>7. TaskInv'
  BY <1>0, <1>2, <1>3 DEF Disconnect, Done, Idle, TaskInv, HeadIs, Kept, Handles
<1>8. OutageInv'
  BY <1>0, <1>2, <1>3 DEF Disconnect, Done, Idle, TaskInv, OutageInv, HeadIs, Kept, Handles
<1>9. TimeInv'
  BY <1>0, <1>2, <1>3 DEF Disconnect, TimeInv, TaskInv
<1> QED BY <1>2, <1>4, <1>5, <1>6, <1>7, <1>8, <1>9, PartsNext DEF BasicInv

LEMMA HealthClosesBasic == ASSUME BasicInv, HealthCloses PROVE BasicInv'
<1>0. /\ WorldOK /\ QueueInv /\ Waiting <= gaps /\ task \in Tasks /\ FileOK /\ TimesOK
      /\ TaskInv /\ OutageInv /\ TimeInv
  BY TypeParts DEF BasicInv
<1>1. Still
  BY DEF HealthCloses, Still, world
<1>2. /\ WorldOK' /\ QueueInv' /\ Waiting' <= gaps'
      /\ UNCHANGED <<now, driver, queue, gaps>>
  BY <1>0, <1>1, StillBasic
<1>3. now \in 1 .. MaxTime /\ now \in Nat /\ start \in Nat /\ pausedAt \in Nat /\ task.time \in Nat
      /\ MaxTime \in Nat /\ task.time \in 0 .. MaxTime
  BY <1>0, Constants DEF WorldOK, TimesOK, Tasks
<1>4. task' \in Tasks
  BY <1>0, <1>3 DEF HealthCloses, Tasks, TakeAt, Take
<1>5. FileOK'
  BY <1>0, <1>3 DEF HealthCloses, FileOK, Places, TakeAt, Take
<1>6. TimesOK'
  BY <1>0, <1>3 DEF HealthCloses, TimesOK, TakeAt, Take
<1>7. TaskInv'
  BY <1>0, <1>2, <1>3 DEF HealthCloses, TaskInv, HeadIs, Kept, TakeAt, Take
<1>8. OutageInv'
  BY <1>0, <1>2, <1>3 DEF HealthCloses, TaskInv, OutageInv, HeadIs, Kept, TakeAt, Take
<1>9. TimeInv'
  BY <1>0, <1>2, <1>3 DEF HealthCloses, TimeInv, TaskInv, OutageInv, Kept, HeadIs, TakeAt, Take
<1> QED BY <1>2, <1>4, <1>5, <1>6, <1>7, <1>8, <1>9, PartsNext DEF BasicInv

LEMMA RejoinTimeoutBasic == ASSUME BasicInv, RejoinTimeout PROVE BasicInv'
<1>0. /\ WorldOK /\ QueueInv /\ Waiting <= gaps /\ task \in Tasks /\ FileOK /\ TimesOK
      /\ TaskInv /\ OutageInv /\ TimeInv
  BY TypeParts DEF BasicInv
<1>1. Still
  BY DEF RejoinTimeout, Still, world
<1>2. /\ WorldOK' /\ QueueInv' /\ Waiting' <= gaps'
      /\ UNCHANGED <<now, driver, queue, gaps>>
  BY <1>0, <1>1, StillBasic
<1>3. now \in 1 .. MaxTime /\ now \in Nat /\ start \in Nat /\ pausedAt \in Nat /\ task.time \in Nat
      /\ MaxTime \in Nat /\ task.time \in 0 .. MaxTime
  BY <1>0, Constants DEF WorldOK, TimesOK, Tasks
<1>4. task' \in Tasks
  BY <1>0, <1>3 DEF RejoinTimeout, Tasks, TakeAt, Take
<1>5. FileOK'
  BY <1>0, <1>3 DEF RejoinTimeout, FileOK, Places, TakeAt, Take
<1>6. TimesOK'
  BY <1>0, <1>3 DEF RejoinTimeout, TimesOK, TakeAt, Take, PausedClose
<1>7. TaskInv'
  BY <1>0, <1>2, <1>3 DEF RejoinTimeout, TaskInv, HeadIs, Kept, TakeAt, Take
<1>8. OutageInv'
  BY <1>0, <1>2, <1>3 DEF RejoinTimeout, TaskInv, OutageInv, HeadIs, Kept, TakeAt, Take
<1>9. TimeInv'
  BY <1>0, <1>2, <1>3
       DEF RejoinTimeout, TimeInv, TaskInv, OutageInv, Kept, HeadIs, TakeAt, Take, PausedClose
<1> QED BY <1>2, <1>4, <1>5, <1>6, <1>7, <1>8, <1>9, PartsNext DEF BasicInv

LEMMA OutageTimeoutBasic == ASSUME BasicInv, OutageTimeout PROVE BasicInv'
<1>0. /\ WorldOK /\ QueueInv /\ Waiting <= gaps /\ task \in Tasks /\ FileOK /\ TimesOK
      /\ TaskInv /\ OutageInv /\ TimeInv
  BY TypeParts DEF BasicInv
<1>1. Still
  BY DEF OutageTimeout, Still, world
<1>2. /\ WorldOK' /\ QueueInv' /\ Waiting' <= gaps'
      /\ UNCHANGED <<now, driver, queue, gaps>>
  BY <1>0, <1>1, StillBasic
<1>3. now \in 1 .. MaxTime /\ now \in Nat /\ start \in Nat /\ pausedAt \in Nat /\ task.time \in Nat
      /\ MaxTime \in Nat /\ task.time \in 0 .. MaxTime
  BY <1>0, Constants DEF WorldOK, TimesOK, Tasks
<1>4. task' \in Tasks
  BY <1>0, <1>3 DEF OutageTimeout, Tasks, TakeAt, Take
<1>5. FileOK'
  BY <1>0, <1>3 DEF OutageTimeout, FileOK, Places, TakeAt, Take
<1>6. TimesOK'
  BY <1>0, <1>3 DEF OutageTimeout, TimesOK, TakeAt, Take, PausedClose
<1>7. TaskInv'
  BY <1>0, <1>2, <1>3 DEF OutageTimeout, TaskInv, HeadIs, Kept, TakeAt, Take
<1>8. OutageInv'
  BY <1>0, <1>2, <1>3 DEF OutageTimeout, TaskInv, OutageInv, HeadIs, Kept, TakeAt, Take
<1>9. TimeInv'
  BY <1>0, <1>2, <1>3
       DEF OutageTimeout, TimeInv, TaskInv, OutageInv, Kept, HeadIs, TakeAt, Take, PausedClose
<1> QED BY <1>2, <1>4, <1>5, <1>6, <1>7, <1>8, <1>9, PartsNext DEF BasicInv

LEMMA FinalDisconnectBasic == ASSUME BasicInv, FinalDisconnect PROVE BasicInv'
<1>0. /\ WorldOK /\ QueueInv /\ Waiting <= gaps /\ task \in Tasks /\ FileOK /\ TimesOK
      /\ TaskInv /\ OutageInv /\ TimeInv
  BY TypeParts DEF BasicInv
<1>1. Handed("down") /\ "down" \in Kinds
  BY <1>0 DEF FinalDisconnect, Handed, HeadIs, Handles, Done, Timeless, TaskInv, Kinds
<1>2. /\ WorldOK' /\ QueueInv' /\ Waiting' <= gaps' /\ UNCHANGED <<now, driver, gaps>>
      /\ HeadIs("down")
      /\ IF queue' = <<>> THEN ~driver.up ELSE Head(queue').kind = "up"
  BY <1>0, <1>1, HandedBasic DEF Handed
<1>3. now \in 1 .. MaxTime /\ now \in Nat /\ start \in Nat /\ pausedAt \in Nat /\ task.time \in Nat
      /\ MaxTime \in Nat /\ task.time \in 0 .. MaxTime
  BY <1>0, Constants DEF WorldOK, TimesOK, Tasks
<1>4. task' \in Tasks
  BY <1>0, <1>3 DEF FinalDisconnect, Done, Idle, Tasks, TakeAt, Take
<1>5. FileOK'
  BY <1>0, <1>3 DEF FinalDisconnect, FileOK, Places, TakeAt, Take
<1>6. TimesOK'
  BY <1>0, <1>3 DEF FinalDisconnect, TimesOK, TakeAt, Take, PausedClose
<1>7. TaskInv'
  BY <1>0, <1>2, <1>3 DEF FinalDisconnect, Done, Idle, TaskInv, HeadIs, Kept, Handles, TakeAt, Take
<1>8. OutageInv'
  BY <1>0, <1>2, <1>3
       DEF FinalDisconnect, Done, Idle, TaskInv, OutageInv, HeadIs, Kept, Handles, TakeAt, Take
<1>9. TimeInv'
  BY <1>0, <1>2, <1>3
       DEF FinalDisconnect, TimeInv, TaskInv, OutageInv, Kept, HeadIs, TakeAt, Take, PausedClose
<1> QED BY <1>2, <1>4, <1>5, <1>6, <1>7, <1>8, <1>9, PartsNext DEF BasicInv

LEMMA CheckedBasic == ASSUME BasicInv, Checked PROVE BasicInv'
<1>0. /\ WorldOK /\ QueueInv /\ Waiting <= gaps /\ task \in Tasks /\ FileOK /\ TimesOK
      /\ TaskInv /\ OutageInv /\ TimeInv
  BY TypeParts DEF BasicInv
<1>1. Handed("up") /\ "up" \in Kinds
  BY <1>0 DEF Checked, Handed, HeadIs, Done, Timeless, TaskInv, Kinds
<1>2. /\ WorldOK' /\ QueueInv' /\ Waiting' <= gaps' /\ UNCHANGED <<now, driver, gaps>>
      /\ HeadIs("up")
      /\ IF queue' = <<>> THEN driver.up ELSE Head(queue').kind # "up"
  BY <1>0, <1>1, HandedBasic DEF Handed
<1>3. now \in 1 .. MaxTime /\ now \in Nat /\ start \in Nat /\ pausedAt \in Nat /\ task.time \in Nat
      /\ MaxTime \in Nat /\ task.time \in 0 .. MaxTime
  BY <1>0, Constants DEF WorldOK, TimesOK, Tasks
<1>4. task' \in Tasks
  BY <1>0, <1>3 DEF Checked, Done, Idle, Tasks, TakeAt, Take
<1>5. FileOK'
  BY <1>0, <1>3 DEF Checked, FileOK, Places, TakeAt, Take
<1>6. TimesOK'
  BY <1>0, <1>3 DEF Checked, TimesOK, TakeAt, Take
<1>7. TaskInv'
  BY <1>0, <1>2, <1>3 DEF Checked, Done, Idle, TaskInv, HeadIs, Kept, TakeAt, Take
<1>8. OutageInv'
  BY <1>0, <1>2, <1>3 DEF Checked, Done, Idle, TaskInv, OutageInv, HeadIs, Kept, TakeAt, Take
<1>9. TimeInv'
  BY <1>0, <1>2, <1>3 DEF Checked, TimeInv, TaskInv, OutageInv, Kept, HeadIs, TakeAt, Take
<1> QED BY <1>2, <1>4, <1>5, <1>6, <1>7, <1>8, <1>9, PartsNext DEF BasicInv

LEMMA ResumeBasic == ASSUME BasicInv, Resume PROVE BasicInv'
<1>0. /\ WorldOK /\ QueueInv /\ Waiting <= gaps /\ task \in Tasks /\ FileOK /\ TimesOK
      /\ TaskInv /\ OutageInv /\ TimeInv
  BY TypeParts DEF BasicInv
<1>1. Handed("speak") /\ "speak" \in Kinds
  BY <1>0 DEF Resume, Handed, HeadIs, Handles, Done, Timeless, TaskInv, Kinds
<1>2. /\ WorldOK' /\ QueueInv' /\ Waiting' <= gaps' /\ UNCHANGED <<now, driver, gaps>>
      /\ HeadIs("speak")
      /\ IF queue' = <<>> THEN driver.up ELSE Head(queue').kind # "up"
  BY <1>0, <1>1, HandedBasic DEF Handed
<1>3. now \in 1 .. MaxTime /\ now \in Nat /\ start \in Nat /\ pausedAt \in Nat /\ task.time \in Nat
      /\ MaxTime \in Nat /\ task.time \in 0 .. MaxTime
  BY <1>0, Constants DEF WorldOK, TimesOK, Tasks
<1>10. writer \in Writer /\ writer.disk <= writer.pages
  BY <1>0 DEF FileOK, TimeInv
<1>11. writer' \in Writer /\ writer'.disk <= writer'.pages /\ writer'.finished = writer.finished
  <2>1. SilenceFrames(now - pausedAt) \in Nat
    <3>1. now - pausedAt \in Nat
      BY <1>0, <1>3 DEF TimeInv
    <3> QED BY <3>1, SilenceIs
  <2> QED BY <1>10, <2>1, WrittenIs DEF Resume
<1>4. task' \in Tasks
  BY <1>3 DEF Resume, Done, Idle, Tasks
<1>5. FileOK'
  BY <1>0, <1>11 DEF Resume, FileOK, Places
<1>6. TimesOK'
  BY <1>0, <1>3 DEF Resume, TimesOK
<1>7. TaskInv'
  BY <1>0, <1>2, <1>3, <1>11 DEF Resume, Done, Idle, TaskInv, HeadIs, Kept, Handles
<1>8. OutageInv'
  BY <1>0, <1>2, <1>3, <1>11 DEF Resume, Done, Idle, TaskInv, OutageInv, HeadIs, Kept, Handles
<1>9. TimeInv'
  BY <1>0, <1>2, <1>3, <1>11 DEF Resume, TimeInv, TaskInv, OutageInv, HeadIs, Kept
<1> QED BY <1>2, <1>4, <1>5, <1>6, <1>7, <1>8, <1>9, PartsNext DEF BasicInv

LEMMA WriteTickBasic == ASSUME BasicInv, WriteTick PROVE BasicInv'
<1>0. /\ WorldOK /\ QueueInv /\ Waiting <= gaps /\ task \in Tasks /\ FileOK /\ TimesOK
      /\ TaskInv /\ OutageInv /\ TimeInv
  BY TypeParts DEF BasicInv
<1>1. Handed("tick") /\ "tick" \in Kinds
  BY <1>0 DEF WriteTick, Handed, HeadIs, Done, Timeless, TaskInv, Kinds
<1>2. /\ WorldOK' /\ QueueInv' /\ Waiting' <= gaps' /\ UNCHANGED <<now, driver, gaps>>
      /\ HeadIs("tick")
      /\ IF queue' = <<>> THEN driver.up ELSE Head(queue').kind # "up"
  BY <1>0, <1>1, HandedBasic DEF Handed
<1>3. now \in 1 .. MaxTime /\ now \in Nat /\ start \in Nat /\ pausedAt \in Nat /\ task.time \in Nat
      /\ MaxTime \in Nat /\ task.time \in 0 .. MaxTime
  BY <1>0, Constants DEF WorldOK, TimesOK, Tasks
<1>10. writer \in Writer /\ writer.disk <= writer.pages
  BY <1>0 DEF FileOK, TimeInv
<1>11. writer' \in Writer /\ writer'.disk <= writer'.pages /\ writer'.finished = writer.finished
  BY <1>10, WrittenIs DEF WriteTick
<1>4. task' \in Tasks
  BY <1>3 DEF WriteTick, Done, Idle, Tasks
<1>5. FileOK'
  BY <1>0, <1>11 DEF WriteTick, FileOK, Places
<1>6. TimesOK'
  BY <1>0, <1>3 DEF WriteTick, TimesOK
<1>7. TaskInv'
  BY <1>0, <1>2, <1>3, <1>11 DEF WriteTick, Done, Idle, TaskInv, HeadIs, Kept
<1>8. OutageInv'
  BY <1>0, <1>2, <1>3, <1>11 DEF WriteTick, Done, Idle, TaskInv, OutageInv, HeadIs, Kept
<1>9. TimeInv'
  BY <1>0, <1>2, <1>3, <1>11 DEF WriteTick, TimeInv, TaskInv, OutageInv, HeadIs, Kept
<1> QED BY <1>2, <1>4, <1>5, <1>6, <1>7, <1>8, <1>9, PartsNext DEF BasicInv

LEMMA TickBasic == ASSUME BasicInv, Tick PROVE BasicInv'
<1>0. /\ WorldOK /\ QueueInv /\ Waiting <= gaps /\ task \in Tasks /\ FileOK /\ TimesOK
      /\ TaskInv /\ OutageInv /\ TimeInv
  BY TypeParts DEF BasicInv
<1>1. HeadIs("tick") /\ "tick" \in Kinds /\ 0 \in 0 .. MaxTime /\ now \in Nat
  BY <1>0, Constants DEF Tick, Handles, HeadIs, Kinds, WorldOK
<1>2. UNCHANGED <<now, driver, gaps, place, start, pausedAt, disconnectedAt, writer, closing, row>>
  BY DEF Tick, Timeless
<1>3. FileOK' /\ TimesOK' /\ TimeInv'
  BY <1>0, <1>2 DEF FileOK, TimesOK, TimeInv
<1>4. CASE place = "active"
  <2>1. task' = [Idle EXCEPT !.at = "writing"] /\ Still
    BY <1>2, <1>4 DEF Tick, Busy, Still, world
  <2>2. WorldOK' /\ QueueInv' /\ Waiting' <= gaps' /\ queue' = queue
    BY <1>0, <2>1, StillBasic
  <2>3. task' \in Tasks
    BY <1>1, <2>1 DEF Idle, Tasks
  <2>4. TaskInv'
    BY <1>1, <1>2, <1>4, <2>1, <2>2 DEF Idle, TaskInv, HeadIs, Kept
  <2>5. OutageInv'
    BY <1>0, <1>1, <1>2, <1>4, <2>2 DEF OutageInv, HeadIs, Kept
  <2> QED BY <1>3, <2>2, <2>3, <2>4, <2>5, PartsNext DEF BasicInv
<1>5. CASE place # "active"
  <2>1. task' = Idle /\ Handed("tick")
    BY <1>1, <1>2, <1>5 DEF Tick, Done, Handed
  <2>2. /\ WorldOK' /\ QueueInv' /\ Waiting' <= gaps'
        /\ IF queue' = <<>> THEN driver.up ELSE Head(queue').kind # "up"
    BY <1>0, <1>1, <2>1, HandedBasic
  <2>3. task' \in Tasks
    BY <1>1, <2>1 DEF Idle, Tasks
  <2>4. TaskInv'
    BY <2>1 DEF Idle, TaskInv
  <2>5. OutageInv'
    BY <1>0, <1>1, <1>2, <2>2 DEF OutageInv, HeadIs, Kept
  <2> QED BY <1>3, <2>2, <2>3, <2>4, <2>5, PartsNext DEF BasicInv
<1> QED BY <1>4, <1>5

LEMMA ReconnectBasic == ASSUME BasicInv, Reconnect PROVE BasicInv'
<1>0. /\ WorldOK /\ QueueInv /\ Waiting <= gaps /\ task \in Tasks /\ FileOK /\ TimesOK
      /\ TaskInv /\ OutageInv /\ TimeInv
  BY TypeParts DEF BasicInv
<1>1. /\ HeadIs("up") /\ "up" \in Kinds /\ 0 \in 0 .. MaxTime /\ now \in Nat /\ now \in 0 .. MaxTime
      /\ task.at = "idle"
  BY <1>0, Constants DEF Reconnect, Handles, HeadIs, Kinds, WorldOK, Idle
<1>2. UNCHANGED <<now, driver, gaps, place, start, pausedAt, writer, closing, row>> /\ disconnectedAt' = 0
  BY DEF Reconnect, Timeless
<1>3. FileOK' /\ TimesOK' /\ TimeInv'
  BY <1>0, <1>1, <1>2 DEF FileOK, TimesOK, TimeInv
<1>4. CASE disconnectedAt = 0
  <2>1. task' = Idle /\ Handed("up")
    BY <1>1, <1>2, <1>4 DEF Reconnect, Done, Handed
  <2>2. /\ WorldOK' /\ QueueInv' /\ Waiting' <= gaps'
        /\ IF queue' = <<>> THEN driver.up ELSE Head(queue').kind # "up"
    BY <1>0, <1>1, <2>1, HandedBasic
  <2>3. task' \in Tasks
    BY <1>1, <2>1 DEF Idle, Tasks
  <2>4. TaskInv'
    BY <2>1 DEF Idle, TaskInv
  <2>5. OutageInv'
    BY <1>0, <1>1, <1>2, <2>2 DEF OutageInv, HeadIs, Kept
  <2> QED BY <1>3, <2>2, <2>3, <2>4, <2>5, PartsNext DEF BasicInv
<1>5. CASE disconnectedAt # 0
  <2>1. /\ Still
        /\ task' = [at |-> "padding", frames |-> SilenceFrames(now - disconnectedAt), time |-> now]
    BY <1>2, <1>5 DEF Reconnect, Busy, Still, world
  <2>2. WorldOK' /\ QueueInv' /\ Waiting' <= gaps' /\ queue' = queue
    BY <1>0, <2>1, StillBasic
  <2>3. SilenceFrames(now - disconnectedAt) \in Nat
    <3>1. now - disconnectedAt \in Nat
      BY <1>0, <1>1 DEF TimeInv
    <3> QED BY <3>1, SilenceIs
  <2>4. task' \in Tasks
    BY <1>1, <2>1, <2>3 DEF Tasks
  <2>5. TaskInv'
    <3>1. Head(queue).at <= now /\ start \in Nat /\ start <= now
      BY <1>0, <1>1, HeadOf DEF HeadIs, TimeInv
    <3> QED BY <1>0, <1>1, <1>2, <2>1, <2>2, <3>1 DEF TaskInv, HeadIs, Kept
  <2>6. OutageInv'
    BY <1>0, <1>1, <1>2, <2>1, <2>2 DEF OutageInv, HeadIs, Kept
  <2> QED BY <1>3, <2>2, <2>4, <2>5, <2>6, PartsNext DEF BasicInv
<1> QED BY <1>4, <1>5

LEMMA PadBasic == ASSUME BasicInv, Pad PROVE BasicInv'
<1>0. /\ WorldOK /\ QueueInv /\ Waiting <= gaps /\ task \in Tasks /\ FileOK /\ TimesOK
      /\ TaskInv /\ OutageInv /\ TimeInv
  BY TypeParts DEF BasicInv
<1>1. Still /\ UNCHANGED <<place, start, pausedAt, disconnectedAt, closing, row>>
  BY DEF Pad, Still, world, Timeless
<1>2. /\ WorldOK' /\ QueueInv' /\ Waiting' <= gaps' /\ UNCHANGED <<now, driver, queue, gaps>>
  BY <1>0, <1>1, StillBasic
<1>3. task.at = "padding" /\ task'.at = "checking" /\ task'.time = task.time /\ task' \in Tasks
  BY <1>0 DEF Pad, Tasks
<1>4. writer' \in Writer /\ writer'.disk <= writer'.pages /\ writer'.finished = writer.finished
  <2>1. writer \in Writer /\ writer.disk <= writer.pages /\ task.frames \in Nat
    BY <1>0 DEF FileOK, TimeInv, Tasks
  <2>2. CASE Pads
    BY <2>1, <2>2, WrittenIs DEF Pad
  <2>3. CASE ~Pads
    BY <2>1, <2>3 DEF Pad
  <2> QED BY <2>2, <2>3
<1>5. FileOK' /\ TimesOK'
  BY <1>0, <1>1, <1>4 DEF FileOK, TimesOK
<1>6. TaskInv'
  BY <1>0, <1>1, <1>2, <1>3 DEF TaskInv, HeadIs, Kept
<1>7. OutageInv'
  BY <1>0, <1>1, <1>2, <1>3 DEF Pad, Pads, OutageInv, HeadIs, Kept
<1>8. TimeInv'
  BY <1>0, <1>1, <1>2, <1>4 DEF TimeInv
<1> QED BY <1>2, <1>3, <1>5, <1>6, <1>7, <1>8, PartsNext DEF BasicInv

LEMMA FinishBasic == ASSUME BasicInv, Finish PROVE BasicInv'
<1>0. /\ WorldOK /\ QueueInv /\ Waiting <= gaps /\ task \in Tasks /\ FileOK /\ TimesOK
      /\ TaskInv /\ OutageInv /\ TimeInv
  BY TypeParts DEF BasicInv
<1>1. Still /\ UNCHANGED <<task, pausedAt, disconnectedAt>>
  BY DEF Finish, Still, world
<1>2. WorldOK' /\ QueueInv' /\ Waiting' <= gaps' /\ UNCHANGED <<now, driver, queue, gaps>>
  BY <1>0, <1>1, StillBasic
<1>3. now \in Nat /\ start \in Nat /\ closing \in Nat /\ 0 \in 0 .. MaxTime
  BY <1>0, Constants DEF WorldOK, TimesOK
<1>4. TaskInv' /\ OutageInv'
  BY <1>0, <1>1, <1>2 DEF Finish, TaskInv, OutageInv, HeadIs, Kept
<1>5. FileOK' /\ TimesOK'
  <2>1. writer' \in Writer
    BY <1>0, FinishedIs DEF Finish, FileOK, TimeInv
  <2> QED BY <1>0, <2>1 DEF Finish, FileOK, TimesOK, Places
<1>6. TimeInv'
  <2>1. writer'.disk <= writer'.pages
    BY <1>0, FinishedIs DEF Finish, FileOK, TimeInv
  <2> QED BY <1>0, <1>2, <2>1 DEF Finish, TimeInv
<1> QED BY <1>0, <1>1, <1>2, <1>4, <1>5, <1>6, PartsNext DEF BasicInv

LEMMA CloseRowBasic == ASSUME BasicInv, CloseRow PROVE BasicInv'
<1>0. /\ WorldOK /\ QueueInv /\ Waiting <= gaps /\ task \in Tasks /\ FileOK /\ TimesOK
      /\ TaskInv /\ OutageInv /\ TimeInv
  BY TypeParts DEF BasicInv
<1>1. Still /\ UNCHANGED <<task, pausedAt, disconnectedAt>>
  BY DEF CloseRow, Still, world
<1>2. WorldOK' /\ QueueInv' /\ Waiting' <= gaps' /\ UNCHANGED <<now, driver, queue, gaps>>
  BY <1>0, <1>1, StillBasic
<1>3. now \in Nat /\ start \in Nat /\ closing \in Nat /\ 0 \in 0 .. MaxTime
  BY <1>0, Constants DEF WorldOK, TimesOK
<1>4. TaskInv' /\ OutageInv'
  BY <1>0, <1>1, <1>2 DEF CloseRow, TaskInv, OutageInv, HeadIs, Kept
<1>5. FileOK' /\ TimesOK'
  <2>1. closing - start \in Nat
    BY <1>0, <1>3 DEF CloseRow, TimeInv
  <2> QED BY <1>0, <1>3, <2>1 DEF CloseRow, FileOK, TimesOK, Places
<1>6. TimeInv'
  BY <1>0, <1>2, <1>3 DEF CloseRow, TimeInv
<1> QED BY <1>0, <1>1, <1>2, <1>4, <1>5, <1>6, PartsNext DEF BasicInv

LEMMA DropBasic == ASSUME BasicInv, Drop PROVE BasicInv'
<1>0. /\ WorldOK /\ QueueInv /\ Waiting <= gaps /\ task \in Tasks /\ FileOK /\ TimesOK
      /\ TaskInv /\ OutageInv /\ TimeInv
  BY TypeParts DEF BasicInv
<1>1. Still /\ UNCHANGED <<task, pausedAt, disconnectedAt>>
  BY DEF Drop, Still, world
<1>2. WorldOK' /\ QueueInv' /\ Waiting' <= gaps' /\ UNCHANGED <<now, driver, queue, gaps>>
  BY <1>0, <1>1, StillBasic
<1>3. now \in Nat /\ start \in Nat /\ closing \in Nat /\ 0 \in 0 .. MaxTime
  BY <1>0, Constants DEF WorldOK, TimesOK
<1>4. TaskInv' /\ OutageInv'
  BY <1>0, <1>1, <1>2 DEF Drop, TaskInv, OutageInv, HeadIs, Kept
<1>5. FileOK' /\ TimesOK' /\ writer'.disk <= writer'.pages
  <2>1. writer \in Writer /\ writer.disk <= writer.pages
    BY <1>0 DEF FileOK, TimeInv
  <2>2. writer' \in Writer /\ writer'.disk <= writer'.pages
    BY <2>1, DropIs DEF Dropped
  <2> QED BY <1>0, <2>2 DEF Drop, FileOK, TimesOK, Places
<1>6. TimeInv'
  BY <1>0, <1>2, <1>5 DEF Drop, TimeInv
<1> QED BY <1>0, <1>1, <1>2, <1>4, <1>5, <1>6, PartsNext DEF BasicInv

LEMMA InitBasic == ASSUME Init PROVE BasicInv
<1>1. /\ now \in 1 .. MaxTime /\ now \in Nat /\ 0 \in 0 .. MaxTime /\ 0 \in 0 .. MaxGaps
      /\ driver = [up |-> TRUE, present |-> TRUE] /\ gaps = 0
  BY Constants DEF Init
<1> DEFINE e == [kind |-> "speak", at |-> now]
<1>2. queue = <<e>> /\ e \in Queued
  BY <1>1 DEF Init, Queued, Kinds
<1>3. e.kind = "speak" /\ e.at = now
  OBVIOUS
<1> HIDE DEF e
<1>4. /\ queue \in Seq(Queued) /\ DOMAIN queue = 1 .. 1 /\ Len(queue) = 1 /\ queue[1] = e
      /\ queue # <<>> /\ Head(queue) = e
  BY <1>2
<1>5. QueueInv
  <2>1. Timely(e) /\ LastIs(e)
    BY <1>1, <1>3, Constants DEF Timely, LastIs
  <2>2. \A n \in DOMAIN queue : n = 1 /\ n + 1 \notin DOMAIN queue
    BY <1>4
  <2> QED BY <1>1, <1>3, <1>4, <2>1, <2>2 DEF QueueInv
<1>6. Waiting <= gaps
  <2>1. {n \in DOMAIN queue : queue[n].kind \in {"leave", "down"}} = {}
    BY <1>3, <1>4
  <2> QED BY <1>1, <2>1, FS_EmptySet DEF Waiting
<1>7. WorldOK /\ task \in Tasks /\ FileOK /\ TimesOK
  BY <1>1, <1>4 DEF Init, WorldOK, Tasks, Idle, FileOK, Places, Writer, Fresh, TimesOK
<1>8. TaskInv /\ OutageInv /\ TimeInv
  BY <1>1, <1>3, <1>4 DEF Init, TaskInv, Idle, OutageInv, TimeInv, HeadIs, Kept, Fresh
<1> QED BY <1>5, <1>6, <1>7, <1>8, TypeParts DEF BasicInv

----
\* The numbers the time line is made of.
LEMMA Numbers ==
  ASSUME BasicInv
  PROVE  /\ Frame \in Nat /\ Frame >= 1 /\ MaxLag \in Nat
         /\ now \in Nat /\ now >= 1 /\ start \in Nat /\ start <= now
         /\ pausedAt \in Nat /\ pausedAt <= now /\ disconnectedAt \in Nat /\ disconnectedAt <= now
         /\ closing \in Nat /\ task.time \in Nat /\ row.length \in Nat
         /\ File \in Nat /\ task.frames \in Nat /\ task.frames * Frame \in Nat
         /\ gaps \in Nat /\ Over \in Int /\ 0 <= Over /\ Over <= gaps
<1>1. WorldOK /\ task \in Tasks /\ FileOK /\ TimesOK /\ TimeInv /\ Waiting <= gaps
  BY TypeParts DEF BasicInv
<1>2. Frame \in Nat /\ Frame >= 1 /\ MaxLag \in Nat
  BY Constants
<1>3. now \in Nat /\ now >= 1 /\ gaps \in Nat /\ Waiting \in Nat
  BY <1>1, WaitingIs DEF WorldOK
<1>4. writer.granule \in Nat /\ task.frames \in Nat /\ task.time \in Nat /\ row.length \in Nat
  BY <1>1 DEF FileOK, Writer, Tasks
<1>5. File \in Nat /\ task.frames * Frame \in Nat
  BY <1>2, <1>4 DEF File
<1>6. Over \in Int /\ 0 <= Over /\ Over <= gaps
  BY <1>1, <1>3 DEF Over
<1>7. /\ start \in Nat /\ start <= now /\ pausedAt \in Nat /\ pausedAt <= now
      /\ disconnectedAt \in Nat /\ disconnectedAt <= now /\ closing \in Nat
  BY <1>1, <1>3 DEF TimeInv
<1> QED BY <1>2, <1>3, <1>4, <1>5, <1>6, <1>7

\* How far the gaps handled so far may take the file.
LEMMA OverIs ==
  ASSUME BasicInv
  PROVE  /\ Low(Over) \in Int /\ High(Over) \in Int /\ High(Over - 1) \in Int
         /\ Low(Over + 1) = Low(Over) + (Frame + MaxLag - 1)
         /\ High(Over) = High(Over - 1) + (2 * Frame + MaxLag - 2)
         /\ 0 <= Low(Over) /\ Frame + MaxLag - 1 <= High(Over)
         /\ Ahead \in Int /\ Behind \in Int
         /\ Low(Over) + Frame + MaxLag <= Behind /\ High(Over) <= Ahead
<1>1. Over \in Int /\ 0 <= Over /\ Over <= gaps /\ gaps \in Int /\ Frame \in Nat /\ MaxLag \in Nat
  BY Numbers
<1>2. /\ Low(Over) \in Int /\ High(Over) \in Int
      /\ Low(Over + 1) = Low(Over) + (Frame + MaxLag - 1)
      /\ High(Over) = High(Over - 1) + (2 * Frame + MaxLag - 2)
  BY <1>1, Gaps
<1>3. High(Over - 1) \in Int /\ Low(gaps) \in Int /\ High(gaps) \in Int
  <2>1. Over - 1 \in Int
    BY <1>1
  <2> QED BY <1>1, <2>1, Gaps
<1>4. Low(0) <= Low(Over) /\ High(0) <= High(Over)
  BY <1>1, GapsMonotone
<1>5. Low(Over) <= Low(gaps) /\ High(Over) <= High(gaps)
  BY <1>1, GapsMonotone
<1>6. Low(0) = 0 /\ High(0) = Frame + MaxLag - 1
  <2> DEFINE a == Frame + MaxLag - 1
             b == 2 * Frame + MaxLag - 2
  <2>1. a \in Int /\ b \in Int
    BY <1>1
  <2>2. Low(0) = 0 * a /\ High(0) = a + 0 * b
    BY DEF Low, High
  <2> HIDE DEF a, b
  <2>3. 0 * a = 0 /\ a + 0 * b = a
    BY <2>1
  <2> QED BY <2>2, <2>3 DEF a
<1>7. Ahead = High(gaps) /\ Behind = Frame + MaxLag + Low(gaps)
  BY DEF Ahead, Behind, High, Low
<1> QED BY <1>1, <1>2, <1>3, <1>4, <1>5, <1>6, <1>7

\* The clock is not far beyond what has been handled.
LEMMA FrontIs ==
  ASSUME BasicInv
  PROVE  /\ Front \in Int /\ Front <= now /\ now <= Front + Frame + MaxLag
         /\ queue # <<>> =>
              /\ Head(queue).at \in Nat /\ Head(queue).at <= now
              /\ IF Head(queue).kind = "tick"
                 THEN Front + Frame = Beat(Head(queue).at) /\ Front + Frame <= now
                 ELSE /\ Front = Beat(Head(queue).at) /\ Front <= Head(queue).at
                      /\ now <= Front + Frame + MaxLag - 1
<1>1. WorldOK /\ QueueInv /\ now \in Nat /\ Frame \in Nat /\ Frame >= 1 /\ MaxLag \in Nat
  BY TypeParts, Numbers DEF BasicInv
<1>2. CASE queue = <<>>
  <2>1. Front = Beat(now)
    BY <1>2 DEF Front
  <2> QED BY <1>1, <1>2, <2>1, BeatIs
<1>3. CASE queue # <<>>
  <2> PICK at : at = Head(queue).at
    OBVIOUS
  <2>1. /\ at \in Nat /\ at <= now /\ now <= at + MaxLag
        /\ Head(queue).kind = "tick" => Beat(at) = at
    BY <1>1, <1>3, HeadOf
  <2>2. Beat(at) \in Int /\ Beat(at) <= at /\ at < Beat(at) + Frame
    BY <2>1, BeatIs
  <2>3. Front = Beat(at) - IF Head(queue).kind = "tick" THEN Frame ELSE 0
    BY <1>3 DEF Front
  <2> QED BY <1>1, <2>1, <2>2, <2>3
<1> QED BY <1>2, <1>3

\* A file longer by n frames.
LEMMA FileGrows ==
  ASSUME BasicInv, NEW n \in Nat, writer'.granule = writer.granule + n
  PROVE  File' = File + n * Frame
<1>1. writer.granule \in Nat
  BY TypeParts DEF BasicInv, FileOK, Writer
<1>2. ASSUME NEW g \in Nat PROVE (g + n) * Frame = g * Frame + n * Frame
  BY Constants
<1> QED BY <1>1, <1>2 DEF File

\* An event handed over: the front moves on with a tick, and a gap is counted.
LEMMA HandedFront ==
  ASSUME BasicInv, NEW kind \in Kinds, Handed(kind)
  PROVE  /\ HeadIs(kind) /\ UNCHANGED <<now, gaps>>
         /\ Over' = Over + IF kind \in {"leave", "down"} THEN 1 ELSE 0
         /\ kind \notin {"tick", "down"} => Front' = Front
         /\ kind = "tick" => Front' = Front + Frame
<1>1. WorldOK /\ QueueInv /\ Waiting <= gaps
  BY TypeParts DEF BasicInv
<1>2. HeadIs(kind) /\ queue # <<>> /\ Head(queue).kind = kind /\ UNCHANGED <<now, gaps>>
  BY DEF Handed, HeadIs
<1> QED BY <1>1, <1>2, HandedBasic, FrontIs

LEMMA NotKept == ASSUME ~Kept' PROVE FrontInv'
BY DEF FrontInv, Kept

LEMMA GoesFront == ASSUME BasicInv, FrontInv, Goes PROVE FrontInv'
<1>1. WorldOK /\ QueueInv /\ Waiting <= gaps /\ TaskInv /\ OutageInv
  BY TypeParts DEF BasicInv
<1>2. /\ Over' = Over
      /\ UNCHANGED <<task, place, start, pausedAt, disconnectedAt, writer, closing, row>>
      /\ driver.up \/ queue # <<>> => Front' = Front
  BY <1>1, GoesWorld
<1>3. place = "active" /\ disconnectedAt = 0 => driver.up \/ queue # <<>>
  BY <1>1 DEF OutageInv, Kept
<1>4. File' = File
  BY <1>2 DEF File
<1> QED BY <1>1, <1>2, <1>3, <1>4 DEF FrontInv, Within, TaskInv

LEMMA CreatedFront == ASSUME BasicInv, FrontInv, Created PROVE FrontInv'
<1>1. /\ task.at = "creating" /\ HeadIs("speak") /\ Head(queue).at <= start
      /\ place = "none" /\ disconnectedAt = 0 /\ writer = Fresh
  BY DEF Created, BasicInv, TaskInv, OutageInv
<1>2. /\ Handed("speak") /\ "speak" \in Kinds /\ task' = Idle /\ place' = "active"
      /\ UNCHANGED <<start, disconnectedAt, writer>>
  BY <1>1 DEF Created, Done, Timeless, Handed, Kinds
<1>3. Front' = Front /\ Over' = Over
  BY <1>2, HandedFront, Numbers
<1>4. File' = 0
  BY <1>1, <1>2, Numbers DEF File, Fresh
<1>5. Front <= start /\ start <= Front + Frame + MaxLag - 1 /\ Front \in Int /\ start \in Nat
  <2>1. queue # <<>> /\ Head(queue).kind # "tick"
    BY <1>1 DEF HeadIs
  <2>2. Front \in Int /\ Front <= Head(queue).at /\ now <= Front + Frame + MaxLag - 1 /\ Head(queue).at \in Nat
    BY <2>1, FrontIs
  <2>3. start \in Nat /\ start <= now /\ now \in Nat /\ Frame \in Nat /\ MaxLag \in Nat
    BY Numbers
  <2> QED BY <1>1, <2>2, <2>3
<1>6. Within(0, Front - start, Over, Over)
  BY <1>5, OverIs, Numbers DEF Within
<1>7. task'.at = "idle" /\ disconnectedAt' = 0 /\ start' = start
  BY <1>1, <1>2 DEF Idle
<1> QED BY <1>2, <1>3, <1>4, <1>6, <1>7 DEF FrontInv

LEMMA SpeakIgnoredFront == ASSUME BasicInv, FrontInv, SpeakIgnored PROVE FrontInv'
<1>1. /\ Handed("speak") /\ "speak" \in Kinds /\ task' = task /\ place # "paused"
      /\ UNCHANGED <<place, start, pausedAt, disconnectedAt, writer>>
  BY DEF SpeakIgnored, Handles, Done, Timeless, Handed, HeadIs, Kinds
<1>2. Front' = Front /\ Over' = Over
  BY <1>1, HandedFront, Numbers
<1> QED BY <1>1, <1>2 DEF FrontInv, File

LEMMA TickFront == ASSUME BasicInv, FrontInv, Tick PROVE FrontInv'
<1>1. /\ HeadIs("tick") /\ "tick" \in Kinds /\ task.at = "idle"
      /\ UNCHANGED <<now, driver, gaps, place, start, pausedAt, disconnectedAt, writer>>
  BY DEF Tick, Handles, HeadIs, Timeless, Kinds, Idle
<1>2. CASE place = "active"
  <2>1. task'.at = "writing" /\ queue' = queue
    BY <1>2 DEF Tick, Busy, Idle
  <2>2. Front' = Front /\ Over' = Over
    BY <1>1, <2>1, QueueStays DEF world, BasicInv
  <2> QED BY <1>1, <2>1, <2>2 DEF FrontInv, File
<1>3. CASE place # "active"
  <2>1. Handed("tick")
    BY <1>1, <1>3 DEF Tick, Done, Handed
  <2>2. Over' = Over
    BY <1>1, <2>1, HandedFront, Numbers
  <2> QED BY <1>1, <1>3, <2>2 DEF FrontInv, File
<1> QED BY <1>2, <1>3

LEMMA WriteTickFront == ASSUME BasicInv, FrontInv, WriteTick PROVE FrontInv'
<1>1. /\ HeadIs("tick") /\ place \notin {"none", "paused", "gone"} /\ task.at = "writing"
      /\ place = "active" => disconnectedAt = 0 /\ ~writer.finished
  BY DEF WriteTick, BasicInv, TaskInv, OutageInv, TimeInv, HeadIs, Kept
<1>2. /\ Handed("tick") /\ "tick" \in Kinds /\ task'.at = "idle"
      /\ UNCHANGED <<place, start, pausedAt, disconnectedAt>>
  BY <1>1 DEF WriteTick, Done, Timeless, Handed, Kinds, Idle
<1>3. Front' = Front + Frame /\ Over' = Over
  BY <1>2, HandedFront, Numbers
<1>4. ~writer'.broken =>
        ~writer.broken /\ writer'.granule = writer.granule + IF writer.finished THEN 0 ELSE 1
  <2>1. writer \in Writer /\ writer.disk <= writer.pages
    BY TypeParts DEF BasicInv, FileOK, TimeInv
  <2>2. writer' \in Written(writer, 1) /\ 1 \in Nat
    BY DEF WriteTick
  <2> QED BY <2>1, <2>2, WrittenIs, Zenon
<1>5. CASE place = "active" /\ ~writer'.broken
  <2>1. File' = File + 1 * Frame
    BY <1>1, <1>4, <1>5, FileGrows
  <2>2. Within(File, Front - start, Over, Over)
    BY <1>1, <1>4, <1>5 DEF FrontInv
  <2>3. Within(File + Frame, (Front + Frame) - start, Over, Over)
    <3>1. File \in Nat /\ Frame \in Nat /\ start \in Nat /\ Front \in Int
      BY Numbers, FrontIs
    <3>2. Low(Over) \in Int /\ High(Over) \in Int
      BY OverIs
    <3> QED BY <2>2, <3>1, <3>2 DEF Within
  <2>4. File' = File + Frame
    BY <2>1, Numbers
  <2> QED BY <1>1, <1>2, <1>3, <1>5, <2>3, <2>4 DEF FrontInv
<1>6. CASE ~(place = "active" /\ ~writer'.broken)
  BY <1>1, <1>2, <1>6 DEF FrontInv
<1> QED BY <1>5, <1>6

\* A gap begins: what is behind the clock was written, or will be padded.
LEMMA GapBegins ==
  ASSUME BasicInv, Within(File, Front - start, Over, Over), queue # <<>>, Head(queue).kind # "tick"
  PROVE  Within(File, now - start, Over + 1, Over)
<1>1. /\ now \in Nat /\ start \in Nat /\ File \in Nat /\ Frame \in Nat /\ MaxLag \in Nat
      /\ Front \in Int /\ Front <= now /\ now <= Front + Frame + MaxLag - 1
  BY Numbers, FrontIs
<1>2. /\ Low(Over) \in Int /\ High(Over) \in Int
      /\ Low(Over + 1) = Low(Over) + (Frame + MaxLag - 1)
  BY OverIs
<1> QED BY <1>1, <1>2, SMTT(60) DEF Within

LEMMA GapCounts ==
  ASSUME BasicInv, NEW f \in Int, NEW t \in Int, Within(f, t, Over, Over - 1)
  PROVE  Within(f, t, Over + 1, Over)
BY Numbers, OverIs DEF Within

\* A gap is over: it is padded, to the next frame.
LEMMA GapEnds ==
  ASSUME BasicInv, NEW from \in Nat, from <= now, Within(File, from - start, Over, Over - 1),
         queue # <<>>, Head(queue).kind # "tick"
  PROVE  Within(File + SilenceFrames(now - from) * Frame, Front - start, Over, Over)
<1>1. now - from \in Nat
  BY Numbers
<1> PICK padded : padded = SilenceFrames(now - from) * Frame
  OBVIOUS
<1>2. SilenceFrames(now - from) \in Nat /\ now - from <= padded /\ padded < (now - from) + Frame
  BY <1>1, SilenceIs
<1>3. padded \in Int
  BY <1>2, Constants
<1>4. /\ now \in Nat /\ start \in Nat /\ File \in Nat /\ Frame \in Nat /\ MaxLag \in Nat
      /\ Front \in Int /\ Front <= now /\ now <= Front + Frame + MaxLag - 1
  BY Numbers, FrontIs
<1>5. /\ Low(Over) \in Int /\ High(Over) \in Int /\ High(Over - 1) \in Int
      /\ High(Over) = High(Over - 1) + (2 * Frame + MaxLag - 2)
  BY OverIs
<1>6. Within(File + padded, Front - start, Over, Over)
  BY <1>2, <1>3, <1>4, <1>5, SMTT(60) DEF Within
<1> QED BY <1>6

LEMMA PauseFront == ASSUME BasicInv, FrontInv, Pause PROVE FrontInv'
<1>1. /\ HeadIs("leave") /\ "leave" \in Kinds /\ task' = Idle /\ task = Idle
      /\ queue' = Tail(queue) /\ UNCHANGED <<now, driver, gaps, start, disconnectedAt, writer>>
  BY DEF Pause, Handles, HeadIs, Done, Timeless, Kinds
<1>2. Over' = Over + 1 /\ queue # <<>> /\ Head(queue).kind # "tick"
  BY <1>1, HandedFront DEF Handed, HeadIs
<1>3. File' = File /\ File \in Int /\ Over' - 1 = Over
  <2>1. Over \in Int /\ File \in Int
    BY Numbers
  <2> QED BY <1>1, <1>2, <2>1 DEF File
<1>4. Kept /\ disconnectedAt # 0 => FALSE
  BY <1>1 DEF BasicInv, OutageInv, HeadIs
<1>5. CASE place = "active" /\ ~writer.broken
  <2>1. Within(File, Front - start, Over, Over)
    BY <1>1, <1>4, <1>5 DEF FrontInv, Kept, Idle
  <2>2. Within(File, now - start, Over + 1, Over)
    BY <1>2, <2>1, GapBegins
  <2>3. place' = "paused" /\ pausedAt' = now
    BY <1>5 DEF Pause
  <2> QED BY <1>1, <1>2, <1>3, <2>2, <2>3 DEF FrontInv
<1>6. CASE place = "paused" /\ ~writer.broken
  <2>1. Within(File, pausedAt - start, Over, Over - 1) /\ pausedAt - start \in Int
    BY <1>6, Numbers DEF FrontInv
  <2>2. Within(File, pausedAt - start, Over + 1, Over)
    BY <1>3, <2>1, GapCounts
  <2>3. place' = "paused" /\ pausedAt' = pausedAt
    BY <1>6 DEF Pause
  <2> QED BY <1>1, <1>2, <1>3, <2>2, <2>3 DEF FrontInv
<1>7. CASE place \notin {"active", "paused"} \/ writer.broken
  BY <1>1, <1>7 DEF FrontInv, Pause
<1> QED BY <1>5, <1>6, <1>7

LEMMA DisconnectFront == ASSUME BasicInv, FrontInv, Disconnect PROVE FrontInv'
<1>1. /\ HeadIs("down") /\ "down" \in Kinds /\ task' = Idle /\ task = Idle
      /\ queue' = Tail(queue) /\ UNCHANGED <<now, driver, gaps, place, start, pausedAt, writer>>
  BY DEF Disconnect, Handles, HeadIs, Done, Timeless, Kinds
<1>2. Over' = Over + 1 /\ queue # <<>> /\ Head(queue).kind # "tick"
  BY <1>1, HandedFront DEF Handed, HeadIs
<1>3. File' = File /\ File \in Int /\ Over' - 1 = Over
  <2>1. Over \in Int /\ File \in Int
    BY Numbers
  <2> QED BY <1>1, <1>2, <2>1 DEF File
<1>4. Kept /\ disconnectedAt # 0 => FALSE
  BY <1>1 DEF BasicInv, OutageInv, HeadIs
<1>5. CASE place = "active" /\ ~writer.broken
  <2>1. Within(File, Front - start, Over, Over)
    BY <1>1, <1>4, <1>5 DEF FrontInv, Kept, Idle
  <2>2. Within(File, now - start, Over + 1, Over)
    BY <1>2, <2>1, GapBegins
  <2>3. disconnectedAt' = now /\ now # 0 /\ place' = "active" /\ task'.at # "padding"
    BY <1>1, <1>4, <1>5, Numbers DEF Disconnect, Kept, Idle
  <2> QED BY <1>1, <1>2, <1>3, <2>2, <2>3 DEF FrontInv
<1>6. CASE place = "paused" /\ ~writer.broken
  <2>1. Within(File, pausedAt - start, Over, Over - 1) /\ pausedAt - start \in Int
    BY <1>6, Numbers DEF FrontInv
  <2>2. Within(File, pausedAt - start, Over + 1, Over)
    BY <1>3, <2>1, GapCounts
  <2> QED BY <1>1, <1>2, <1>3, <1>6, <2>2 DEF FrontInv
<1>7. CASE place \notin {"active", "paused"} \/ writer.broken
  BY <1>1, <1>7 DEF FrontInv
<1> QED BY <1>5, <1>6, <1>7

LEMMA ReconnectFront == ASSUME BasicInv, FrontInv, Reconnect PROVE FrontInv'
<1>1. /\ HeadIs("up") /\ queue # <<>> /\ Head(queue).kind # "tick" /\ task = Idle /\ disconnectedAt' = 0
      /\ UNCHANGED <<now, driver, gaps, place, start, pausedAt, writer>>
  BY DEF Reconnect, Handles, HeadIs, Timeless
<1>2. CASE disconnectedAt = 0
  <2>1. ~Kept
    BY <1>1, <1>2 DEF BasicInv, OutageInv, HeadIs, Idle
  <2> QED BY <1>1, <2>1, NotKept DEF Kept
<1>3. CASE disconnectedAt # 0
  <2>1. /\ queue' = queue
        /\ task' = [at |-> "padding", frames |-> SilenceFrames(now - disconnectedAt), time |-> now]
    BY <1>3 DEF Reconnect, Busy
  <2>2. Front' = Front /\ Over' = Over /\ File' = File
    BY <1>1, <2>1, QueueStays DEF BasicInv, world, File
  <2>3. task'.at = "padding" /\ task'.frames = SilenceFrames(now - disconnectedAt)
    BY <2>1
  <2>4. ASSUME place = "active", ~writer.broken
        PROVE  Within(File + task'.frames * Frame, Front - start, Over, Over)
    <3>1. Within(File, disconnectedAt - start, Over, Over - 1)
      BY <1>3, <2>4 DEF FrontInv
    <3>2. disconnectedAt \in Nat /\ disconnectedAt <= now
      BY Numbers
    <3> QED BY <1>1, <2>3, <3>1, <3>2, GapEnds
  <2> QED BY <1>1, <2>2, <2>3, <2>4 DEF FrontInv
<1> QED BY <1>2, <1>3

LEMMA PadFront == ASSUME BasicInv, FrontInv, Pad PROVE FrontInv'
<1>1. /\ task.at = "padding" /\ task'.at = "checking" /\ disconnectedAt = 0
      /\ UNCHANGED <<now, driver, queue, gaps, place, start, pausedAt, disconnectedAt>>
  BY TypeParts DEF BasicInv, TaskInv, Pad, Timeless, Tasks
<1>2. Front' = Front /\ Over' = Over
  BY <1>1, QueueStays DEF BasicInv, world
<1>3. CASE place = "active"
  <2>1. writer' \in Written(writer, task.frames) /\ task.frames \in Nat
    BY <1>1, <1>3, Numbers DEF Pad, Pads
  <2>2. writer \in Writer /\ writer.disk <= writer.pages /\ ~writer.finished
    BY <1>3, TypeParts DEF BasicInv, FileOK, TimeInv
  <2>3. ~writer'.broken =>
          ~writer.broken /\ writer'.granule = writer.granule + IF writer.finished THEN 0 ELSE task.frames
    BY <2>1, <2>2, WrittenIs, Zenon
  <2>4. ASSUME ~writer'.broken PROVE Within(File', Front - start, Over, Over)
    <3>1. Within(File + task.frames * Frame, Front - start, Over, Over)
      BY <1>1, <1>3, <2>3, <2>4 DEF FrontInv
    <3>2. File' = File + task.frames * Frame
      BY <2>1, <2>2, <2>3, <2>4, FileGrows
    <3> QED BY <3>1, <3>2
  <2> QED BY <1>1, <1>2, <1>3, <2>4 DEF FrontInv
<1>4. CASE place # "active"
  <2>1. writer' = writer /\ File' = File
    BY <1>4 DEF Pad, Pads, File
  <2> QED BY <1>1, <1>2, <1>4, <2>1 DEF FrontInv
<1> QED BY <1>3, <1>4

LEMMA ResumeFront == ASSUME BasicInv, FrontInv, Resume PROVE FrontInv'
<1>1. /\ HeadIs("speak") /\ "speak" \in Kinds /\ task = Idle /\ task' = Idle
      /\ place = "paused" /\ place' = "active" /\ queue # <<>> /\ Head(queue).kind # "tick"
      /\ queue' = Tail(queue) /\ UNCHANGED <<now, driver, gaps, start, disconnectedAt>>
  BY DEF Resume, Handles, HeadIs, Done, Timeless, Kinds
<1>2. disconnectedAt = 0
  BY <1>1 DEF BasicInv, OutageInv, HeadIs, Kept
<1>3. Front' = Front /\ Over' = Over /\ task'.at = "idle"
  BY <1>1, HandedFront, Numbers DEF Handed, Idle
<1> PICK n : n = SilenceFrames(now - pausedAt)
  OBVIOUS
<1>4. n \in Nat
  <2>1. now - pausedAt \in Nat
    BY Numbers
  <2> QED BY <2>1, SilenceIs
<1>5. ~writer'.broken =>
        ~writer.broken /\ writer'.granule = writer.granule + IF writer.finished THEN 0 ELSE n
  <2>1. writer' \in Written(writer, n)
    BY DEF Resume
  <2>2. writer \in Writer /\ writer.disk <= writer.pages
    BY TypeParts DEF BasicInv, FileOK, TimeInv
  <2> QED BY <1>4, <2>1, <2>2, WrittenIs, Zenon
<1>6. ASSUME ~writer'.broken PROVE Within(File', Front - start, Over, Over)
  <2>1. Within(File, pausedAt - start, Over, Over - 1) /\ pausedAt \in Nat /\ pausedAt <= now
    BY <1>1, <1>5, <1>6, Numbers DEF FrontInv
  <2>2. Within(File + n * Frame, Front - start, Over, Over)
    BY <1>1, <2>1, GapEnds
  <2>3. ~writer.finished
    BY <1>1 DEF BasicInv, TimeInv
  <2>4. File' = File + n * Frame
    BY <1>4, <1>5, <1>6, <2>3, FileGrows
  <2> QED BY <2>2, <2>4
<1> QED BY <1>1, <1>2, <1>3, <1>6 DEF FrontInv

LEMMA CheckedFront == ASSUME BasicInv, FrontInv, Checked PROVE FrontInv'
<1>1. /\ HeadIs("up") /\ "up" \in Kinds /\ task.at = "checking" /\ disconnectedAt = 0
      /\ queue' = Tail(queue) /\ UNCHANGED <<now, driver, gaps, disconnectedAt>>
  BY DEF BasicInv, TaskInv, Checked, Done, Timeless, Kinds
<1>2. Front' = Front /\ Over' = Over /\ task'.at = "idle"
  BY <1>1, HandedFront, Numbers DEF Handed, Checked, Done, Idle
<1>3. CASE place' = "taken"
  BY <1>3, NotKept DEF Kept
<1>4. CASE place' # "taken"
  <2>1. UNCHANGED <<place, start, pausedAt, writer>>
    BY <1>4 DEF Checked, TakeAt, Take
  <2> QED BY <1>1, <1>2, <2>1 DEF FrontInv, File
<1> QED BY <1>3, <1>4

LEMMA FrontNext == ASSUME BasicInv, FrontInv, Next PROVE FrontInv'
<1>1. CASE Goes
  BY <1>1, GoesFront
<1>2. CASE Create \/ HealthCloses \/ RejoinTimeout \/ OutageTimeout \/ FinalDisconnect \/ Owner
  <2>1. ~Kept'
    BY <1>2 DEF Create, HealthCloses, RejoinTimeout, OutageTimeout, FinalDisconnect, Owner,
                Finish, CloseRow, Drop, TakeAt, Take, Kept
  <2> QED BY <2>1, NotKept
<1>3. CASE Created \/ SpeakIgnored \/ Tick \/ WriteTick
  BY <1>3, CreatedFront, SpeakIgnoredFront, TickFront, WriteTickFront
<1>4. CASE Resume \/ Pause \/ Disconnect \/ Reconnect \/ Pad \/ Checked
  BY <1>4, ResumeFront, PauseFront, DisconnectFront, ReconnectFront, PadFront, CheckedFront
<1> QED BY <1>1, <1>2, <1>3, <1>4 DEF Next, EventTask, Goes

LEMMA BasicNext == ASSUME BasicInv, Next PROVE BasicInv'
<1>1. CASE Goes \/ Create \/ Created \/ SpeakIgnored \/ Tick \/ WriteTick
  BY <1>1, GoesBasic, CreateBasic, CreatedBasic, SpeakIgnoredBasic, TickBasic, WriteTickBasic
<1>2. CASE Resume \/ Pause \/ Disconnect \/ Reconnect \/ Pad \/ Checked
  BY <1>2, ResumeBasic, PauseBasic, DisconnectBasic, ReconnectBasic, PadBasic, CheckedBasic
<1>3. CASE HealthCloses \/ RejoinTimeout \/ OutageTimeout \/ FinalDisconnect \/ Owner
  BY <1>3, HealthClosesBasic, RejoinTimeoutBasic, OutageTimeoutBasic, FinalDisconnectBasic,
     FinishBasic, CloseRowBasic, DropBasic DEF Owner
<1> QED BY <1>1, <1>2, <1>3 DEF Next, EventTask, Goes

----
\* The row is open until it is closed.
RowOpen ==
  place \in {"active", "paused", "taken", "finished"} \/ task.at = "creating" => row.open

LEMMA RowOpenNext == ASSUME BasicInv, RowOpen, Next PROVE RowOpen'
<1>1. row \in [open : BOOLEAN, length : Nat, cut : BOOLEAN] /\ TaskInv
  BY TypeParts DEF BasicInv, FileOK
<1>2. CASE Goes
  <2>1. UNCHANGED <<task, place, row>>
    BY <1>2, GoesWorld, TypeParts DEF BasicInv
  <2> QED BY <2>1 DEF RowOpen
<1>3. CASE Create
  BY <1>1, <1>3, Zenon DEF Create, RowOpen
<1>4. CASE Created
  BY <1>1, <1>4 DEF Created, Done, Idle, RowOpen
<1>5. CASE SpeakIgnored \/ Tick \/ WriteTick \/ Resume \/ Pause \/ Disconnect \/ Reconnect \/ Pad
  <2>1. row' = row /\ task'.at # "creating" /\ (place' = place \/ place \in {"active", "paused"})
    <3>1. CASE SpeakIgnored \/ WriteTick \/ Resume \/ Pause \/ Disconnect
      BY <3>1 DEF SpeakIgnored, WriteTick, Resume, Pause, Disconnect, Done, Idle
    <3>2. CASE Tick \/ Reconnect
      BY <3>2 DEF Tick, Reconnect, Done, Busy, Idle
    <3>3. CASE Pad
      BY <3>3, TypeParts DEF BasicInv, Tasks, Pad
    <3> QED BY <1>5, <3>1, <3>2, <3>3
  <2> QED BY <2>1 DEF RowOpen
<1>6. CASE Checked \/ HealthCloses \/ RejoinTimeout \/ OutageTimeout \/ FinalDisconnect
  <2>1. row'.open = row.open /\ (place' = place \/ place \in {"active", "paused"})
    BY <1>1, <1>6, Zenon
       DEF Checked, HealthCloses, RejoinTimeout, OutageTimeout, FinalDisconnect, TakeAt, Take
  <2>2. task' = task \/ task' = Idle
    BY <1>6 DEF Checked, HealthCloses, RejoinTimeout, OutageTimeout, FinalDisconnect, Done
  <2>3. task'.at = "creating" => task.at = "creating"
    BY <2>2 DEF Idle
  <2> QED BY <2>1, <2>3, Zenon DEF RowOpen
<1>7. CASE Finish \/ CloseRow \/ Drop
  BY <1>1, <1>7 DEF Finish, CloseRow, Drop, RowOpen, TaskInv
<1> QED BY <1>2, <1>3, <1>4, <1>5, <1>6, <1>7 DEF Next, EventTask, Owner, Goes

----
\* The end of the recording.
LEMMA NotEnded == ASSUME place' \in {"none", "active", "paused"} PROVE EndInv'
BY DEF EndInv

LEMMA EndStays ==
  ASSUME BasicInv, EndInv, UNCHANGED <<gaps, place, start, writer, closing, row>>,
         task'.at # "writing" \/ task' = task
  PROVE  EndInv'
<1>1. Pending \in {0, Frame} /\ (Pending' = 0 \/ Pending' = Pending) /\ Frame \in Nat
  BY Numbers DEF Pending
<1>2. File \in Nat /\ File' = File /\ Ahead' = Ahead /\ Behind' = Behind
  BY Numbers DEF File, Ahead, Behind
<1>3. Ahead \in Int /\ Behind \in Int
  BY OverIs
<1>4. ASSUME NEW length \in Int, Matches(length) PROVE Matches(length)'
  BY <1>1, <1>2, <1>3, <1>4 DEF Matches
<1>5. closing - start \in Int /\ row.length \in Int
  BY Numbers
<1>6. CASE writer.broken
  BY <1>6 DEF EndInv
<1>7. CASE place \in {"taken", "finished"} /\ ~writer.broken
  <2>1. Matches(closing - start)
    BY <1>7 DEF EndInv
  <2>2. Matches(closing - start)'
    BY <1>4, <1>5, <2>1
  <2> QED BY <1>7, <2>2 DEF EndInv
<1>8. CASE place \in {"closed", "gone"} /\ ~row.open /\ ~writer.broken
  <2>1. Matches(row.length)
    BY <1>8 DEF EndInv
  <2>2. Matches(row.length)'
    BY <1>4, <1>5, <2>1
  <2> QED BY <1>8, <2>2 DEF EndInv
<1>9. CASE place \notin {"taken", "finished"} /\ ~(place \in {"closed", "gone"} /\ ~row.open)
  BY <1>9 DEF EndInv
<1> QED BY <1>6, <1>7, <1>8, <1>9

\* What holds of the length the row will have, once the recording is taken.
LEMMA TakenEnd ==
  ASSUME place' = "taken", UNCHANGED <<gaps, start, writer>>,
         ~writer.broken => /\ File + Pending' - (closing' - start) <= Ahead
                           /\ row'.cut \/ (closing' - start) - File <= Behind
  PROVE  EndInv'
<1>1. File' = File /\ Ahead' = Ahead /\ Behind' = Behind
  BY DEF File, Ahead, Behind
<1>2. CASE writer.broken
  BY <1>2 DEF EndInv
<1>3. CASE ~writer.broken
  <2>1. Matches(closing - start)'
    BY <1>1, <1>3 DEF Matches
  <2> QED BY <2>1 DEF EndInv
<1> QED BY <1>2, <1>3

\* A length not shorter than the handled time, and not more than the lag longer.
LEMMA LengthIs ==
  ASSUME BasicInv, NEW length \in Int, NEW more \in Int, NEW time \in Int,
         Within(File, time, Over, Over) \/ Within(File, time, Over, Over - 1),
         time + more <= length
  PROVE  /\ File + more - length <= Ahead
         /\ length <= time + Frame + MaxLag => length - File <= Behind
<1>1. Frame \in Nat /\ Frame >= 1 /\ MaxLag \in Nat /\ File \in Nat
  BY Numbers
<1>2. /\ Low(Over) \in Int /\ High(Over) \in Int /\ High(Over - 1) \in Int
      /\ Ahead \in Int /\ Behind \in Int
      /\ Low(Over) + Frame + MaxLag <= Behind /\ High(Over) <= Ahead
      /\ High(Over) = High(Over - 1) + (2 * Frame + MaxLag - 2)
  BY OverIs
<1>3. time <= File + Low(Over) /\ File <= time + High(Over)
  BY <1>1, <1>2, SMTT(60) DEF Within
<1> QED BY <1>1, <1>2, <1>3, SMTT(60)

\* The three ways a recording is taken: when it is active and no outage is
\* unpadded, when it is active in an outage, and when it is paused.
ActiveEnds(time) ==
  /\ place = "active" /\ disconnectedAt = 0 /\ task.at # "padding"
  /\ time \in Nat /\ Front <= time /\ time <= now
CutEnds == place = "active" /\ (disconnectedAt # 0 \/ task.at = "padding")

LEMMA ActiveEnd ==
  ASSUME BasicInv, FrontInv, NEW time, ActiveEnds(time), TakeAt("active", time), gaps' = gaps,
         Pending' = 0 \/ (Pending' = Pending /\ time = now)
  PROVE  EndInv'
<1>1. /\ place' = "taken" /\ closing' = time /\ UNCHANGED <<start, writer>>
  BY DEF TakeAt, Take
<1>2. CASE writer.broken
  BY <1>1, <1>2, TakenEnd
<1>3. CASE ~writer.broken
  <2>1. Within(File, Front - start, Over, Over)
    BY <1>3 DEF ActiveEnds, FrontInv
  <2>2. /\ Front \in Int /\ start \in Nat /\ time \in Nat /\ Front <= time
        /\ time <= Front + Frame + MaxLag /\ Frame \in Nat /\ MaxLag \in Nat
    BY Numbers, FrontIs DEF ActiveEnds
  <2>3. Pending' \in Int /\ Front + Pending' <= time
    <3>1. CASE Pending' = 0
      BY <2>2, <3>1
    <3>2. CASE Pending' = Pending /\ time = now /\ Pending # 0
      <4>1. HeadIs("tick") /\ Pending = Frame
        BY <3>2 DEF BasicInv, TaskInv, Pending
      <4> QED BY <2>2, <3>2, <4>1, FrontIs DEF HeadIs
    <3> QED BY <3>1, <3>2
  <2> PICK length, front, more : length = time - start /\ front = Front - start /\ more = Pending'
    OBVIOUS
  <2>4. length \in Int /\ front \in Int /\ more \in Int /\ length <= front + Frame + MaxLag
    BY <2>2, <2>3
  <2>5. front + more <= length
    <3>1. Front + more <= time
      BY <2>3
    <3>2. front + start = Front /\ length + start = time
      BY <2>2
    <3>3. front + start + more <= length + start
      BY <3>1, <3>2
    <3>4. start \in Int /\ front \in Int /\ length \in Int /\ more \in Int
      BY <2>2, <2>4
    <3> QED BY <3>3, <3>4, SMTT(60)
  <2>6. File + more - length <= Ahead /\ length - File <= Behind
    BY <2>1, <2>4, <2>5, LengthIs
  <2> QED BY <1>1, <2>6, TakenEnd
<1> QED BY <1>2, <1>3

LEMMA CutEnd ==
  ASSUME BasicInv, FrontInv, CutEnds, TakeAt("active", now), gaps' = gaps, task' = task
  PROVE  EndInv'
<1>1. /\ place' = "taken" /\ closing' = now /\ UNCHANGED <<start, writer>>
  BY DEF TakeAt, Take
<1>2. row'.cut
  <2>1. row \in [open : BOOLEAN, length : Nat, cut : BOOLEAN]
    BY TypeParts DEF BasicInv, FileOK
  <2> QED BY <2>1, Zenon DEF TakeAt, CutEnds, Unpadded
<1>3. Pending' = 0
  <2>1. task.at # "writing"
    BY DEF CutEnds, BasicInv, TaskInv, OutageInv, HeadIs, Kept
  <2> QED BY <2>1 DEF Pending
<1>4. now - start \in Int /\ Front \in Int /\ Front - start \in Int
  BY Numbers, FrontIs
<1>5. CASE writer.broken
  BY <1>1, <1>5, TakenEnd
<1>6. CASE ~writer.broken /\ task.at = "padding"
  <2>1. Within(File + task.frames * Frame, Front - start, Over, Over)
    BY <1>6 DEF CutEnds, FrontInv
  <2>2. /\ File \in Nat /\ task.frames * Frame \in Nat /\ Front <= now /\ now \in Nat /\ start \in Nat
        /\ High(Over) \in Int /\ Ahead \in Int /\ High(Over) <= Ahead
    BY Numbers, FrontIs, OverIs
  <2>3. File + 0 - (now - start) <= Ahead
    BY <1>4, <2>1, <2>2, SMTT(60) DEF Within
  <2> QED BY <1>1, <1>2, <1>3, <2>3, TakenEnd
<1>7. CASE ~writer.broken /\ disconnectedAt # 0
  <2>1. Within(File, disconnectedAt - start, Over, Over - 1)
    BY <1>7 DEF CutEnds, FrontInv
  <2>2. disconnectedAt - start \in Int /\ (disconnectedAt - start) + 0 <= now - start
    BY Numbers
  <2>3. File + 0 - (now - start) <= Ahead
    BY <1>4, <2>1, <2>2, LengthIs
  <2> QED BY <1>1, <1>2, <1>3, <2>3, TakenEnd
<1> QED BY <1>5, <1>6, <1>7 DEF CutEnds

LEMMA PausedEnd ==
  ASSUME BasicInv, FrontInv, TakeAt("paused", PausedClose), gaps' = gaps, task' = task
  PROVE  EndInv'
<1>1. /\ place = "paused" /\ place' = "taken" /\ closing' = pausedAt /\ UNCHANGED <<start, writer>>
  BY DEF TakeAt, Take, PausedClose
<1>2. Pending' = 0
  BY <1>1 DEF BasicInv, TaskInv, Pending
<1>3. CASE writer.broken
  BY <1>1, <1>3, TakenEnd
<1>4. CASE ~writer.broken
  <2>1. Within(File, pausedAt - start, Over, Over - 1)
    BY <1>1, <1>4 DEF FrontInv
  <2> PICK length : length = pausedAt - start
    OBVIOUS
  <2>2. length \in Int /\ length + 0 <= length /\ length <= length + Frame + MaxLag
    BY Numbers
  <2>3. Within(File, length, Over, Over - 1) /\ 0 \in Int
    BY <2>1
  <2>4. File + 0 - length <= Ahead /\ length - File <= Behind
    BY <2>2, <2>3, LengthIs
  <2> QED BY <1>1, <1>2, <2>4, TakenEnd
<1> QED BY <1>3, <1>4

LEMMA WriteTickEnd == ASSUME BasicInv, EndInv, WriteTick PROVE EndInv'
<1>1. /\ task.at = "writing" /\ task' = Idle /\ writer' \in Written(writer, 1)
      /\ UNCHANGED <<gaps, place, start, closing, row>>
  BY DEF WriteTick, Done, Timeless
<1>2. ~writer'.broken =>
        ~writer.broken /\ writer'.granule = writer.granule + IF writer.finished THEN 0 ELSE 1
  <2>1. writer \in Writer /\ writer.disk <= writer.pages
    BY TypeParts DEF BasicInv, FileOK, TimeInv
  <2> QED BY <1>1, <2>1, WrittenIs, Zenon
<1>3. CASE writer'.broken
  BY <1>3 DEF EndInv
<1>4. CASE ~writer'.broken
  <2>1. /\ File \in Nat /\ Frame \in Nat /\ Pending' = 0
        /\ Pending = IF writer.finished THEN 0 ELSE Frame
    BY <1>1, Numbers DEF Pending, Idle
  <2>2. File' = File + Pending
    <3>1. CASE writer.finished
      <4>1. writer.granule \in Nat
        BY TypeParts, NumbersOf DEF BasicInv, FileOK
      <4>2. writer'.granule = writer.granule
        BY <1>2, <1>4, <3>1, <4>1
      <4> QED BY <2>1, <3>1, <4>2 DEF File
    <3>2. CASE ~writer.finished
      <4>1. File' = File + 1 * Frame
        BY <1>2, <1>4, <3>2, FileGrows
      <4> QED BY <2>1, <3>2, <4>1
    <3> QED BY <3>1, <3>2
  <2>3. ASSUME NEW length \in Int, Matches(length) PROVE Matches(length)'
    <3>1. Ahead' = Ahead /\ Behind' = Behind /\ Ahead \in Int /\ Behind \in Int
      BY <1>1, OverIs DEF Ahead, Behind
    <3>2. row' = row /\ Pending \in Nat
      BY <1>1, <2>1
    <3> QED BY <2>1, <2>2, <2>3, <3>1, <3>2 DEF Matches
  <2>4. closing - start \in Int /\ row.length \in Int
    BY Numbers
  <2>5. /\ place \in {"taken", "finished"} => Matches(closing - start)
        /\ place \in {"closed", "gone"} /\ ~row.open => Matches(row.length)
    BY <1>2, <1>4 DEF EndInv
  <2>6. /\ place \in {"taken", "finished"} => Matches(closing - start)'
        /\ place \in {"closed", "gone"} /\ ~row.open => Matches(row.length)'
    BY <1>1, <2>3, <2>4, <2>5
  <2> QED BY <1>1, <2>6 DEF EndInv
<1> QED BY <1>3, <1>4

LEMMA CheckedEnd == ASSUME BasicInv, FrontInv, EndInv, Checked PROVE EndInv'
<1>1. /\ task.at = "checking" /\ HeadIs("up") /\ disconnectedAt = 0
      /\ Head(queue).at <= task.time /\ task.time <= now
      /\ task' = Idle /\ gaps' = gaps
  BY DEF BasicInv, TaskInv, Checked, Done, Timeless
<1>2. Pending' = 0
  BY <1>1 DEF Pending, Idle
<1>3. CASE TakeAt("active", task.time)
  <2>1. Front <= task.time
    <3>1. Front <= Head(queue).at /\ Front \in Int /\ Head(queue).at \in Nat
      BY <1>1, FrontIs DEF HeadIs
    <3> QED BY <1>1, <3>1, Numbers
  <2>2. ActiveEnds(task.time)
    BY <1>1, <1>3, <2>1, Numbers DEF ActiveEnds, TakeAt, Take
  <2> QED BY <1>1, <1>2, <1>3, <2>2, ActiveEnd
<1>4. CASE UNCHANGED <<place, closing, row, start, pausedAt, writer>>
  BY <1>1, <1>4, EndStays DEF Idle
<1> QED BY <1>3, <1>4 DEF Checked

LEMMA HealthClosesEnd == ASSUME BasicInv, FrontInv, HealthCloses PROVE EndInv'
<1>1. /\ place = "active" /\ TakeAt("active", now)
      /\ gaps' = gaps /\ task' = task /\ writer' = writer
  BY DEF HealthCloses, TakeAt, Take, world
<1>2. CASE task.at = "padding" \/ disconnectedAt # 0
  BY <1>1, <1>2, CutEnd DEF CutEnds
<1>3. CASE task.at # "padding" /\ disconnectedAt = 0
  <2>1. ActiveEnds(now)
    BY <1>1, <1>3, Numbers, FrontIs DEF ActiveEnds
  <2>2. Pending' = Pending
    BY <1>1 DEF Pending
  <2> QED BY <1>1, <2>1, <2>2, ActiveEnd
<1> QED BY <1>2, <1>3

LEMMA OutageTimeoutEnd == ASSUME BasicInv, FrontInv, EndInv, OutageTimeout PROVE EndInv'
<1>1. disconnectedAt # 0 /\ gaps' = gaps /\ task' = task
  BY DEF OutageTimeout, world
<1>2. CASE TakeAt("active", now)
  BY <1>1, <1>2, CutEnd DEF CutEnds, TakeAt, Take
<1>3. CASE TakeAt("paused", PausedClose)
  BY <1>1, <1>3, PausedEnd
<1>4. CASE UNCHANGED <<place, closing, row, start, pausedAt, writer>>
  BY <1>1, <1>4, EndStays
<1> QED BY <1>2, <1>3, <1>4 DEF OutageTimeout

LEMMA FinalDisconnectEnd == ASSUME BasicInv, FrontInv, EndInv, FinalDisconnect PROVE EndInv'
<1>1. /\ HeadIs("down") /\ task = Idle /\ task' = task /\ gaps' = gaps
      /\ task.at = "idle"
  BY DEF FinalDisconnect, Handles, HeadIs, Done, Timeless, Idle
<1>2. CASE TakeAt("active", now)
  <2>1. place = "active" /\ disconnectedAt = 0
    BY <1>1, <1>2 DEF TakeAt, Take, BasicInv, OutageInv, HeadIs, Kept
  <2>2. ActiveEnds(now) /\ Pending' = 0
    BY <1>1, <2>1, Numbers, FrontIs DEF ActiveEnds, Pending
  <2> QED BY <1>1, <1>2, <2>2, ActiveEnd
<1>3. CASE TakeAt("paused", PausedClose)
  BY <1>1, <1>3, PausedEnd
<1>4. CASE UNCHANGED <<place, closing, row, start, pausedAt, writer>>
  BY <1>1, <1>4, EndStays
<1> QED BY <1>2, <1>3, <1>4 DEF FinalDisconnect

LEMMA FinishEnd == ASSUME BasicInv, EndInv, Finish PROVE EndInv'
<1>1. /\ place = "taken" /\ place' = "finished" /\ writer' \in Finished(writer)
      /\ UNCHANGED <<gaps, task, start, closing, row>>
  BY DEF Finish, world
<1>2. /\ writer'.granule = writer.granule /\ writer'.broken = writer.broken
      /\ writer.finished => writer'.finished
  <2>1. writer \in Writer /\ writer.disk <= writer.pages
    BY TypeParts DEF BasicInv, FileOK, TimeInv
  <2> QED BY <1>1, <2>1, FinishedIs, Zenon
<1>3. CASE writer'.broken
  BY <1>3 DEF EndInv
<1>4. CASE ~writer'.broken
  <2>1. Pending' \in Nat /\ Pending \in Nat /\ Pending' <= Pending
    BY <1>1, <1>2, Constants DEF Pending
  <2>2. Matches(closing - start)
    BY <1>1, <1>2, <1>4 DEF EndInv
  <2>3. /\ File' = File /\ File \in Nat /\ Ahead' = Ahead /\ Behind' = Behind
        /\ Ahead \in Int /\ Behind \in Int
    BY <1>1, <1>2, Numbers, OverIs DEF File, Ahead, Behind
  <2>4. closing - start \in Int
    BY Numbers
  <2>5. Matches(closing - start)'
    BY <1>1, <2>1, <2>2, <2>3, <2>4 DEF Matches
  <2> QED BY <1>1, <2>5 DEF EndInv
<1> QED BY <1>3, <1>4

LEMMA CloseRowEnd == ASSUME BasicInv, EndInv, RowOpen, CloseRow PROVE EndInv'
<1>1. /\ place = "finished" /\ place' = "closed" /\ UNCHANGED <<gaps, task, writer>> /\ row.open
      /\ row \in [open : BOOLEAN, length : Nat, cut : BOOLEAN]
  BY TypeParts DEF CloseRow, world, RowOpen, BasicInv, FileOK
<1>2. CASE writer.broken
  BY <1>1, <1>2 DEF EndInv
<1>3. CASE row' = row
  BY <1>1, <1>3 DEF EndInv
<1>4. CASE ~writer.broken /\ row' = [row EXCEPT !.open = FALSE, !.length = closing - start]
  <2>1. Matches(closing - start)
    BY <1>1, <1>4 DEF EndInv
  <2>2. row'.length = closing - start
    BY <1>1, <1>4
  <2>3. row'.cut = row.cut
    BY <1>1, <1>4, Zenon
  <2>4. File' = File /\ Pending' = Pending /\ Ahead' = Ahead /\ Behind' = Behind
    BY <1>1 DEF File, Pending, Ahead, Behind
  <2>5. Matches(row.length)'
    BY <2>1, <2>2, <2>3, <2>4 DEF Matches
  <2> QED BY <1>1, <2>5 DEF EndInv
<1> QED BY <1>2, <1>3, <1>4 DEF CloseRow

LEMMA DropEnd == ASSUME BasicInv, EndInv, Drop PROVE EndInv'
<1>1. /\ place = "closed" /\ place' = "gone" /\ task.at # "writing"
      /\ UNCHANGED <<gaps, task, row>> /\ writer \in Writer /\ writer.disk <= writer.pages
  BY TypeParts DEF Drop, world, BasicInv, FileOK, TimeInv
<1>2. writer'.granule = writer.granule /\ writer'.broken = writer.broken
  BY <1>1, DropIs DEF Dropped
<1>3. File' = File /\ Pending' = 0 /\ Pending = 0 /\ Ahead' = Ahead /\ Behind' = Behind
  BY <1>1, <1>2 DEF File, Pending, Ahead, Behind
<1>4. CASE ~writer.broken /\ ~row.open
  <2>1. Matches(row.length)
    BY <1>1, <1>4 DEF EndInv
  <2>2. Matches(row.length)'
    BY <1>1, <1>3, <2>1 DEF Matches
  <2> QED BY <1>1, <2>2 DEF EndInv
<1>5. CASE writer.broken \/ row.open
  BY <1>1, <1>2, <1>5 DEF EndInv
<1> QED BY <1>4, <1>5

LEMMA EndNext == ASSUME BasicInv, FrontInv, EndInv, RowOpen, Next PROVE EndInv'
<1>1. CASE Goes
  <2>1. place' \in {"none", "active", "paused"}
    BY <1>1, GoesWorld, TypeParts DEF BasicInv, Followed
  <2> QED BY <2>1, NotEnded
<1>2. CASE Create \/ Created \/ Resume
  BY <1>2, NotEnded DEF Create, Created, Resume
<1>3. CASE SpeakIgnored \/ Disconnect \/ Reconnect
  <2>1. UNCHANGED <<gaps, place, start, writer, closing, row>>
    BY <1>3 DEF SpeakIgnored, Disconnect, Reconnect, Timeless
  <2>2. task'.at # "writing"
    BY <1>3 DEF SpeakIgnored, Disconnect, Reconnect, Done, Busy, Idle
  <2> QED BY <2>1, <2>2, EndStays
<1>4. CASE Pause \/ Tick \/ Pad
  <2>1. CASE place' \in {"none", "active", "paused"}
    BY <2>1, NotEnded
  <2>2. CASE place' \notin {"none", "active", "paused"}
    <3>1. UNCHANGED <<gaps, place, start, writer, closing, row>>
      BY <1>4, <2>2 DEF Pause, Tick, Pad, Pads, Timeless
    <3>2. task'.at # "writing"
      <4>1. CASE Pause \/ Tick
        BY <2>2, <4>1 DEF Pause, Tick, Done, Idle, Timeless
      <4>2. CASE Pad
        BY <4>2, TypeParts DEF BasicInv, Pad, Tasks
      <4> QED BY <1>4, <4>1, <4>2
    <3> QED BY <3>1, <3>2, EndStays
  <2> QED BY <2>1, <2>2
<1>5. CASE RejoinTimeout
  BY <1>5, PausedEnd DEF RejoinTimeout, world
<1>6. CASE WriteTick \/ Checked \/ HealthCloses \/ OutageTimeout \/ FinalDisconnect
  BY <1>6, WriteTickEnd, CheckedEnd, HealthClosesEnd, OutageTimeoutEnd, FinalDisconnectEnd
<1>7. CASE Owner
  BY <1>7, FinishEnd, CloseRowEnd, DropEnd DEF Owner
<1> QED BY <1>1, <1>2, <1>3, <1>4, <1>5, <1>6, <1>7 DEF Next, EventTask, Goes

----
\* Nobody writes to a file after it is gone, and Drop leaves it whole or lost.
LEMMA FileNext == ASSUME BasicInv, ClosedFileIsComplete, Next PROVE ClosedFileIsComplete'
<1>1. CASE Drop
  <2>1. PICK w \in Retried(writer) : writer' \in Flushed(w)
    BY <1>1 DEF Drop
  <2>2. writer \in Writer
    BY TypeParts DEF BasicInv, FileOK
  <2>3. w \in Writer /\ (w.finished \/ w.lost)
    BY <2>2 DEF Retried, Writer
  <2>4. writer'.lost \/ (writer'.finished = w.finished /\ writer'.disk = writer'.pages
                         /\ writer'.lost = w.lost)
    BY <2>1, <2>3 DEF Flushed, Writer
  <2> QED BY <2>3, <2>4 DEF ClosedFileIsComplete
<1>2. CASE Goes
  <2>1. UNCHANGED <<place, writer>>
    BY <1>2, GoesWorld, TypeParts DEF BasicInv
  <2> QED BY <2>1 DEF ClosedFileIsComplete
<1>3. CASE Resume \/ Created \/ Finish \/ CloseRow
  BY <1>3 DEF Resume, Created, Finish, CloseRow, ClosedFileIsComplete
<1>4. CASE WriteTick
  <2>1. place' # "gone"
    BY <1>4 DEF WriteTick, BasicInv, TaskInv, Timeless
  <2> QED BY <2>1 DEF ClosedFileIsComplete
<1>5. CASE Create \/ SpeakIgnored \/ Tick \/ Pause \/ Disconnect \/ Reconnect \/ Pad
  <2>1. place' # "gone" \/ UNCHANGED <<place, writer>>
    BY <1>5 DEF Create, SpeakIgnored, Tick, Pause, Disconnect, Reconnect, Pad, Pads, Timeless
  <2> QED BY <2>1 DEF ClosedFileIsComplete
<1>6. CASE Checked \/ HealthCloses \/ RejoinTimeout \/ OutageTimeout \/ FinalDisconnect
  <2>1. place' # "gone" \/ UNCHANGED <<place, writer>>
    BY <1>6 DEF Checked, HealthCloses, RejoinTimeout, OutageTimeout, FinalDisconnect, TakeAt, Take
  <2> QED BY <2>1 DEF ClosedFileIsComplete
<1> QED BY <1>1, <1>2, <1>3, <1>4, <1>5, <1>6 DEF Next, EventTask, Owner, Goes

----
\* The inductive invariant.
OggInv == BasicInv /\ FrontInv /\ EndInv /\ RowOpen

LEMMA OggInvInit == ASSUME Init PROVE OggInv
<1>1. place = "none" /\ task.at = "idle"
  BY DEF Init, Idle
<1> QED BY <1>1, InitBasic DEF OggInv, FrontInv, EndInv, RowOpen

LEMMA OggInvNext == ASSUME OggInv, [Next]_vars PROVE OggInv'
<1>1. CASE Next
  BY <1>1, BasicNext, FrontNext, EndNext, RowOpenNext DEF OggInv
<1>2. CASE UNCHANGED vars
  <2>1. BasicInv'
    <3>1. QueueInv' /\ Waiting' = Waiting
      BY <1>2, QueueStays DEF OggInv, BasicInv, vars, world
    <3> QED BY <1>2, <3>1
         DEF OggInv, BasicInv, vars, TypeOK, TaskInv, OutageInv, TimeInv, HeadIs, Kept
  <2>2. FrontInv'
    <3>1. Front' = Front /\ Over' = Over
      BY <1>2, QueueStays DEF OggInv, BasicInv, vars, world
    <3> QED BY <1>2, <3>1 DEF OggInv, FrontInv, vars, File
  <2>3. EndInv' /\ RowOpen'
    BY <1>2 DEF OggInv, EndInv, RowOpen, Matches, Pending, File, Ahead, Behind, vars
  <2> QED BY <2>1, <2>2, <2>3 DEF OggInv
<1> QED BY <1>1, <1>2

THEOREM OggInvHolds == Spec => []OggInv
<1>1. Init => OggInv
  BY OggInvInit
<1>2. OggInv /\ [Next]_vars => OggInv'
  BY OggInvNext
<1> QED BY <1>1, <1>2, PTL DEF Spec

\* Every variable of the recording's time line has its type, and no time, of the
\* row or of the event task, lies beyond the clock.
THEOREM OggTypeCorrect == Spec => []TypeOK
<1>1. OggInv => TypeOK
  BY DEF OggInv, BasicInv
<1> QED BY <1>1, OggInvHolds, PTL

\* Whatever the frame, the lag, the timeouts and the number of gaps: an active
\* recording whose outage is padded is as long as the time since start_time.
THEOREM AudioKeepsUpHolds == Spec => []AudioKeepsUp
<1>1. ASSUME OggInv PROVE AudioKeepsUp
  <2> SUFFICES ASSUME place = "active", disconnectedAt = 0, task.at # "padding", ~writer.broken
               PROVE  File - (now - start) <= Ahead /\ (now - start) - File <= Behind
    BY DEF AudioKeepsUp
  <2>0. BasicInv /\ FrontInv
    BY <1>1 DEF OggInv
  <2>1. Within(File, Front - start, Over, Over)
    BY <2>0 DEF FrontInv
  <2>2. /\ Front \in Int /\ start \in Nat /\ now \in Nat /\ Front <= now
        /\ now <= Front + Frame + MaxLag /\ Frame \in Nat /\ MaxLag \in Nat /\ File \in Nat
    BY <2>0, Numbers, FrontIs
  <2> PICK length, front : length = now - start /\ front = Front - start
    OBVIOUS
  <2>3. length \in Int /\ front \in Int /\ front + 0 <= length /\ length <= front + Frame + MaxLag
    BY <2>2
  <2>4. Within(File, front, Over, Over) /\ 0 \in Int
    BY <2>1
  <2>5. File + 0 - length <= Ahead /\ length - File <= Behind
    BY <2>0, <2>3, <2>4, LengthIs
  <2> QED BY <2>2, <2>5
<1> QED BY <1>1, OggInvHolds, PTL

\* Whoever closes the recording: the row is as long as the file, but for a row
\* closed in an unpadded outage.
THEOREM RowMatchesFileHolds == Spec => []RowMatchesFile
<1>1. ASSUME OggInv PROVE RowMatchesFile
  <2> SUFFICES ASSUME place \in {"closed", "gone"}, ~row.open, ~writer.broken
               PROVE  File - row.length <= Ahead /\ (row.cut \/ row.length - File <= Behind)
    BY DEF RowMatchesFile
  <2>1. Matches(row.length)
    BY <1>1 DEF OggInv, EndInv
  <2>2. File \in Nat /\ row.length \in Nat /\ Frame \in Nat /\ Ahead \in Int
    BY <1>1, Numbers, OverIs DEF OggInv
  <2>3. Pending \in Nat
    BY <2>2 DEF Pending
  <2> QED BY <2>1, <2>2, <2>3 DEF Matches
<1> QED BY <1>1, OggInvHolds, PTL

\* Whatever errors finish and the ticks met: the file that is gone is whole, or an
\* error struck when its writer was dropped.
THEOREM ClosedFileIsCompleteHolds == Spec => []ClosedFileIsComplete
<1>1. Init => ClosedFileIsComplete
  BY DEF Init, ClosedFileIsComplete
<1>2. OggInv /\ ClosedFileIsComplete /\ [Next]_vars => ClosedFileIsComplete'
  <2>1. ASSUME OggInv, ClosedFileIsComplete, Next PROVE ClosedFileIsComplete'
    BY <2>1, FileNext DEF OggInv
  <2>2. ASSUME ClosedFileIsComplete, UNCHANGED vars PROVE ClosedFileIsComplete'
    BY <2>2 DEF vars, ClosedFileIsComplete
  <2> QED BY <2>1, <2>2
<1> QED BY <1>1, <1>2, OggInvHolds, PTL DEF Spec
====
