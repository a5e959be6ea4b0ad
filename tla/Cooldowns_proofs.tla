---- MODULE Cooldowns_proofs ----
(***************************************************************************)
(* The cooldowns are kept, for any requests, limits and bounds: TypeOK,    *)
(* CooldownKept and WaitIsEnough are invariants of Cooldowns.  What a      *)
(* request has read is compared with what the tables hold when it is       *)
(* answered, and the tables with what those answered before it have        *)
(* written.                                                                *)
(***************************************************************************)
EXTENDS Cooldowns, TLAPS

\* Who has looked at the clock.
Timed == {"look", "record", "newest", "insert"} \cup Over

\* A request that was not asked is as it began; the others ask for the same, and
\* are where a jam or a stamp can be.
KindsInv ==
  /\ \A q \in Requests : request[q].pc = "idle" => request[q] = Idle
  /\ \A q, r \in Requests :
       request[q].pc # "idle" /\ request[r].pc # "idle" => request[q].kind = request[r].kind
  /\ \A q \in Requests :
       request[q].kind = "jam" => request[q].pc \notin {"newest", "insert", "failed"}
  /\ \A q \in Requests :
       request[q].kind = "stamp" =>
         /\ request[q].pc \notin {"override", "base", "look", "record"}
         /\ request[q].pc \in {"clock", "newest", "refused"} => request[q].secs = StampLimit
         /\ request[q].secs \in {0, StampLimit}

\* Who was answered before a request was asked stays so, and had looked at the
\* clock before it does.
PastInv ==
  /\ \A q \in Requests : request[q].at <= now
  /\ \A a, b \in Requests :
       After(b, a) => /\ request[a].pc \in Over
                      /\ request[b].pc \in Timed => request[a].at <= request[b].at

HistoryInv == KindsInv /\ PastInv

\* The entry of the jams is the time of one that was admitted, and no older
\* than one that overlapped no other; the stamps have a newest, and among them
\* are all that were admitted.
JamsInv ==
  /\ last # Unset => \E c \in Requests : Is(c, "jam", "admitted") /\ request[c].at = last
  /\ \A a \in Requests :
       Is(a, "jam", "admitted") /\ Alone(a) => last # Unset /\ last >= request[a].at
StampsInv ==
  /\ stamps # {} => \E m \in stamps : \A s \in stamps : s <= m
  /\ \A a \in Requests : Is(a, "stamp", "admitted") => request[a].at \in stamps
TablesInv == JamsInv /\ StampsInv

\* The distance is kept as soon as the check is passed.
Passed(a, b) ==
  /\ Same(a, b) /\ After(b, a)
  /\ request[a].pc = "admitted" /\ request[b].pc \in {"record", "insert", "admitted"}
  /\ request[a].kind = "jam" => Alone(a)
Distance(a, b) ==
  request[b].secs = 0 \/ request[b].at - request[a].at >= request[b].secs * Second
PassedInv == \A a, b \in Requests : Passed(a, b) => Distance(a, b)

\* While nobody else is admitted the time a refused request was told reaches
\* to the end of the limit it was held to.
Overtaken(a) == \E c \in Requests : Same(a, c) /\ ~After(a, c) /\ request[c].pc = "admitted"
Told(a) == request[a].at + request[a].told * Second
Covers(a) ==
  /\ request[a].kind = "jam" => last # Unset /\ Told(a) > last + request[a].secs * Second
  /\ request[a].kind = "stamp" => \A s \in stamps : Told(a) >= s + StampLimit * Second
WaitInv == \A a \in Requests : request[a].pc = "refused" /\ ~Overtaken(a) => Covers(a)

CooldownsInv ==
  TypeOK /\ HistoryInv /\ TablesInv /\ PassedInv /\ WaitInv /\ WaitIsEnough

----
LEMMA Waits ==
  ASSUME NEW x \in Nat
  PROVE  /\ x \div Second + 1 \in Nat /\ (x \div Second + 1) * Second > x
         /\ (x + Second - 1) \div Second \in Nat
         /\ ((x + Second - 1) \div Second) * Second >= x
BY CooldownAssumption

LEMMA MaxOf ==
  ASSUME NEW S \in SUBSET Int, NEW m \in S, \A s \in S : s <= m
  PROVE  Max(S) \in S /\ \A s \in S : s <= Max(S)
BY DEF Max

LEMMA InitCooldowns == Init => CooldownsInv
<1> SUFFICES ASSUME Init PROVE CooldownsInv
  OBVIOUS
<1> USE CooldownAssumption DEF Init, Idle
<1>1. TypeOK
  BY DEF TypeOK, Request, Labels
<1>2. HistoryInv
  BY DEF HistoryInv, KindsInv, PastInv, After
<1>3. TablesInv /\ PassedInv /\ WaitInv /\ WaitIsEnough
  BY DEF TablesInv, JamsInv, StampsInv, PassedInv, Passed, WaitInv, WaitIsEnough, Is
<1> QED BY <1>1, <1>2, <1>3 DEF CooldownsInv

\* The constants, one by one.
LEMMA Bounds ==
  /\ Second \in Nat \ {0} /\ StampLimit \in Nat \ {0} /\ Limits \subseteq Nat
  /\ MaxTime \in Nat /\ MaxEdits \in Nat
BY CooldownAssumption

\* The numbers of a request.
LEMMA NumbersOf == ASSUME NEW r \in Request PROVE {r.secs, r.at, r.told} \subseteq Nat
<1>1. r.secs \in Limits \cup {0, StampLimit}
  BY DEF Request
<1>2. \A n \in Limits \cup {0, StampLimit} : n \in Nat
  BY Bounds
<1>3. r.at \in 0 .. MaxTime
  BY DEF Request
<1>4. r.told \in Nat
  BY DEF Request
<1> QED BY <1>1, <1>2, <1>3, <1>4

\* What each step makes of its request, and leaves of the others.
Frame(q) ==
  /\ request' \in [Requests -> Request]
  /\ \A r \in Requests \ {q} : request'[r] = request[r]

Same3(q) ==
  /\ request'[q].kind = request[q].kind /\ request'[q].before = request[q].before
  /\ request'[q].at = request[q].at

LEMMA IdleIs == Idle.pc = "idle" /\ Idle.before = {}
BY DEF Idle

LEMMA AskMoves ==
  ASSUME TypeOK, NEW q \in Requests, NEW kind \in {"jam", "stamp"}, Ask(q, kind)
  PROVE  /\ Frame(q) /\ request[q] = Idle
         /\ \A r \in Requests : request[r].pc # "idle" => request[r].kind = kind
         /\ request'[q].kind = kind /\ request'[q].before = Answered /\ request'[q].at = 0
         /\ request'[q].pc = IF kind = "jam" THEN "override" ELSE "clock"
         /\ request'[q].secs = IF kind = "jam" THEN 0 ELSE StampLimit
         /\ UNCHANGED <<now, last, stamps>>
<1> DEFINE n == [Idle EXCEPT !.pc = IF kind = "jam" THEN "override" ELSE "clock",
                             !.kind = kind,
                             !.secs = IF kind = "jam" THEN 0 ELSE StampLimit,
                             !.before = Answered]
<1>1. /\ request' = [request EXCEPT ![q] = n] /\ request[q] = Idle
      /\ \A r \in Requests : request[r] # Idle => request[r].kind = kind
      /\ UNCHANGED <<now, last, stamps>>
  BY DEF Ask, Become
<1>2. /\ n \in Request /\ n.kind = kind /\ n.before = Answered /\ n.at = 0
      /\ n.pc = IF kind = "jam" THEN "override" ELSE "clock"
      /\ n.secs = IF kind = "jam" THEN 0 ELSE StampLimit
  <2>1. Idle \in Request /\ Idle.at = 0
    <3>1. 0 \in 0 .. MaxTime
      BY CooldownAssumption
    <3> QED BY <3>1 DEF Idle, Request, Labels
  <2>2. /\ (IF kind = "jam" THEN "override" ELSE "clock") \in Labels
        /\ (IF kind = "jam" THEN 0 ELSE StampLimit) \in Limits \cup {0, StampLimit}
        /\ Answered \in SUBSET Requests
    BY DEF Labels, Answered
  <2>3. /\ n.kind = kind /\ n.before = Answered /\ n.at = 0
        /\ n.pc = IF kind = "jam" THEN "override" ELSE "clock"
        /\ n.secs = IF kind = "jam" THEN 0 ELSE StampLimit
    BY <2>1 DEF Request
  <2>4. n \in Request
    BY <2>1, <2>2 DEF Request
  <2> QED BY <2>3, <2>4
<1>3. \A r \in Requests : request[r].pc # "idle" => request[r] # Idle
  BY DEF Idle
<1> QED BY <1>1, <1>2, <1>3 DEF Frame, TypeOK

LEMMA ReadOverrideMoves ==
  ASSUME TypeOK, NEW q \in Requests, NEW failed \in BOOLEAN, ReadOverride(q, failed)
  PROVE  /\ Frame(q) /\ Same3(q) /\ Is(q, "jam", "override")
         /\ request'[q].pc \in {"base", "clock"} /\ UNCHANGED <<now, last, stamps>>
<1> DEFINE n == IF ~failed /\ override = Unset THEN [request[q] EXCEPT !.pc = "base"]
           ELSE [request[q] EXCEPT !.pc = "clock", !.secs = IF failed THEN 0 ELSE override]
<1>1. request[q] \in Request /\ request \in [Requests -> Request]
  BY DEF TypeOK
<1>2. /\ request' = [request EXCEPT ![q] = n] /\ Is(q, "jam", "override")
      /\ UNCHANGED <<now, last, stamps>>
  BY DEF ReadOverride, Become, Goto
<1>3. /\ n \in Request /\ n.kind = request[q].kind /\ n.before = request[q].before
      /\ n.at = request[q].at /\ n.pc \in {"base", "clock"}
  BY <1>1 DEF Request, TypeOK, Labels
<1> QED BY <1>1, <1>2, <1>3 DEF Frame, Same3

LEMMA ReadBaseMoves ==
  ASSUME TypeOK, NEW q \in Requests, NEW failed \in BOOLEAN, ReadBase(q, failed)
  PROVE  /\ Frame(q) /\ Same3(q) /\ Is(q, "jam", "base") /\ request'[q].pc = "clock"
         /\ UNCHANGED <<now, last, stamps>>
<1> DEFINE n == [request[q] EXCEPT !.pc = "clock",
                                   !.secs = IF failed \/ base = Unset THEN 0 ELSE base]
<1>1. request[q] \in Request /\ request \in [Requests -> Request]
  BY DEF TypeOK
<1>2. /\ request' = [request EXCEPT ![q] = n] /\ Is(q, "jam", "base")
      /\ UNCHANGED <<now, last, stamps>>
  BY DEF ReadBase, Become
<1>3. /\ n \in Request /\ n.kind = request[q].kind /\ n.before = request[q].before
      /\ n.at = request[q].at /\ n.pc = "clock"
  BY <1>1 DEF Request, TypeOK, Labels
<1> QED BY <1>1, <1>2, <1>3 DEF Frame, Same3

LEMMA ReadClockMoves ==
  ASSUME TypeOK, NEW q \in Requests, ReadClock(q)
  PROVE  /\ Frame(q) /\ request[q].pc = "clock" /\ request'[q].at = now
         /\ request'[q].kind = request[q].kind /\ request'[q].before = request[q].before
         /\ request'[q].secs = request[q].secs
         /\ request'[q].pc \in {"newest", "record", "look"}
         /\ request[q].kind = "stamp" => request'[q].pc = "newest"
         /\ request[q].kind = "jam" =>
              request'[q].pc = IF request[q].secs = 0 THEN "record" ELSE "look"
         /\ UNCHANGED <<now, last, stamps>>
<1> DEFINE label == IF request[q].kind = "stamp" THEN "newest"
                    ELSE IF request[q].secs = 0 THEN "record" ELSE "look"
           n == [request[q] EXCEPT !.at = now, !.pc = label]
<1>1. request[q] \in Request /\ request \in [Requests -> Request]
  BY DEF TypeOK
<1>2. /\ request' = [request EXCEPT ![q] = n] /\ request[q].pc = "clock"
      /\ UNCHANGED <<now, last, stamps>>
  BY DEF ReadClock, Become
<1>3. /\ request[q].kind = "stamp" => label = "newest"
      /\ request[q].kind = "jam" => label = IF request[q].secs = 0 THEN "record" ELSE "look"
      /\ label \in {"newest", "record", "look"}
  BY <1>1 DEF Request, Labels
<1>4. /\ n \in Request /\ n.kind = request[q].kind /\ n.before = request[q].before
      /\ n.at = now /\ n.secs = request[q].secs /\ n.pc = label
  BY <1>1, <1>3 DEF Request, TypeOK, Labels
<1> QED BY <1>1, <1>2, <1>3, <1>4 DEF Frame

LEMMA LookMoves ==
  ASSUME TypeOK, NEW q \in Requests, Look(q)
  PROVE  LET limit == request[q].secs * Second
         IN  /\ Frame(q) /\ Same3(q) /\ Is(q, "jam", "look")
             /\ request'[q].secs = request[q].secs /\ UNCHANGED <<now, last, stamps>>
             /\ \/ /\ last # Unset /\ Elapsed(q) < limit
                   /\ request'[q].pc = "refused"
                   /\ request'[q].told * Second > limit - Elapsed(q)
                \/ /\ last = Unset \/ Elapsed(q) >= limit
                   /\ request'[q].pc = "record"
<1> DEFINE limit == request[q].secs * Second
           wait  == JamWait(limit - Elapsed(q))
<1>1. request[q] \in Request /\ request \in [Requests -> Request]
  BY DEF TypeOK
<1>2. limit \in Nat /\ request[q].at \in Nat
  BY <1>1, NumbersOf, CooldownAssumption
<1>3. CASE last # Unset /\ Elapsed(q) < limit
  <2> DEFINE n == [request[q] EXCEPT !.pc = "refused", !.told = wait]
  <2>1. request' = [request EXCEPT ![q] = n] /\ Is(q, "jam", "look")
    BY <1>3 DEF Look, Become, Refuse
  <2>2. limit - Elapsed(q) \in Nat
    BY <1>2, <1>3, CooldownAssumption DEF TypeOK, Elapsed
  <2>3. wait \in Nat /\ wait * Second > limit - Elapsed(q)
    BY <2>2, Waits DEF JamWait
  <2>4. /\ n \in Request /\ n.kind = request[q].kind /\ n.before = request[q].before
        /\ n.at = request[q].at /\ n.secs = request[q].secs /\ n.pc = "refused"
        /\ n.told = wait
    BY <1>1, <2>3 DEF Request, Labels
  <2> QED BY <1>1, <1>3, <2>1, <2>3, <2>4 DEF Frame, Same3, Look
<1>4. CASE ~(last # Unset /\ Elapsed(q) < limit)
  <2> DEFINE n == [request[q] EXCEPT !.pc = "record"]
  <2>1. request' = [request EXCEPT ![q] = n] /\ Is(q, "jam", "look")
    BY <1>4 DEF Look, Become, Goto
  <2>2. /\ n \in Request /\ n.kind = request[q].kind /\ n.before = request[q].before
        /\ n.at = request[q].at /\ n.secs = request[q].secs /\ n.pc = "record"
    BY <1>1 DEF Request, Labels
  <2>3. last = Unset \/ Elapsed(q) >= limit
    BY <1>2, <1>4, CooldownAssumption DEF TypeOK, Elapsed
  <2> QED BY <1>1, <2>1, <2>2, <2>3 DEF Frame, Same3, Look
<1> QED BY <1>3, <1>4

LEMMA RecordMoves ==
  ASSUME TypeOK, NEW q \in Requests, Record(q)
  PROVE  /\ Frame(q) /\ Same3(q) /\ Is(q, "jam", "record")
         /\ request'[q].secs = request[q].secs /\ request'[q].pc = "admitted"
         /\ last' = request[q].at /\ UNCHANGED <<now, stamps>>
<1> DEFINE n == [request[q] EXCEPT !.pc = "admitted"]
<1>1. request[q] \in Request /\ request \in [Requests -> Request]
  BY DEF TypeOK
<1>2. /\ request' = [request EXCEPT ![q] = n] /\ Is(q, "jam", "record")
      /\ last' = request[q].at /\ UNCHANGED <<now, stamps>>
  BY DEF Record, Become, Goto
<1>3. /\ n \in Request /\ n.kind = request[q].kind /\ n.before = request[q].before
      /\ n.at = request[q].at /\ n.secs = request[q].secs /\ n.pc = "admitted"
  BY <1>1 DEF Request, Labels
<1> QED BY <1>1, <1>2, <1>3 DEF Frame, Same3

LEMMA NewestStampMoves ==
  ASSUME TypeOK, TablesInv, NEW q \in Requests, NEW failed \in BOOLEAN,
         request[q].secs = StampLimit, NewestStamp(q, failed)
  PROVE  LET limit == StampLimit * Second
         IN  /\ Frame(q) /\ Same3(q) /\ Is(q, "stamp", "newest")
             /\ UNCHANGED <<now, last, stamps>>
             /\ \/ request'[q].pc = "insert" /\ request'[q].secs = 0
                \/ /\ request'[q].pc = "insert" /\ request'[q].secs = request[q].secs
                   /\ \A s \in stamps : request[q].at - s >= limit
                \/ /\ request'[q].pc = "refused" /\ request'[q].secs = request[q].secs
                   /\ \E s \in stamps : request[q].at - s < limit
                   /\ \A s \in stamps :
                        request[q].at + request'[q].told * Second >= s + limit
<1> DEFINE limit == StampLimit * Second
           delta == request[q].at - Max(stamps)
<1>1. request[q] \in Request /\ request \in [Requests -> Request]
  BY DEF TypeOK
<1>2. /\ limit \in Nat /\ request[q].at \in Nat /\ Is(q, "stamp", "newest")
      /\ UNCHANGED <<now, last, stamps>>
      /\ \A s \in stamps : s \in Nat
  BY <1>1, CooldownAssumption DEF Request, NewestStamp, TypeOK
<1>3. stamps # {} => Max(stamps) \in stamps /\ \A s \in stamps : s <= Max(stamps)
  <2> SUFFICES ASSUME stamps # {}
               PROVE  Max(stamps) \in stamps /\ \A s \in stamps : s <= Max(stamps)
    OBVIOUS
  <2>1. PICK m \in stamps : \A s \in stamps : s <= m
    BY DEF TablesInv, StampsInv
  <2> QED BY <1>2, <2>1, MaxOf
<1>4. CASE failed
  <2> DEFINE n == [request[q] EXCEPT !.pc = "insert", !.secs = 0]
  <2>1. request' = [request EXCEPT ![q] = n]
    BY <1>4 DEF NewestStamp, Become
  <2>2. /\ n \in Request /\ n.kind = request[q].kind /\ n.before = request[q].before
        /\ n.at = request[q].at /\ n.secs = 0 /\ n.pc = "insert"
    BY <1>1 DEF Request, Labels
  <2> QED BY <1>1, <1>2, <2>1, <2>2 DEF Frame, Same3
<1>5. CASE ~failed /\ stamps # {} /\ delta < limit
  <2> DEFINE n == [request[q] EXCEPT !.pc = "refused", !.told = StampWait(delta)]
  <2>1. request' = [request EXCEPT ![q] = n]
    BY <1>5 DEF NewestStamp, Become, Refuse
  <2>2. limit - delta \in Nat
    BY <1>2, <1>3, <1>5
  <2>3. StampWait(delta) \in Nat /\ StampWait(delta) * Second >= limit - delta
    BY <2>2, Waits DEF StampWait
  <2>4. /\ n \in Request /\ n.kind = request[q].kind /\ n.before = request[q].before
        /\ n.at = request[q].at /\ n.secs = request[q].secs /\ n.pc = "refused"
        /\ n.told = StampWait(delta)
    BY <1>1, <2>3 DEF Request, Labels
  <2>5. \A s \in stamps : request[q].at + StampWait(delta) * Second >= s + limit
    <3>1. request[q].at + StampWait(delta) * Second >= Max(stamps) + limit
      BY <1>2, <1>3, <1>5, <2>3, CooldownAssumption
    <3> QED BY <1>2, <1>3, <1>5, <2>3, <3>1, CooldownAssumption
  <2> QED BY <1>1, <1>2, <1>3, <1>5, <2>1, <2>4, <2>5 DEF Frame, Same3
<1>6. CASE ~failed /\ ~(stamps # {} /\ delta < limit)
  <2> DEFINE n == [request[q] EXCEPT !.pc = "insert"]
  <2>1. request' = [request EXCEPT ![q] = n]
    BY <1>6 DEF NewestStamp, Become, Goto
  <2>2. /\ n \in Request /\ n.kind = request[q].kind /\ n.before = request[q].before
        /\ n.at = request[q].at /\ n.secs = request[q].secs /\ n.pc = "insert"
    BY <1>1 DEF Request, Labels
  <2>3. \A s \in stamps : request[q].at - s >= limit
    BY <1>2, <1>3, <1>6
  <2> QED BY <1>1, <1>2, <2>1, <2>2, <2>3 DEF Frame, Same3
<1> QED BY <1>4, <1>5, <1>6

LEMMA InsertStampMoves ==
  ASSUME TypeOK, NEW q \in Requests, NEW failed \in BOOLEAN, InsertStamp(q, failed)
  PROVE  /\ Frame(q) /\ Same3(q) /\ Is(q, "stamp", "insert")
         /\ request'[q].secs = request[q].secs
         /\ request'[q].pc = IF failed THEN "failed" ELSE "admitted"
         /\ stamps' = IF failed THEN stamps ELSE stamps \cup {request[q].at}
         /\ UNCHANGED <<now, last>>
<1> DEFINE n == [request[q] EXCEPT !.pc = IF failed THEN "failed" ELSE "admitted"]
<1>1. request[q] \in Request /\ request \in [Requests -> Request]
  BY DEF TypeOK
<1>2. /\ request' = [request EXCEPT ![q] = n] /\ Is(q, "stamp", "insert")
      /\ stamps' = IF failed THEN stamps ELSE stamps \cup {request[q].at}
      /\ UNCHANGED <<now, last>>
  BY DEF InsertStamp, Become, Goto
<1>3. /\ n \in Request /\ n.kind = request[q].kind /\ n.before = request[q].before
      /\ n.at = request[q].at /\ n.secs = request[q].secs
      /\ n.pc = IF failed THEN "failed" ELSE "admitted"
  BY <1>1 DEF Request, Labels
<1> QED BY <1>1, <1>2, <1>3 DEF Frame, Same3

\* Every step keeps the types.
LEMMA NextType == TypeOK /\ HistoryInv /\ TablesInv /\ [Next]_vars => TypeOK'
<1> SUFFICES ASSUME TypeOK, HistoryInv, TablesInv, [Next]_vars PROVE TypeOK'
  OBVIOUS
<1>1. ASSUME Elapse PROVE TypeOK'
  BY <1>1, CooldownAssumption DEF Elapse, TypeOK, tables
<1>2. ASSUME Edit PROVE TypeOK'
  BY <1>2, CooldownAssumption DEF Edit, TypeOK
<1>3. ASSUME NEW q \in Requests, NEW kind \in {"jam", "stamp"}, Ask(q, kind)
      PROVE  TypeOK'
  BY <1>3, AskMoves DEF Frame, Ask, TypeOK, tables
<1>4. ASSUME NEW q \in Requests, NEW failed \in BOOLEAN, ReadOverride(q, failed)
      PROVE  TypeOK'
  BY <1>4, ReadOverrideMoves DEF Frame, ReadOverride, TypeOK, tables
<1>5. ASSUME NEW q \in Requests, NEW failed \in BOOLEAN, ReadBase(q, failed)
      PROVE  TypeOK'
  BY <1>5, ReadBaseMoves DEF Frame, ReadBase, TypeOK, tables
<1>6. ASSUME NEW q \in Requests, ReadClock(q) PROVE TypeOK'
  BY <1>6, ReadClockMoves DEF Frame, ReadClock, TypeOK, tables
<1>7. ASSUME NEW q \in Requests, Look(q) PROVE TypeOK'
  BY <1>7, LookMoves DEF Frame, Look, TypeOK, tables
<1>8. ASSUME NEW q \in Requests, Record(q) PROVE TypeOK'
  <2>1. request[q].at \in 0 .. MaxTime
    BY DEF TypeOK, Request
  <2> QED BY <1>8, <2>1, RecordMoves DEF Frame, Record, TypeOK, tables
<1>9. ASSUME NEW q \in Requests, NEW failed \in BOOLEAN, NewestStamp(q, failed)
      PROVE  TypeOK'
  <2>1. request[q].secs = StampLimit
    BY <1>9 DEF HistoryInv, KindsInv, NewestStamp, Is
  <2> QED BY <1>9, <2>1, NewestStampMoves DEF Frame, NewestStamp, TypeOK, tables
<1>10. ASSUME NEW q \in Requests, NEW failed \in BOOLEAN, InsertStamp(q, failed)
       PROVE  TypeOK'
  <2>1. request[q].at \in 0 .. MaxTime
    BY DEF TypeOK, Request
  <2> QED BY <1>10, <2>1, InsertStampMoves DEF Frame, InsertStamp, TypeOK, tables
<1>11. CASE UNCHANGED vars
  BY <1>11 DEF vars, tables, TypeOK
<1> QED
  BY <1>1, <1>2, <1>3, <1>4, <1>5, <1>6, <1>7, <1>8, <1>9, <1>10, <1>11
     DEF Next, Step

\* Every step keeps who may be where.
LEMMA NextKinds == TypeOK /\ KindsInv /\ TablesInv /\ [Next]_vars => KindsInv'
<1> SUFFICES ASSUME TypeOK, KindsInv, TablesInv, [Next]_vars PROVE KindsInv'
  OBVIOUS
<1> USE DEF KindsInv, Is, Frame, Same3, Over
<1>0. request \in [Requests -> Request] /\ \A q \in Requests : request[q].kind \in {"jam", "stamp"}
  BY DEF TypeOK, Request
<1>1. ASSUME Elapse PROVE KindsInv'
  BY <1>0, <1>1 DEF Elapse
<1>2. ASSUME Edit PROVE KindsInv'
  BY <1>2 DEF Edit
<1>3. ASSUME NEW q \in Requests, NEW kind \in {"jam", "stamp"}, Ask(q, kind)
      PROVE  KindsInv'
  BY <1>0, <1>3, AskMoves
<1>4. ASSUME NEW q \in Requests, NEW failed \in BOOLEAN, ReadOverride(q, failed)
      PROVE  KindsInv'
  BY <1>0, <1>4, ReadOverrideMoves
<1>5. ASSUME NEW q \in Requests, NEW failed \in BOOLEAN, ReadBase(q, failed)
      PROVE  KindsInv'
  BY <1>0, <1>5, ReadBaseMoves
<1>6. ASSUME NEW q \in Requests, ReadClock(q) PROVE KindsInv'
  BY <1>0, <1>6, ReadClockMoves
<1>7. ASSUME NEW q \in Requests, Look(q) PROVE KindsInv'
  BY <1>0, <1>7, LookMoves
<1>8. ASSUME NEW q \in Requests, Record(q) PROVE KindsInv'
  BY <1>0, <1>8, RecordMoves
<1>9. ASSUME NEW q \in Requests, NEW failed \in BOOLEAN, NewestStamp(q, failed)
      PROVE  KindsInv'
  <2>1. request[q].secs = StampLimit
    BY <1>9 DEF NewestStamp
  <2> QED BY <1>0, <1>9, <2>1, NewestStampMoves
<1>10. ASSUME NEW q \in Requests, NEW failed \in BOOLEAN, InsertStamp(q, failed)
       PROVE  KindsInv'
  BY <1>0, <1>10, InsertStampMoves
<1>11. CASE UNCHANGED vars
  BY <1>11 DEF vars
<1> QED
  BY <1>1, <1>2, <1>3, <1>4, <1>5, <1>6, <1>7, <1>8, <1>9, <1>10, <1>11
     DEF Next, Step

\* Every step keeps the past of a request.
LEMMA NextPast == TypeOK /\ KindsInv /\ PastInv /\ TablesInv /\ [Next]_vars => PastInv'
<1> SUFFICES ASSUME TypeOK, KindsInv, PastInv, TablesInv, [Next]_vars PROVE PastInv'
  OBVIOUS
<1> USE DEF PastInv, Is, Frame, Same3, Over, Timed, After
<1>0. /\ now \in Nat /\ request \in [Requests -> Request]
      /\ \A q \in Requests : request[q].at \in Nat
  BY NumbersOf DEF TypeOK
<1>1. ASSUME Elapse PROVE PastInv'
  BY <1>0, <1>1 DEF Elapse
<1>2. ASSUME Edit PROVE PastInv'
  BY <1>2 DEF Edit
<1>3. ASSUME NEW q \in Requests, NEW kind \in {"jam", "stamp"}, Ask(q, kind)
      PROVE  PastInv'
  BY <1>0, <1>3, AskMoves DEF Answered, Idle
<1>4. ASSUME NEW q \in Requests, NEW failed \in BOOLEAN, ReadOverride(q, failed)
      PROVE  PastInv'
  BY <1>0, <1>4, ReadOverrideMoves
<1>5. ASSUME NEW q \in Requests, NEW failed \in BOOLEAN, ReadBase(q, failed)
      PROVE  PastInv'
  BY <1>0, <1>5, ReadBaseMoves
<1>6. ASSUME NEW q \in Requests, ReadClock(q) PROVE PastInv'
  BY <1>0, <1>6, ReadClockMoves
<1>7. ASSUME NEW q \in Requests, Look(q) PROVE PastInv'
  BY <1>0, <1>7, LookMoves
<1>8. ASSUME NEW q \in Requests, Record(q) PROVE PastInv'
  BY <1>0, <1>8, RecordMoves
<1>9. ASSUME NEW q \in Requests, NEW failed \in BOOLEAN, NewestStamp(q, failed)
      PROVE  PastInv'
  <2>1. request[q].secs = StampLimit
    BY <1>9 DEF NewestStamp, KindsInv
  <2> QED BY <1>0, <1>9, <2>1, NewestStampMoves
<1>10. ASSUME NEW q \in Requests, NEW failed \in BOOLEAN, InsertStamp(q, failed)
       PROVE  PastInv'
  BY <1>0, <1>10, InsertStampMoves
<1>11. CASE UNCHANGED vars
  BY <1>11 DEF vars
<1> QED
  BY <1>1, <1>2, <1>3, <1>4, <1>5, <1>6, <1>7, <1>8, <1>9, <1>10, <1>11
     DEF Next, Step

\* What a request was asked for, and who was answered by then, is settled; so
\* two requests that overlap always do.
LEMMA NextAsked ==
  ASSUME TypeOK, KindsInv, TablesInv, [Next]_vars, NEW r \in Requests, request[r].pc # "idle"
  PROVE  /\ request'[r].pc # "idle" /\ request'[r].kind = request[r].kind
         /\ request'[r].before = request[r].before
         /\ Alone(r)' => Alone(r)
<1> DEFINE AskedKept ==
             \A b \in Requests : request[b].pc # "idle" =>
               /\ request'[b].pc # "idle" /\ request'[b].kind = request[b].kind
               /\ request'[b].before = request[b].before
<1>1. AskedKept
  <2> USE DEF Frame, Same3, Is
  <2>0. Idle.pc = "idle"
    BY DEF Idle
  <2>1. ASSUME Elapse PROVE AskedKept
    BY <2>0, <2>1 DEF Elapse
  <2>2. ASSUME Edit PROVE AskedKept
    BY <2>2 DEF Edit
  <2>3. ASSUME NEW q \in Requests, NEW kind \in {"jam", "stamp"}, Ask(q, kind)
        PROVE  AskedKept
    BY <2>0, <2>3, AskMoves
  <2>4. ASSUME NEW q \in Requests, NEW failed \in BOOLEAN, ReadOverride(q, failed)
        PROVE  AskedKept
    BY <2>0, <2>4, ReadOverrideMoves
  <2>5. ASSUME NEW q \in Requests, NEW failed \in BOOLEAN, ReadBase(q, failed)
        PROVE  AskedKept
    BY <2>0, <2>5, ReadBaseMoves
  <2>6. ASSUME NEW q \in Requests, ReadClock(q) PROVE AskedKept
    BY <2>0, <2>6, ReadClockMoves
  <2>7. ASSUME NEW q \in Requests, Look(q) PROVE AskedKept
    BY <2>0, <2>7, LookMoves
  <2>8. ASSUME NEW q \in Requests, Record(q) PROVE AskedKept
    BY <2>0, <2>8, RecordMoves
  <2>9. ASSUME NEW q \in Requests, NEW failed \in BOOLEAN, NewestStamp(q, failed)
        PROVE  AskedKept
    <3>1. request[q].secs = StampLimit
      BY <2>9 DEF NewestStamp, KindsInv
    <3> QED BY <2>0, <2>9, <3>1, NewestStampMoves
  <2>10. ASSUME NEW q \in Requests, NEW failed \in BOOLEAN, InsertStamp(q, failed)
         PROVE  AskedKept
    BY <2>0, <2>10, InsertStampMoves
  <2>11. CASE UNCHANGED vars
    BY <2>11 DEF vars
  <2> QED
    BY <2>1, <2>2, <2>3, <2>4, <2>5, <2>6, <2>7, <2>8, <2>9, <2>10, <2>11
       DEF Next, Step
<1>2. ASSUME Alone(r)', NEW b \in Requests PROVE ~Overlap(r, b)
  <2>1. ~Overlap(r, b)'
    BY <1>2 DEF Alone
  <2> QED BY <1>1, <2>1 DEF Overlap, Same, After
<1> QED BY <1>1, <1>2 DEF Alone

\* Every step keeps what the table of the jams holds.
LEMMA NextJams == TypeOK /\ KindsInv /\ PastInv /\ TablesInv /\ [Next]_vars => JamsInv'
<1> SUFFICES ASSUME TypeOK, KindsInv, PastInv, TablesInv, JamsInv, [Next]_vars PROVE JamsInv'
  BY DEF TablesInv
<1> USE DEF JamsInv, Is, Frame, Same3
<1>0. /\ now \in Nat /\ request \in [Requests -> Request] /\ Unset \notin Int
      /\ \A q \in Requests : request[q].at \in Nat /\ request[q].kind \in {"jam", "stamp"}
  BY NumbersOf, CooldownAssumption DEF TypeOK, Request
<1>a. \A r \in Requests : request[r].pc # "idle" => (Alone(r)' => Alone(r))
  BY NextAsked
<1>1. ASSUME Elapse PROVE JamsInv'
  BY <1>0, <1>a, <1>1 DEF Elapse
<1>2. ASSUME Edit PROVE JamsInv'
  BY <1>0, <1>a, <1>2 DEF Edit
<1>3. ASSUME NEW q \in Requests, NEW kind \in {"jam", "stamp"}, Ask(q, kind)
      PROVE  JamsInv'
  BY <1>0, <1>a, <1>3, IdleIs, AskMoves
<1>4. ASSUME NEW q \in Requests, NEW failed \in BOOLEAN, ReadOverride(q, failed)
      PROVE  JamsInv'
  BY <1>0, <1>a, <1>4, ReadOverrideMoves
<1>5. ASSUME NEW q \in Requests, NEW failed \in BOOLEAN, ReadBase(q, failed)
      PROVE  JamsInv'
  BY <1>0, <1>a, <1>5, ReadBaseMoves
<1>6. ASSUME NEW q \in Requests, ReadClock(q) PROVE JamsInv'
  BY <1>0, <1>a, <1>6, ReadClockMoves
<1>7. ASSUME NEW q \in Requests, Look(q) PROVE JamsInv'
  BY <1>0, <1>a, <1>7, LookMoves
<1>8. ASSUME NEW q \in Requests, Record(q) PROVE JamsInv'
  <2>1. /\ Frame(q) /\ Same3(q) /\ Is(q, "jam", "record") /\ request'[q].pc = "admitted"
        /\ last' = request[q].at
    BY <1>8, RecordMoves
  <2>2. last' # Unset /\ Is(q, "jam", "admitted")' /\ request'[q].at = last'
    BY <1>0, <2>1
  <2>3. ASSUME NEW a \in Requests, Is(a, "jam", "admitted")', Alone(a)'
        PROVE  last' >= request'[a].at
    <3>1. CASE a = q
      BY <1>0, <2>1, <3>1
    <3>2. CASE a # q
      <4>1. Is(a, "jam", "admitted") /\ Alone(a)
        BY <1>a, <2>1, <2>3, <3>2
      <4>2. ~After(a, q)
        BY <2>1 DEF PastInv, Over
      <4>3. After(q, a)
        BY <2>1, <3>2, <4>1, <4>2 DEF Alone, Overlap, Same
      <4>4. request[a].at <= request[q].at
        BY <2>1, <4>3 DEF PastInv, Timed
      <4> QED BY <2>1, <3>2, <4>4
    <3> QED BY <3>1, <3>2
  <2> QED BY <2>2, <2>3
<1>9. ASSUME NEW q \in Requests, NEW failed \in BOOLEAN, NewestStamp(q, failed)
      PROVE  JamsInv'
  <2>1. request[q].secs = StampLimit
    BY <1>9 DEF NewestStamp, KindsInv
  <2> QED BY <1>0, <1>a, <1>9, <2>1, NewestStampMoves
<1>10. ASSUME NEW q \in Requests, NEW failed \in BOOLEAN, InsertStamp(q, failed)
       PROVE  JamsInv'
  BY <1>0, <1>a, <1>10, InsertStampMoves
<1>11. CASE UNCHANGED vars
  BY <1>a, <1>11 DEF vars
<1> QED
  BY <1>1, <1>2, <1>3, <1>4, <1>5, <1>6, <1>7, <1>8, <1>9, <1>10, <1>11
     DEF Next, Step

\* Every step keeps what the table of the stamps holds.
LEMMA NextStamps == TypeOK /\ KindsInv /\ TablesInv /\ [Next]_vars => StampsInv'
<1> SUFFICES ASSUME TypeOK, KindsInv, TablesInv, StampsInv, [Next]_vars PROVE StampsInv'
  BY DEF TablesInv
<1> USE DEF StampsInv, Is, Frame, Same3
<1>0. /\ request \in [Requests -> Request] /\ \A s \in stamps : s \in Nat
      /\ \A q \in Requests : request[q].at \in Nat /\ request[q].kind \in {"jam", "stamp"}
  BY NumbersOf DEF TypeOK, Request
<1>1. ASSUME Elapse PROVE StampsInv'
  BY <1>0, <1>1 DEF Elapse
<1>2. ASSUME Edit PROVE StampsInv'
  BY <1>0, <1>2 DEF Edit
<1>3. ASSUME NEW q \in Requests, NEW kind \in {"jam", "stamp"}, Ask(q, kind)
      PROVE  StampsInv'
  BY <1>0, <1>3, AskMoves
<1>4. ASSUME NEW q \in Requests, NEW failed \in BOOLEAN, ReadOverride(q, failed)
      PROVE  StampsInv'
  BY <1>0, <1>4, ReadOverrideMoves
<1>5. ASSUME NEW q \in Requests, NEW failed \in BOOLEAN, ReadBase(q, failed)
      PROVE  StampsInv'
  BY <1>0, <1>5, ReadBaseMoves
<1>6. ASSUME NEW q \in Requests, ReadClock(q) PROVE StampsInv'
  BY <1>0, <1>6, ReadClockMoves
<1>7. ASSUME NEW q \in Requests, Look(q) PROVE StampsInv'
  BY <1>0, <1>7, LookMoves
<1>8. ASSUME NEW q \in Requests, Record(q) PROVE StampsInv'
  BY <1>0, <1>8, RecordMoves
<1>9. ASSUME NEW q \in Requests, NEW failed \in BOOLEAN, NewestStamp(q, failed)
      PROVE  StampsInv'
  <2>1. request[q].secs = StampLimit
    BY <1>9 DEF NewestStamp, KindsInv
  <2> QED BY <1>0, <1>9, <2>1, NewestStampMoves
<1>10. ASSUME NEW q \in Requests, NEW failed \in BOOLEAN, InsertStamp(q, failed)
       PROVE  StampsInv'
  <2>1. /\ Frame(q) /\ Same3(q) /\ Is(q, "stamp", "insert")
        /\ request'[q].pc = IF failed THEN "failed" ELSE "admitted"
        /\ stamps' = IF failed THEN stamps ELSE stamps \cup {request[q].at}
    BY <1>10, InsertStampMoves
  <2>2. \A a \in Requests : Is(a, "stamp", "admitted")' => request'[a].at \in stamps'
    BY <2>1
  <2>3. CASE failed \/ stamps = {}
    BY <1>0, <2>1, <2>2, <2>3
  <2>4. CASE ~failed /\ stamps # {}
    <3>1. PICK m \in stamps : \A s \in stamps : s <= m
      BY <2>4
    <3>2. \E n \in stamps' : \A s \in stamps' : s <= n
      <4>1. CASE m <= request[q].at
        BY <1>0, <2>1, <2>4, <3>1, <4>1
      <4>2. CASE ~(m <= request[q].at)
        BY <1>0, <2>1, <2>4, <3>1, <4>2
      <4> QED BY <4>1, <4>2
    <3> QED BY <2>2, <3>2
  <2> QED BY <2>3, <2>4
<1>11. CASE UNCHANGED vars
  BY <1>11 DEF vars
<1> QED
  BY <1>1, <1>2, <1>3, <1>4, <1>5, <1>6, <1>7, <1>8, <1>9, <1>10, <1>11
     DEF Next, Step

\* A step after which nobody has passed his check that had not before.
LEMMA PassedKept ==
  ASSUME TypeOK, KindsInv, PastInv, PassedInv,
         \A r \in Requests : request[r].pc # "idle" =>
           /\ request'[r].kind = request[r].kind /\ request'[r].before = request[r].before
           /\ Alone(r)' => Alone(r),
         NEW a \in Requests, NEW b \in Requests, Passed(a, b)',
         request[a].pc = "admitted" /\ request'[a].at = request[a].at,
         request[b].pc \in {"record", "insert", "admitted"},
         request'[b].at = request[b].at, request'[b].secs = request[b].secs
  PROVE  Distance(a, b)'
<1>1. Passed(a, b)
  BY DEF Passed, Same, After
<1> QED BY <1>1 DEF PassedInv, Distance

\* Every step keeps the distance of who has passed the check.
LEMMA NextPassed == TypeOK /\ HistoryInv /\ TablesInv /\ PassedInv /\ [Next]_vars => PassedInv'
<1> SUFFICES ASSUME TypeOK, KindsInv, PastInv, TablesInv, PassedInv, [Next]_vars,
                    NEW a \in Requests, NEW b \in Requests, Passed(a, b)'
             PROVE  Distance(a, b)'
  BY DEF HistoryInv, PassedInv
<1>0. /\ {request[a].at, request[b].at, request[b].secs} \subseteq Nat
      /\ {request[a].kind, request[b].kind} \subseteq {"jam", "stamp"}
  BY NumbersOf DEF TypeOK, Request
<1>a. \A r \in Requests : request[r].pc # "idle" =>
        /\ request'[r].kind = request[r].kind /\ request'[r].before = request[r].before
        /\ Alone(r)' => Alone(r)
  BY NextAsked
<1> DEFINE Ready == /\ request[a].pc = "admitted" /\ request'[a].at = request[a].at
                    /\ request[b].pc \in {"record", "insert", "admitted"}
                    /\ request'[b].at = request[b].at /\ request'[b].secs = request[b].secs
<1>b. Ready => Distance(a, b)'
  BY <1>a, PassedKept
<1>c. /\ request'[a].pc = "admitted" /\ request'[b].pc \in {"record", "insert", "admitted"}
      /\ a # b /\ request'[a].kind = request'[b].kind
      /\ request[b].pc # "idle" => request[a].pc \in Over /\ After(b, a)
      /\ request[a].pc = "admitted" /\ request[b].pc # "idle" =>
           /\ Same(a, b) /\ (request[a].kind = "jam" => Alone(a))
  BY <1>a DEF Passed, Same, After, PastInv
<1> USE DEF Frame, Same3, Is
<1>1. ASSUME Elapse PROVE Distance(a, b)'
  BY <1>b, <1>c, <1>1 DEF Elapse
<1>2. ASSUME Edit PROVE Distance(a, b)'
  BY <1>b, <1>c, <1>2 DEF Edit
<1>3. ASSUME NEW q \in Requests, NEW kind \in {"jam", "stamp"}, Ask(q, kind)
      PROVE  Distance(a, b)'
  <2>1. b # q
    BY <1>c, <1>3, AskMoves
  <2>2. request[b].pc # "idle" /\ a # q
    BY <1>c, <1>3, <2>1, IdleIs, AskMoves
  <2> QED BY <1>b, <1>c, <1>3, <2>1, <2>2, AskMoves DEF Over
<1>4. ASSUME NEW q \in Requests, NEW failed \in BOOLEAN, ReadOverride(q, failed)
      PROVE  Distance(a, b)'
  BY <1>b, <1>c, <1>4, ReadOverrideMoves DEF Over
<1>5. ASSUME NEW q \in Requests, NEW failed \in BOOLEAN, ReadBase(q, failed)
      PROVE  Distance(a, b)'
  BY <1>b, <1>c, <1>5, ReadBaseMoves DEF Over
<1>6. ASSUME NEW q \in Requests, ReadClock(q) PROVE Distance(a, b)'
  <2>1. CASE b = q
    BY <1>0, <1>c, <1>6, <2>1, ReadClockMoves DEF Distance
  <2>2. CASE b # q
    BY <1>b, <1>c, <1>6, <2>2, ReadClockMoves DEF Over
  <2> QED BY <2>1, <2>2
<1>7. ASSUME NEW q \in Requests, Look(q) PROVE Distance(a, b)'
  <2>1. CASE b = q
    <3> DEFINE limit == request[q].secs * Second
    <3>1. /\ Frame(q) /\ Same3(q) /\ Is(q, "jam", "look") /\ request'[q].secs = request[q].secs
          /\ last = Unset \/ Elapsed(q) >= limit
      BY <1>c, <1>7, <2>1, LookMoves
    <3>2. request[a].pc = "admitted" /\ request'[a].at = request[a].at
      BY <1>c, <2>1, <3>1
    <3>3. Is(a, "jam", "admitted") /\ Alone(a)
      BY <1>c, <2>1, <3>1, <3>2 DEF Same
    <3>4. last # Unset /\ last >= request[a].at /\ Elapsed(q) >= limit
      BY <3>1, <3>3 DEF TablesInv, JamsInv
    <3>5. last \in Nat /\ limit \in Nat /\ (request[q].secs # 0 => limit > 0)
      BY <1>0, <2>1, <3>4, Bounds DEF TypeOK
    <3>6. request[q].secs = 0 \/ request[q].at - request[a].at >= limit
      BY <1>0, <2>1, <3>4, <3>5 DEF Elapsed
    <3> QED BY <2>1, <3>1, <3>2, <3>6 DEF Distance
  <2>2. CASE b # q
    BY <1>b, <1>c, <1>7, <2>2, LookMoves DEF Over
  <2> QED BY <2>1, <2>2
<1>8. ASSUME NEW q \in Requests, Record(q) PROVE Distance(a, b)'
  BY <1>b, <1>c, <1>8, RecordMoves DEF Over
<1>9. ASSUME NEW q \in Requests, NEW failed \in BOOLEAN, NewestStamp(q, failed)
      PROVE  Distance(a, b)'
  <2>0. request[q].secs = StampLimit
    BY <1>9 DEF NewestStamp, KindsInv
  <2>1. CASE b = q
    <3>1. /\ Frame(q) /\ Same3(q) /\ Is(q, "stamp", "newest")
          /\ \/ request'[q].secs = 0
             \/ /\ request'[q].secs = request[q].secs
                /\ \A s \in stamps : request[q].at - s >= StampLimit * Second
      BY <1>c, <1>9, <2>0, <2>1, NewestStampMoves
    <3>2. request[a].pc = "admitted" /\ request'[a].at = request[a].at
      BY <1>c, <2>1, <3>1
    <3>3. request[a].at \in stamps
      BY <1>c, <2>1, <3>1, <3>2 DEF Same, TablesInv, StampsInv
    <3> QED BY <2>0, <2>1, <3>1, <3>2, <3>3 DEF Distance
  <2>2. CASE b # q
    BY <1>b, <1>c, <1>9, <2>0, <2>2, NewestStampMoves DEF Over
  <2> QED BY <2>1, <2>2
<1>10. ASSUME NEW q \in Requests, NEW failed \in BOOLEAN, InsertStamp(q, failed)
       PROVE  Distance(a, b)'
  BY <1>b, <1>c, <1>10, InsertStampMoves DEF Over
<1>11. CASE UNCHANGED vars
  BY <1>b, <1>c, <1>11 DEF vars
<1> QED
  BY <1>1, <1>2, <1>3, <1>4, <1>5, <1>6, <1>7, <1>8, <1>9, <1>10, <1>11
     DEF Next, Step

\* Who is overtaken stays so.
LEMMA OvertakenKept ==
  ASSUME TypeOK, KindsInv, TablesInv, [Next]_vars, NEW a \in Requests,
         request[a].pc = "refused", Overtaken(a),
         \A c \in Requests : request[c].pc = "admitted" => request'[c].pc = "admitted"
  PROVE  Overtaken(a)'
<1>1. PICK c \in Requests : Same(a, c) /\ ~After(a, c) /\ request[c].pc = "admitted"
  BY DEF Overtaken
<1>2. /\ request'[a].kind = request[a].kind /\ request'[a].before = request[a].before
      /\ request'[c].kind = request[c].kind /\ request'[c].pc = "admitted"
  BY <1>1, NextAsked
<1> QED BY <1>1, <1>2 DEF Overtaken, Same, After

\* Who was answered keeps his answer.
LEMMA AnswersKept ==
  ASSUME TypeOK, KindsInv, TablesInv, [Next]_vars, NEW r \in Requests, request[r].pc \in Over
  PROVE  request'[r] = request[r]
<1> USE DEF Frame, Is, Over
<1>1. ASSUME Elapse PROVE request'[r] = request[r]
  BY <1>1 DEF Elapse
<1>2. ASSUME Edit PROVE request'[r] = request[r]
  BY <1>2 DEF Edit
<1>3. ASSUME NEW q \in Requests, NEW kind \in {"jam", "stamp"}, Ask(q, kind)
      PROVE  request'[r] = request[r]
  BY <1>3, AskMoves, IdleIs
<1>4. ASSUME NEW q \in Requests, NEW failed \in BOOLEAN, ReadOverride(q, failed)
      PROVE  request'[r] = request[r]
  BY <1>4, ReadOverrideMoves
<1>5. ASSUME NEW q \in Requests, NEW failed \in BOOLEAN, ReadBase(q, failed)
      PROVE  request'[r] = request[r]
  BY <1>5, ReadBaseMoves
<1>6. ASSUME NEW q \in Requests, ReadClock(q) PROVE request'[r] = request[r]
  BY <1>6, ReadClockMoves
<1>7. ASSUME NEW q \in Requests, Look(q) PROVE request'[r] = request[r]
  BY <1>7, LookMoves
<1>8. ASSUME NEW q \in Requests, Record(q) PROVE request'[r] = request[r]
  BY <1>8, RecordMoves
<1>9. ASSUME NEW q \in Requests, NEW failed \in BOOLEAN, NewestStamp(q, failed)
      PROVE  request'[r] = request[r]
  <2>1. request[q].secs = StampLimit
    BY <1>9 DEF NewestStamp, KindsInv
  <2> QED BY <1>9, <2>1, NewestStampMoves
<1>10. ASSUME NEW q \in Requests, NEW failed \in BOOLEAN, InsertStamp(q, failed)
       PROVE  request'[r] = request[r]
  BY <1>10, InsertStampMoves
<1>11. CASE UNCHANGED vars
  BY <1>11 DEF vars
<1> QED
  BY <1>1, <1>2, <1>3, <1>4, <1>5, <1>6, <1>7, <1>8, <1>9, <1>10, <1>11
     DEF Next, Step

\* Every step keeps how far the told times reach.
LEMMA NextWait ==
  TypeOK /\ KindsInv /\ PastInv /\ TablesInv /\ WaitInv /\ [Next]_vars => WaitInv'
<1> SUFFICES ASSUME TypeOK, KindsInv, PastInv, TablesInv, WaitInv, [Next]_vars,
                    NEW a \in Requests, request'[a].pc = "refused", ~Overtaken(a)'
             PROVE  Covers(a)'
  BY DEF WaitInv
<1>0. /\ {request[a].at, request[a].told, request[a].secs} \subseteq Nat
      /\ request[a].kind \in {"jam", "stamp"} /\ Second \in Nat \ {0}
      /\ last # Unset => last \in Nat
  <2>1. request[a].kind \in {"jam", "stamp"} /\ (last # Unset => last \in Nat)
    BY DEF TypeOK, Request
  <2> QED BY <2>1, NumbersOf, Bounds DEF TypeOK
<1>a. request[a].pc = "refused" => request'[a] = request[a] /\ Covers(a)
  BY AnswersKept, OvertakenKept DEF WaitInv, Over
<1>b. request[a].pc = "refused" /\ last' = last /\ stamps' = stamps => Covers(a)'
  BY <1>a DEF Covers, Told
<1> USE DEF Frame, Same3, Is
<1>1. ASSUME Elapse PROVE Covers(a)'
  BY <1>b, <1>1 DEF Elapse
<1>2. ASSUME Edit PROVE Covers(a)'
  BY <1>b, <1>2 DEF Edit
<1>3. ASSUME NEW q \in Requests, NEW kind \in {"jam", "stamp"}, Ask(q, kind)
      PROVE  Covers(a)'
  BY <1>b, <1>3, AskMoves
<1>4. ASSUME NEW q \in Requests, NEW failed \in BOOLEAN, ReadOverride(q, failed)
      PROVE  Covers(a)'
  BY <1>b, <1>4, ReadOverrideMoves
<1>5. ASSUME NEW q \in Requests, NEW failed \in BOOLEAN, ReadBase(q, failed)
      PROVE  Covers(a)'
  BY <1>b, <1>5, ReadBaseMoves
<1>6. ASSUME NEW q \in Requests, ReadClock(q) PROVE Covers(a)'
  BY <1>b, <1>6, ReadClockMoves
<1>7. ASSUME NEW q \in Requests, Look(q) PROVE Covers(a)'
  <2>1. CASE a = q
    <3> DEFINE limit == request[q].secs * Second
    <3>1. /\ Frame(q) /\ Same3(q) /\ Is(q, "jam", "look") /\ request'[q].secs = request[q].secs
          /\ last # Unset /\ Elapsed(q) < limit /\ UNCHANGED <<last, stamps>>
          /\ request'[q].told * Second > limit - Elapsed(q)
      BY <1>7, <2>1, LookMoves
    <3>2. request'[q].told \in Nat /\ limit \in Nat
      BY <1>0, <2>1, <3>1, NumbersOf, Bounds
    <3>3. CASE request[q].at < last
      <4>1. PICK c \in Requests : Is(c, "jam", "admitted") /\ request[c].at = last
        BY <3>1 DEF TablesInv, JamsInv
      <4>2. c # q /\ request'[c] = request[c]
        BY <3>1, <4>1
      <4>3. ~After(q, c)
        BY <1>0, <2>1, <3>1, <3>3, <4>1 DEF PastInv, Timed
      <4>4. Same(q, c)' /\ ~After(q, c)' /\ request'[c].pc = "admitted"
        BY <3>1, <4>1, <4>2, <4>3 DEF Same, After
      <4> QED BY <2>1, <4>4 DEF Overtaken
    <3>4. CASE ~(request[q].at < last)
      <4>1. request'[q].told * Second > limit - (request[q].at - last)
        BY <3>1, <3>4 DEF Elapsed
      <4> QED BY <1>0, <2>1, <3>1, <3>2, <4>1 DEF Covers, Told
    <3> QED BY <3>3, <3>4
  <2>2. CASE a # q
    BY <1>b, <1>7, <2>2, LookMoves
  <2> QED BY <2>1, <2>2
<1>8. ASSUME NEW q \in Requests, Record(q) PROVE Covers(a)'
  <2>1. /\ Frame(q) /\ Same3(q) /\ Is(q, "jam", "record") /\ request'[q].pc = "admitted"
        /\ stamps' = stamps
    BY <1>8, RecordMoves
  <2>2. a # q /\ request[a].pc = "refused"
    BY <2>1
  <2>3. ~After(a, q)
    BY <2>1 DEF PastInv, Over
  <2>4. request[a].kind # "jam"
    <3>1. request[a].kind = "jam" => Same(a, q)' /\ ~After(a, q)'
      BY <2>1, <2>2, <2>3 DEF Same, After
    <3> QED BY <2>1, <3>1 DEF Overtaken
  <2> QED BY <1>a, <2>1, <2>2, <2>4 DEF Covers, Told
<1>9. ASSUME NEW q \in Requests, NEW failed \in BOOLEAN, NewestStamp(q, failed)
      PROVE  Covers(a)'
  <2>0. request[q].secs = StampLimit
    BY <1>9 DEF NewestStamp, KindsInv
  <2>1. CASE a = q
    <3>1. /\ Frame(q) /\ Same3(q) /\ Is(q, "stamp", "newest") /\ UNCHANGED <<last, stamps>>
          /\ \A s \in stamps :
               request[q].at + request'[q].told * Second >= s + StampLimit * Second
      BY <1>9, <2>0, <2>1, NewestStampMoves
    <3> QED BY <2>1, <3>1 DEF Covers, Told
  <2>2. CASE a # q
    BY <1>b, <1>9, <2>0, <2>2, NewestStampMoves
  <2> QED BY <2>1, <2>2
<1>10. ASSUME NEW q \in Requests, NEW failed \in BOOLEAN, InsertStamp(q, failed)
       PROVE  Covers(a)'
  <2>1. /\ Frame(q) /\ Same3(q) /\ Is(q, "stamp", "insert") /\ last' = last
        /\ request'[q].pc = IF failed THEN "failed" ELSE "admitted"
        /\ failed => stamps' = stamps
    BY <1>10, InsertStampMoves
  <2>2. a # q /\ request[a].pc = "refused"
    BY <2>1
  <2>3. CASE failed
    BY <1>b, <2>1, <2>2, <2>3
  <2>4. CASE ~failed
    <3>1. ~After(a, q)
      BY <2>1 DEF PastInv, Over
    <3>2. request[a].kind = "stamp" => Same(a, q)' /\ ~After(a, q)'
      BY <2>1, <2>2, <3>1 DEF Same, After
    <3>3. request[a].kind # "stamp"
      BY <2>1, <2>4, <3>2 DEF Overtaken
    <3> QED BY <1>a, <2>1, <2>2, <3>3 DEF Covers, Told
  <2> QED BY <2>3, <2>4
<1>11. CASE UNCHANGED vars
  BY <1>b, <1>11 DEF vars
<1> QED
  BY <1>1, <1>2, <1>3, <1>4, <1>5, <1>6, <1>7, <1>8, <1>9, <1>10, <1>11
     DEF Next, Step

\* Nobody is refused whose told time is over, unless he was overtaken.
LEMMA NextWaitIsEnough ==
  /\ TypeOK /\ KindsInv /\ PastInv /\ TablesInv /\ WaitInv /\ WaitIsEnough /\ [Next]_vars
  => WaitIsEnough'
<1> DEFINE Patient(a, b) ==
      /\ Same(a, b) /\ After(b, a)
      /\ request[a].pc = "refused" /\ request[b].pc = "refused"
      /\ request[a].secs = request[b].secs
      /\ request[b].at >= request[a].at + request[a].told * Second
<1> SUFFICES ASSUME TypeOK, KindsInv, PastInv, TablesInv, WaitInv, WaitIsEnough, [Next]_vars,
                    NEW a \in Requests, NEW b \in Requests, Patient(a, b)', ~Overtaken(a)'
             PROVE  FALSE
  BY DEF WaitIsEnough, Overtaken
<1>0. /\ {request[a].at, request[a].told, request[a].secs} \subseteq Nat
      /\ request[a].kind \in {"jam", "stamp"} /\ Second \in Nat \ {0}
      /\ last # Unset => last \in Nat
  <2>1. request[a].kind \in {"jam", "stamp"} /\ (last # Unset => last \in Nat)
    BY DEF TypeOK, Request
  <2> QED BY <2>1, NumbersOf, Bounds DEF TypeOK
<1>1. request[b].pc # "refused"
  <2> SUFFICES ASSUME request[b].pc = "refused" PROVE FALSE
    OBVIOUS
  <2>1. request'[b] = request[b]
    BY AnswersKept DEF Over
  <2>2. request[a].pc \in Over
    BY <2>1 DEF PastInv, After
  <2>3. request'[a] = request[a]
    BY <2>2, AnswersKept
  <2>4. Overtaken(a)
    BY <2>1, <2>3 DEF WaitIsEnough, Overtaken, Same, After
  <2> QED BY <2>3, <2>4, OvertakenKept, AnswersKept DEF Over
<1>2. /\ After(b, a) /\ request[b].pc # "idle" => /\ request[a].pc = "refused" /\ Covers(a)
                                                  /\ request'[a] = request[a]
  <2> SUFFICES ASSUME After(b, a), request[b].pc # "idle"
               PROVE  request[a].pc = "refused" /\ Covers(a) /\ request'[a] = request[a]
    OBVIOUS
  <2>1. request[a].pc \in Over
    BY DEF PastInv
  <2>2. request'[a] = request[a] /\ request[a].pc = "refused"
    BY <2>1, AnswersKept
  <2>3. ~Overtaken(a)
    BY <2>2, OvertakenKept, AnswersKept DEF Over
  <2> QED BY <2>2, <2>3 DEF WaitInv
<1> USE DEF Frame, Same3, Is
<1>3. ASSUME Elapse PROVE FALSE
  BY <1>1, <1>3 DEF Elapse
<1>4. ASSUME Edit PROVE FALSE
  BY <1>1, <1>4 DEF Edit
<1>5. ASSUME NEW q \in Requests, NEW kind \in {"jam", "stamp"}, Ask(q, kind)
      PROVE  FALSE
  BY <1>1, <1>5, AskMoves
<1>6. ASSUME NEW q \in Requests, NEW failed \in BOOLEAN, ReadOverride(q, failed)
      PROVE  FALSE
  BY <1>1, <1>6, ReadOverrideMoves
<1>7. ASSUME NEW q \in Requests, NEW failed \in BOOLEAN, ReadBase(q, failed)
      PROVE  FALSE
  BY <1>1, <1>7, ReadBaseMoves
<1>8. ASSUME NEW q \in Requests, ReadClock(q) PROVE FALSE
  BY <1>1, <1>8, ReadClockMoves
<1>9. ASSUME NEW q \in Requests, Look(q) PROVE FALSE
  <2>1. b = q
    BY <1>1, <1>9, LookMoves
  <2>2. /\ Same3(q) /\ Is(q, "jam", "look") /\ request'[q].secs = request[q].secs
        /\ last # Unset /\ Elapsed(q) < request[q].secs * Second
    BY <1>9, <2>1, LookMoves
  <2>3. /\ request[a].pc = "refused" /\ Covers(a) /\ request'[a] = request[a]
        /\ request[a].kind = "jam"
    BY <1>2, <2>1, <2>2 DEF After, Same
  <2>4. last \in Nat /\ request[q].at >= Told(a) /\ request[a].secs = request[q].secs
    BY <1>0, <2>1, <2>2, <2>3 DEF Told
  <2>5. Told(a) > last + request[q].secs * Second
    BY <2>3, <2>4 DEF Covers
  <2>6. request[q].at \in Nat /\ request[q].secs * Second \in Nat /\ Told(a) \in Nat
    BY <1>0, <2>4, NumbersOf DEF TypeOK, Told
  <2> QED BY <2>2, <2>4, <2>5, <2>6 DEF Elapsed
<1>10. ASSUME NEW q \in Requests, Record(q) PROVE FALSE
  BY <1>1, <1>10, RecordMoves
<1>11. ASSUME NEW q \in Requests, NEW failed \in BOOLEAN, NewestStamp(q, failed)
       PROVE  FALSE
  <2>0. request[q].secs = StampLimit
    BY <1>11 DEF NewestStamp, KindsInv
  <2>1. b = q
    BY <1>1, <1>11, <2>0, NewestStampMoves
  <2>2. Same3(q) /\ Is(q, "stamp", "newest")
    BY <1>11, <2>0, NewestStampMoves
  <2>3. PICK s \in stamps : request[q].at - s < StampLimit * Second
    BY <1>11, <2>0, <2>1, NewestStampMoves
  <2>4. /\ request[a].pc = "refused" /\ Covers(a) /\ request'[a] = request[a]
        /\ request[a].kind = "stamp"
    BY <1>2, <2>1, <2>2 DEF After, Same
  <2>5. request[q].at >= Told(a)
    BY <2>1, <2>2, <2>4 DEF Told
  <2>6. Told(a) >= s + StampLimit * Second
    BY <2>4 DEF Covers
  <2>7. /\ request[q].at \in Nat /\ StampLimit * Second \in Nat /\ Told(a) \in Nat
        /\ s \in Nat
    BY <1>0, NumbersOf, Bounds DEF TypeOK, Told
  <2> QED BY <2>3, <2>5, <2>6, <2>7
<1>12. ASSUME NEW q \in Requests, NEW failed \in BOOLEAN, InsertStamp(q, failed)
       PROVE  FALSE
  BY <1>1, <1>12, InsertStampMoves
<1>13. CASE UNCHANGED vars
  BY <1>1, <1>13 DEF vars
<1> QED
  BY <1>3, <1>4, <1>5, <1>6, <1>7, <1>8, <1>9, <1>10, <1>11, <1>12, <1>13
     DEF Next, Step

LEMMA CooldownsInvInductive ==
  /\ Init => CooldownsInv
  /\ CooldownsInv /\ [Next]_vars => CooldownsInv'
<1>1. CooldownsInv /\ [Next]_vars => TypeOK' /\ HistoryInv' /\ TablesInv'
  BY NextType, NextKinds, NextPast, NextJams, NextStamps
     DEF CooldownsInv, HistoryInv, TablesInv
<1>2. CooldownsInv /\ [Next]_vars => PassedInv' /\ WaitInv' /\ WaitIsEnough'
  BY NextPassed, NextWait, NextWaitIsEnough DEF CooldownsInv, HistoryInv
<1> QED BY <1>1, <1>2, InitCooldowns DEF CooldownsInv

\* Every variable keeps its type; in particular nobody is told to wait a
\* negative time, however many stamps were inserted since he read the clock.
THEOREM CooldownsTypeCorrect == Spec => []TypeOK
<1>1. CooldownsInv => TypeOK
  BY DEF CooldownsInv
<1> QED BY <1>1, CooldownsInvInductive, PTL DEF Spec

\* Two requests one of which was answered before the other was asked are never
\* admitted closer together than the limit, although the tables are read and
\* written in two steps.
THEOREM CooldownKeptHolds == Spec => []CooldownKept
<1>1. CooldownsInv => CooldownKept
  BY DEF CooldownsInv, PassedInv, Passed, Distance, CooldownKept
<1> QED BY <1>1, CooldownsInvInductive, PTL DEF Spec

\* Who comes back when the time he was told is over is not refused, unless
\* another was admitted meanwhile.
THEOREM WaitIsEnoughHolds == Spec => []WaitIsEnough
<1>1. CooldownsInv => WaitIsEnough
  BY DEF CooldownsInv
<1> QED BY <1>1, CooldownsInvInductive, PTL DEF Spec
====
