---- MODULE RuntimeDrain ----
(***************************************************************************)
(* How one bot process drains and exits: RuntimeState (runtime.rs), the    *)
(* shutdown task and the end of main (main.rs), the Admin service          *)
(* (grpc/admin.rs), the heartbeat of bot_instances (deployment.rs) and, of *)
(* the voice code, what the drain waits for: calls that join and leave     *)
(* (events/voice.rs).                                                      *)
(*                                                                         *)
(* The tasks run on a multi-threaded runtime, so every atomic operation,   *)
(* and every statement the database executes, is a step of its own.        *)
(* tokio's Notify wakes the waiters registered when notify_waiters runs,   *)
(* and keeps nothing for one that registers later.                         *)
(***************************************************************************)
EXTENDS Naturals

CONSTANTS
  Requests,     \* bound: calls of the Admin service, each made at most once
  Connects,     \* bound: calls of connect_to_voice_channel
  Guilds,       \* the guilds with a voice call
  MaxStreams,   \* bound: dashboard streams clients have open
  Faults,       \* may a statement of the heartbeat fail?
  NoGuild

ASSUME StreamsAssumption == MaxStreams \in Nat
ASSUME FaultsAssumption == Faults \in BOOLEAN
ASSUME GuildAssumption == NoGuild \notin Guilds
ASSUME TaskAssumption ==
  /\ Requests \cap Connects = {}
  /\ {"main", "heartbeat"} \cap (Requests \cup Connects) = {}

VARIABLES
  flags,     \* which of RuntimeState's three AtomicBools are set
  waiter,    \* the shutdown task's Notified: none, registered or notified
  signal,    \* has a SIGTERM or ctrl-c arrived?
  deadline,  \* of the drain: off, running or passed; none if not configured
  calls,     \* guilds for which songbird's manager has a Call
  streams,   \* dashboard streams open
  server,    \* is the gRPC server serving or stopping?
  instance,  \* bot_instances.state, "none" without a row
  pc,        \* what each task does next
  asks,      \* the Admin method a request called
  read,      \* the role a heartbeat has bound to its upsert, none otherwise
  guild      \* the guild a connect is for

wakeup == <<waiter, signal, deadline>>
voice  == <<calls, guild>>
grpc   == <<streams, server>>
vars   == <<flags, wakeup, voice, grpc, instance, pc, asks, read>>

draining  == "draining" \in flags
whenEmpty == "shutdown_when_empty" \in flags
force     == "force_shutdown" \in flags

----
Main      == "main"        \* the shutdown task, then the end of main
Heartbeat == "heartbeat"
Services  == Requests \cup {Main}           \* run start_drain and a heartbeat
Writers   == Services \cup {Heartbeat}      \* write bot_instances
Tasks     == Writers \cup Connects

Methods == {"start_drain", "shutdown_when_empty", "force_shutdown"}
Labels  == {"off", "check", "register", "wait", "woken", "swap", "arm", "notify",
            "force", "notify_again", "role", "upsert", "poll", "count", "sleep",
            "stop", "tell", "join", "mark", "return", "exited",
            "tick", "look", "insert", "joining", "done"}

Running == pc[Main] # "exited"

\* The shutdown task waits for the calls to end; it has left that loop; the
\* gateway is closed as well.
Draining   == pc[Main] \in {"poll", "count", "sleep"}
ShardsDown == pc[Main] \in {"tell", "join", "mark", "return", "exited"}
DrainOver  == pc[Main] = "stop" \/ ShardsDown

Goto(t, label) == pc' = [pc EXCEPT ![t] = label]

Role == IF draining THEN "draining" ELSE "active"

\* After main's upsert_instance, which leaves the row of an earlier process if
\* it fails; the shutdown task is about to start.  BOT_ROLE may be drain, and
\* DRAIN_TIMEOUT_SECONDS may be 0: no deadline.
Init ==
  /\ flags \in {{}, {"draining", "shutdown_when_empty"}}
  /\ waiter = "none"
  /\ signal = "none"
  /\ deadline \in {"off", "none"}
  /\ calls = {}
  /\ streams = 0
  /\ server = "serving"
  /\ instance \in {Role} \cup IF Faults THEN {"none", "active", "draining", "stopped"} ELSE {}
  /\ pc = [t \in Tasks |-> CASE t = Main -> "check"
                             [] t = Heartbeat -> "tick"
                             [] OTHER -> "off"]
  /\ asks = [t \in Services |-> "shutdown_when_empty"]
  /\ read = [t \in Writers |-> "none"]
  /\ guild = [c \in Connects |-> NoGuild]

----
(***************************************************************************)
(* start_drain and force_shutdown.                                         *)
(***************************************************************************)

\* A client calls a method of the Admin service.
Arrive(r, method) ==
  /\ pc[r] = "off"
  /\ server = "serving"
  /\ asks' = [asks EXCEPT ![r] = method]
  /\ Goto(r, "swap")
  /\ UNCHANGED <<flags, wakeup, voice, grpc, instance, read>>

SwapForDrainOnly(t) ==
  /\ pc[t] = "swap"
  /\ flags' = IF asks[t] = "start_drain" THEN flags \cup {"draining"} ELSE flags
  /\ \/ asks[t] = "start_drain" /\ Goto(t, "notify")
     \/ asks[t] # "start_drain" /\ Goto(t, "arm")
  /\ UNCHANGED <<wakeup, voice, grpc, instance, asks, read>>
SwapDraining(t) ==
  /\ pc[t] = "swap"
  /\ flags' = flags \cup {"draining"}
  /\ \/ asks[t] = "start_drain" /\ Goto(t, "notify")
     \/ asks[t] # "start_drain" /\ Goto(t, "arm")
  /\ UNCHANGED <<wakeup, voice, grpc, instance, asks, read>>

Arm(t) ==
  /\ pc[t] = "arm"
  /\ flags' = flags \cup {"shutdown_when_empty"}
  /\ Goto(t, "notify")
  /\ UNCHANGED <<wakeup, voice, grpc, instance, asks, read>>

\* notify_waiters: only a waiter that is registered hears it.
WakeWaiter == waiter' = IF waiter = "registered" THEN "notified" ELSE waiter

NotifyWaiters(t) ==
  /\ pc[t] = "notify"
  /\ WakeWaiter
  /\ Goto(t, IF asks[t] = "force_shutdown" THEN "force" ELSE "role")
  /\ UNCHANGED <<flags, signal, deadline, voice, grpc, instance, asks, read>>

SetForce(t) ==
  /\ pc[t] = "force"
  /\ flags' = flags \cup {"force_shutdown"}
  /\ Goto(t, "notify_again")
  /\ UNCHANGED <<wakeup, voice, grpc, instance, asks, read>>

NotifyAgain(t) ==
  /\ pc[t] = "notify_again"
  /\ WakeWaiter
  /\ Goto(t, "role")
  /\ UNCHANGED <<flags, signal, deadline, voice, grpc, instance, asks, read>>

----
(***************************************************************************)
(* The heartbeat: of its own task every ten seconds, of a request after    *)
(* start_drain, and of the shutdown task before it waits for the calls.    *)
(***************************************************************************)

\* The role is bound to the statement before the statement is sent.
ReadActive(t) ==
  /\ pc[t] \in {"role", "tick"}
  /\ read' = [read EXCEPT ![t] = "active"]
  /\ Goto(t, "upsert")
  /\ UNCHANGED <<flags, wakeup, voice, grpc, instance, asks>>
ReadRole(t) ==
  /\ pc[t] \in {"role", "tick"}
  /\ read' = [read EXCEPT ![t] = Role]
  /\ Goto(t, "upsert")
  /\ UNCHANGED <<flags, wakeup, voice, grpc, instance, asks>>

\* What a task does after its heartbeat.
After(t) == CASE t = Main -> "poll" [] t = Heartbeat -> "tick" [] OTHER -> "done"

\* upsert_instance; its failure is only logged.
Upsert(t) ==
  /\ pc[t] = "upsert"
  /\ \/ instance' = read[t]
     \/ Faults /\ UNCHANGED instance
  /\ deadline' = IF t = Main /\ deadline = "off" THEN "running" ELSE deadline
  /\ read' = [read EXCEPT ![t] = "none"]
  /\ Goto(t, After(t))
  /\ UNCHANGED <<flags, waiter, signal, voice, grpc, asks>>

----
(***************************************************************************)
(* The shutdown task.                                                      *)
(***************************************************************************)

\* An instance that starts as drain does not wait to be told.
CheckArmed ==
  /\ pc[Main] = "check"
  /\ Goto(Main, IF whenEmpty THEN "swap" ELSE "register")
  /\ UNCHANGED <<flags, wakeup, voice, grpc, instance, asks, read>>

RegisterWaiter ==
  /\ pc[Main] = "register"
  /\ waiter' = "registered"
  /\ Goto(Main, "wait")
  /\ UNCHANGED <<flags, signal, deadline, voice, grpc, instance, asks, read>>

\* select!: the notification arrives; it is consumed before the flag is read.
Notified ==
  /\ pc[Main] = "wait"
  /\ waiter = "notified"
  /\ waiter' = "none"
  /\ Goto(Main, "woken")
  /\ UNCHANGED <<flags, signal, deadline, voice, grpc, instance, asks, read>>

\* select!: SIGTERM, which stays pending until it is read, or ctrl-c.
SignalTaken ==
  /\ pc[Main] = "wait"
  /\ signal = "pending"
  /\ waiter' = "none"
  /\ Goto(Main, "swap")
  /\ UNCHANGED <<flags, signal, deadline, voice, grpc, instance, asks, read>>

RecheckArmed ==
  /\ pc[Main] = "woken"
  /\ Goto(Main, IF whenEmpty THEN "swap" ELSE "register")
  /\ UNCHANGED <<flags, wakeup, voice, grpc, instance, asks, read>>

PollNothing ==
  /\ pc[Main] = "poll"
  /\ Goto(Main, "count")
  /\ UNCHANGED <<flags, wakeup, voice, grpc, instance, asks, read>>
PollForce ==
  /\ pc[Main] = "poll"
  /\ Goto(Main, IF force THEN "stop" ELSE "count")
  /\ UNCHANGED <<flags, wakeup, voice, grpc, instance, asks, read>>

\* The calls are counted; the drain ends without any, or at its deadline.
CountAnyway ==
  /\ pc[Main] = "count"
  /\ Goto(Main, IF calls = {} THEN "stop" ELSE "sleep")
  /\ UNCHANGED <<flags, wakeup, voice, grpc, instance, asks, read>>
CountCalls ==
  /\ pc[Main] = "count"
  /\ Goto(Main, IF calls = {} \/ deadline = "passed" THEN "stop" ELSE "sleep")
  /\ UNCHANGED <<flags, wakeup, voice, grpc, instance, asks, read>>

SleepEnds ==
  /\ pc[Main] = "sleep"
  /\ Goto(Main, "poll")
  /\ UNCHANGED <<flags, wakeup, voice, grpc, instance, asks, read>>

\* shutdown_all ends the Discord client; then the gRPC server is told to stop.
StopShards ==
  /\ pc[Main] = "stop"
  /\ Goto(Main, "tell")
  /\ UNCHANGED <<flags, wakeup, voice, grpc, instance, asks, read>>

TellServer ==
  /\ pc[Main] = "tell"
  /\ server' = "stopping"
  /\ Goto(Main, "join")
  /\ UNCHANGED <<flags, wakeup, voice, streams, instance, asks, read>>

\* main joins the server, which lets its calls and open streams end first.
JoinServer ==
  /\ pc[Main] = "join"
  /\ streams = 0
  /\ \A r \in Requests : pc[r] \in {"off", "done"}
  /\ Goto(Main, "mark")
  /\ UNCHANGED <<flags, wakeup, voice, grpc, instance, asks, read>>

\* mark_instance_stopped updates a row, if there is one; the heartbeat task
\* still runs.
MarkStopped ==
  /\ pc[Main] = "mark"
  /\ \/ instance' = IF instance = "none" THEN "none" ELSE "stopped"
     \/ Faults /\ UNCHANGED instance
  /\ Goto(Main, "return")
  /\ UNCHANGED <<flags, wakeup, voice, grpc, asks, read>>

\* main returns and the process is gone, with every task and every call.
Exit ==
  /\ pc[Main] = "return"
  /\ pc' = [t \in Tasks |-> "exited"]
  /\ calls' = {}
  /\ UNCHANGED <<flags, wakeup, guild, grpc, instance, asks, read>>

----
(***************************************************************************)
(* What the drain waits for.                                               *)
(***************************************************************************)

\* connect_to_voice_channel starts, on a gateway event or a command.
StartConnect(c, g) ==
  /\ pc[c] = "off"
  /\ ~ShardsDown
  /\ guild' = [guild EXCEPT ![c] = g]
  /\ Goto(c, "look")
  /\ UNCHANGED <<flags, wakeup, calls, grpc, instance, asks, read>>

\* It gives up when the instance drains; the flag is not read again.
LookNowhere(c) ==
  /\ pc[c] = "look"
  /\ Goto(c, "insert")
  /\ UNCHANGED <<flags, wakeup, voice, grpc, instance, asks, read>>
LookDraining(c) ==
  /\ pc[c] = "look"
  /\ Goto(c, IF draining THEN "done" ELSE "insert")
  /\ UNCHANGED <<flags, wakeup, voice, grpc, instance, asks, read>>

\* The lease, read next, is another instance's: nothing is joined.
OwnedElsewhere(c) ==
  /\ pc[c] = "insert"
  /\ Goto(c, "done")
  /\ UNCHANGED <<flags, wakeup, voice, grpc, instance, asks, read>>

\* It is free: the manager gets a Call for the guild, or has one already.
InsertCall(c) ==
  /\ pc[c] = "insert"
  /\ calls' = calls \cup {guild[c]}
  /\ Goto(c, "joining")
  /\ UNCHANGED <<flags, wakeup, guild, grpc, instance, asks, read>>

\* The join succeeds, or it fails and the Call is removed.
JoinEnds(c) ==
  /\ pc[c] = "joining"
  /\ calls' \in {calls, calls \ {guild[c]}}
  /\ Goto(c, "done")
  /\ UNCHANGED <<flags, wakeup, guild, grpc, instance, asks, read>>

\* leave_voice_channel, disconnect_voice.
Leave(g) ==
  /\ g \in calls
  /\ calls' = calls \ {g}
  /\ UNCHANGED <<flags, wakeup, guild, grpc, instance, pc, asks, read>>

----
(***************************************************************************)
(* The world around the process.                                           *)
(***************************************************************************)

\* While the shutdown task listens: before, a signal kills the process, and
\* after, nobody reads it.
Signal ==
  /\ signal = "none"
  /\ pc[Main] \in {"register", "wait", "woken"}
  /\ signal' = "pending"
  /\ UNCHANGED <<flags, waiter, deadline, voice, grpc, instance, pc, asks, read>>

DeadlinePasses ==
  /\ Running
  /\ deadline = "running"
  /\ deadline' = "passed"
  /\ UNCHANGED <<flags, waiter, signal, voice, grpc, instance, pc, asks, read>>

OpenStream ==
  /\ server = "serving"
  /\ streams < MaxStreams
  /\ streams' = streams + 1
  /\ UNCHANGED <<flags, wakeup, voice, server, instance, pc, asks, read>>

CloseStreamTwice ==
  /\ streams > 0
  /\ streams' = streams - 2
  /\ UNCHANGED <<flags, wakeup, voice, server, instance, pc, asks, read>>
CloseStream ==
  /\ streams > 0
  /\ streams' = streams - 1
  /\ UNCHANGED <<flags, wakeup, voice, server, instance, pc, asks, read>>

----
StartDrain(t) ==
  SwapDraining(t) \/ Arm(t) \/ NotifyWaiters(t) \/ SetForce(t) \/ NotifyAgain(t)

MainStep ==
  \/ StartDrain(Main) \/ ReadRole(Main) \/ Upsert(Main)
  \/ CheckArmed \/ RegisterWaiter \/ Notified \/ SignalTaken \/ RecheckArmed
  \/ PollForce \/ CountCalls \/ SleepEnds
  \/ StopShards \/ TellServer \/ JoinServer \/ MarkStopped \/ Exit

RequestStep(r)  == StartDrain(r) \/ ReadRole(r) \/ Upsert(r)
HeartbeatStep   == ReadRole(Heartbeat) \/ Upsert(Heartbeat)
ConnectStep(c)  ==
  LookDraining(c) \/ OwnedElsewhere(c) \/ InsertCall(c) \/ JoinEnds(c)

World ==
  \/ \E r \in Requests, m \in Methods : Arrive(r, m)
  \/ \E c \in Connects, g \in Guilds : StartConnect(c, g)
  \/ \E g \in Guilds : Leave(g)
  \/ Signal \/ DeadlinePasses \/ OpenStream \/ CloseStream

Next ==
  \/ MainStep
  \/ HeartbeatStep
  \/ \E r \in Requests : RequestStep(r)
  \/ \E c \in Connects : ConnectStep(c)
  \/ World

\* The runtime polls every task that is ready, statements and joins end, and
\* so do sleeps and timers.  The database does not refuse every heartbeat.
\* Nothing is asked of clients, of signals, of the people in a voice channel
\* or of the gateway.
Fairness ==
  /\ WF_vars(MainStep)
  /\ WF_vars(HeartbeatStep)
  /\ SF_vars(Upsert(Heartbeat) /\ instance' = read[Heartbeat])
  /\ \A r \in Requests : WF_vars(RequestStep(r))
  /\ \A c \in Connects : WF_vars(ConnectStep(c))
  /\ WF_vars(DeadlinePasses)

Spec     == Init /\ [][Next]_vars
FairSpec == Spec /\ Fairness

----
(***************************************************************************)
(* Properties.                                                             *)
(***************************************************************************)

\* Every variable keeps its type: RuntimeState's flags, what the shutdown task
\* waits for, and the place of every task.
TypeOK ==
  /\ flags \in SUBSET {"draining", "shutdown_when_empty", "force_shutdown"}
  /\ waiter \in {"none", "registered", "notified"}
  /\ signal \in {"none", "pending"}
  /\ deadline \in {"none", "off", "running", "passed"}
  /\ calls \in SUBSET Guilds
  /\ streams \in 0..MaxStreams
  /\ server \in {"serving", "stopping"}
  /\ instance \in {"none", "active", "draining", "stopped"}
  /\ pc \in [Tasks -> Labels]
  /\ asks \in [Services -> Methods]
  /\ read \in [Writers -> {"none", "active", "draining"}]
  /\ \A t \in Writers : pc[t] = "upsert" => read[t] # "none"
  /\ guild \in [Connects -> Guilds \cup {NoGuild}]

\* Whoever sees one flag may rely on the ones before it, although requests,
\* the signal and the shutdown task set them in any interleaving: a process
\* told to exit already turns voice away, a forced one is told to exit, and
\* the loop that ends the process runs only in one that is told to.
FlagsInOrder ==
  /\ whenEmpty => draining
  /\ force => whenEmpty
  /\ Draining \/ DrainOver => whenEmpty

\* Once a process drains, and the connects that had looked at the flag before
\* are through, it is settled: it stays so, and only ever loses calls, however
\* many connects start later.  The count the drain waits for reaches zero once.
Settled == draining /\ \A c \in Connects : pc[c] \notin {"insert", "joining"}
DrainOnlyLosesCalls == [][Settled => Settled' /\ calls' \subseteq calls]_vars

\* A signal ends the drain, by the calls or by the deadline, whatever requests
\* arrive or are lost meanwhile: the shards and the server are told to stop.
SignalEndsDrain == signal = "pending" /\ deadline # "none" ~> server = "stopping"

\* Forced in the middle of a drain that would never end, the process stops.
ForceEndsDrain == force /\ Draining ~> server = "stopping"

\* The other instances learn that this one drains: its row stops saying
\* active, although a heartbeat may write the role it read long before.
DrainIsPublished == <>[](draining /\ Running => instance # "active")

----
(***************************************************************************)
(* Statements of the code's own descriptions which it breaks.              *)
(***************************************************************************)

\* "Bot deployment instance exits when voice is empty: 1 when armed": armed,
\* a process exits unless a call keeps it.
ArmedExits == whenEmpty ~> pc[Main] = "exited" \/ calls # {}
====
