------------------------------ MODULE Consumer ------------------------------
(***************************************************************************)
(* A consumer process: how it goes up and down (Base.run, Base.shutdown    *)
(* and the task lists of Consumer), the loop that fetches a message, hands *)
(* it to the application and settles it, the consume timeout, and what a   *)
(* crash leaves behind.                                                    *)
(*                                                                         *)
(* A consumer has two connections.  On its own one it issues BRPOPLPUSH:   *)
(* polls[c] calls wait at the server and inbox[c] holds the replies on     *)
(* their way back.  On the shared one it pipelines the moves that settle   *)
(* messages: cmds[c].  jobs[c] are the closures of handleConsume that can  *)
(* still act, because the application has not called back ("handler") or   *)
(* because the consume timer is armed ("timer").                           *)
(***************************************************************************)
EXTENDS RedisStore

CONSTANTS
  Throwers,       \* the messages whose handler may throw synchronously
  Hangers,        \* the messages whose handler may never call back
  MaxRuns,        \* bound: calls of run() on one consumer instance
  MaxCrashes,     \* bound: consumers that may crash
  MaxAttempts     \* bound: attempts of a message that Arrive delivers

ASSUME ConsumerAssumption ==
  /\ Throwers \subseteq MessageId
  /\ Hangers \subseteq MessageId
  /\ MaxRuns \in Nat
  /\ MaxCrashes \in Nat
  /\ MaxAttempts \in Nat

VARIABLES
  power,      \* power[c]: PowerManager state and the task reached
  polls,      \* polls[c]: BRPOPLPUSH calls blocked at the server
  inbox,      \* inbox[c]: replies of BRPOPLPUSH not yet handled
  jobs,       \* jobs[c]: closures of handleConsume that can still act
  cmds,       \* cmds[c]: moves sent on the shared connection, not yet run
  runs,       \* runs[c]: how often run() was called
  succeeded   \* messages whose handler reported success in time (history)

consumerVars == <<power, polls, inbox, jobs, cmds, runs, succeeded>>
vars == <<storeVars, consumerVars>>

(***************************************************************************)
(* "starting": goingUp, before setUpBroker; "connected": it has a broker;  *)
(* "beating": heartbeat and workers exist, the processing queue is not yet *)
(* registered; "up"; "stopping": goingDown; "silent": heartbeat torn down; *)
(* "deaf": consumer connection closed.                                     *)
(***************************************************************************)
Power == {"down", "starting", "connected", "beating", "up",
          "stopping", "silent", "deaf", "crashed"}

Job == [entry : Entry, handler : BOOLEAN, timer : BOOLEAN]
Cmd == [op : Op, entry : Entry]

TypeOK ==
  /\ StoreTypeOK
  /\ power \in [Consumer -> Power]
  /\ polls \in [Consumer -> Nat]
  /\ inbox \in [Consumer -> Seq(Entry)]
  /\ jobs \in [Consumer -> SUBSET Job]
  /\ cmds \in [Consumer -> Seq(Cmd)]
  /\ runs \in [Consumer -> Nat]
  /\ succeeded \subseteq MessageId

ConsumerInit ==
  /\ power = [c \in Consumer |-> IF c \in InitiallyUp THEN "up" ELSE "down"]
  /\ polls = [c \in Consumer |-> IF c \in InitiallyUp THEN 1 ELSE 0]
  /\ inbox = [c \in Consumer |-> <<>>]
  /\ jobs = [c \in Consumer |-> {}]
  /\ cmds = [c \in Consumer |-> <<>>]
  /\ runs = [c \in Consumer |-> IF c \in InitiallyUp THEN 1 ELSE 0]
  /\ succeeded = {}

isRunning(c) == power[c] = "up"

\* this.broker is set: getBroker calls back instead of emitting an error.
hasBroker(c) ==
  power[c] \in {"connected", "beating", "up", "stopping", "silent", "deaf"}

Crashed == {c \in Consumer : power[c] = "crashed"}

-----------------------------------------------------------------------------
(***************************************************************************)
(* Going up and down.                                                      *)
(***************************************************************************)
Run(c) ==
  /\ power[c] = "down"
  /\ runs[c] < MaxRuns
  /\ power' = [power EXCEPT ![c] = "starting"]
  /\ runs' = [runs EXCEPT ![c] = @ + 1]
  /\ UNCHANGED <<storeVars, polls, inbox, jobs, cmds, succeeded>>

\* The tasks of Base.goingUp: shared connection, message queue, broker, rates.
setUpBroker(c) ==
  /\ power[c] = "starting"
  /\ power' = [power EXCEPT ![c] = "connected"]
  /\ UNCHANGED <<storeVars, polls, inbox, jobs, cmds, runs, succeeded>>

setUpHeartbeat(c) ==
  /\ power[c] = "connected"
  /\ power' = [power EXCEPT ![c] = "beating"]
  /\ UNCHANGED <<storeVars, polls, inbox, jobs, cmds, runs, succeeded>>

\* Mutant: the processing queue is not registered.
UnregisteredQueue(c) ==
  /\ power[c] = "beating"
  /\ power' = [power EXCEPT ![c] = "up"]
  /\ polls' = [polls EXCEPT ![c] = @ + 1]
  /\ UNCHANGED <<storeVars, inbox, jobs, cmds, runs, succeeded>>

\* The last task registers the processing queue; the callback commits the
\* power state and emits UP, whose handler issues the first BRPOPLPUSH.
setUpProcessingQueue(c) ==
  /\ power[c] = "beating"
  /\ index' = index \union {c}
  /\ power' = [power EXCEPT ![c] = "up"]
  /\ polls' = [polls EXCEPT ![c] = @ + 1]
  /\ UNCHANGED <<lists, heartbeat, published, elapsed,
                 inbox, jobs, cmds, runs, succeeded>>

\* The heartbeat ticker; its first tick comes a second after its creation.
Beat(c) ==
  /\ power[c] \in {"beating", "up", "stopping"}
  /\ heartbeat[c] # "fresh"
  /\ heartbeat' = [heartbeat EXCEPT ![c] = "fresh"]
  /\ UNCHANGED <<lists, index, published, elapsed, consumerVars>>

Shutdown(c) ==
  /\ isRunning(c)
  /\ power' = [power EXCEPT ![c] = "stopping"]
  /\ UNCHANGED <<storeVars, polls, inbox, jobs, cmds, runs, succeeded>>

tearDownHeartbeat(c) ==
  /\ power[c] = "stopping"
  /\ power' = [power EXCEPT ![c] = "silent"]
  /\ heartbeat' = [heartbeat EXCEPT ![c] = "none"]
  /\ UNCHANGED <<lists, index, published, elapsed,
                 polls, inbox, jobs, cmds, runs, succeeded>>

\* halt() flushes the connection: blocked calls end and replies on their way
\* are dropped, the message of such a reply stays in the processing queue.
tearDownConsumerRedisClient(c) ==
  /\ power[c] = "silent"
  /\ power' = [power EXCEPT ![c] = "deaf"]
  /\ polls' = [polls EXCEPT ![c] = 0]
  /\ inbox' = [inbox EXCEPT ![c] = <<>>]
  /\ UNCHANGED <<storeVars, jobs, cmds, runs, succeeded>>

\* tearDownBroker, tearDownMessageRate, tearDownSharedRedisClient: moves that
\* have not reached the server are dropped.  The closures stay in memory.
tearDownSharedRedisClient(c) ==
  /\ power[c] = "deaf"
  /\ power' = [power EXCEPT ![c] = "down"]
  /\ cmds' = [cmds EXCEPT ![c] = <<>>]
  /\ UNCHANGED <<storeVars, polls, inbox, jobs, runs, succeeded>>

\* The process dies.  What it has sent may still reach the server, and a
\* blocked call stays blocked until the server sees the connection close.
Dies(c) ==
  /\ power[c] \notin {"down", "crashed"}
  /\ power' = [power EXCEPT ![c] = "crashed"]
  /\ inbox' = [inbox EXCEPT ![c] = <<>>]
  /\ jobs' = [jobs EXCEPT ![c] = {}]
  /\ UNCHANGED <<storeVars, polls, cmds, runs, succeeded>>

Crash(c) == Cardinality(Crashed) < MaxCrashes /\ Dies(c)

ConnectionLost(c) ==
  /\ power[c] = "crashed"
  /\ polls[c] > 0 \/ cmds[c] # <<>>
  /\ polls' = [polls EXCEPT ![c] = 0]
  /\ cmds' = [cmds EXCEPT ![c] = <<>>]
  /\ UNCHANGED <<storeVars, power, inbox, jobs, runs, succeeded>>

-----------------------------------------------------------------------------
(***************************************************************************)
(* The message loop.                                                       *)
(***************************************************************************)

\* Mutant: a message is pushed to a client that does not wait for one.
UnaskedDelivery(c) ==
  /\ dequeue(c)
  /\ polls' = [polls EXCEPT ![c] = @ - 1]
  /\ inbox' = [inbox EXCEPT ![c] = Append(@, Last(queue[QueueOf[c]]))]
  /\ UNCHANGED <<index, heartbeat, published, elapsed,
                 power, jobs, cmds, runs, succeeded>>

\* A blocked BRPOPLPUSH is served; the reply travels to a live client.
Dequeue(c) ==
  /\ polls[c] > 0
  /\ dequeue(c)
  /\ polls' = [polls EXCEPT ![c] = @ - 1]
  /\ inbox' = IF power[c] = "crashed" THEN inbox
              ELSE [inbox EXCEPT ![c] = Append(@, Last(queue[QueueOf[c]]))]
  /\ UNCHANGED <<index, heartbeat, published, elapsed,
                 power, jobs, cmds, runs, succeeded>>

\* Consumer.unacknowledgeMessage: the move is chosen now and runs later.
unacknowledgeMessage(c, e) ==
  cmds' = IF hasBroker(c)
            THEN [cmds EXCEPT ![c] =
                    Append(@, [op |-> retry(e, elapsed), entry |-> e])]
            ELSE cmds

\* Mutant: an expired message is skipped without unacknowledging it.
SkipExpired(c) ==
  /\ inbox[c] # <<>>
  /\ hasExpired(Head(inbox[c]), elapsed)
  /\ inbox' = [inbox EXCEPT ![c] = Tail(@)]
  /\ UNCHANGED <<storeVars, power, polls, jobs, cmds, runs, succeeded>>

\* handleReceivedMessage of an expired message.
ReceiveExpired(c) ==
  /\ inbox[c] # <<>>
  /\ hasExpired(Head(inbox[c]), elapsed)
  /\ inbox' = [inbox EXCEPT ![c] = Tail(@)]
  /\ unacknowledgeMessage(c, Head(inbox[c]))
  /\ UNCHANGED <<storeVars, power, polls, jobs, runs, succeeded>>

\* handleReceivedMessage and handleConsume: the application takes the message.
Receive(c) ==
  LET e == Head(inbox[c]) IN
  /\ inbox[c] # <<>>
  /\ ~hasExpired(e, elapsed)
  /\ inbox' = [inbox EXCEPT ![c] = Tail(@)]
  /\ jobs' = [jobs EXCEPT ![c] = @ \union
                {[entry |-> e, handler |-> TRUE,
                  timer |-> e.id \in ConsumeTimeout]}]
  /\ UNCHANGED <<storeVars, power, polls, cmds, runs, succeeded>>

\* The same, when the handler throws: the catch block unacknowledges the
\* message and leaves the consume timer armed.
ReceiveThrows(c) ==
  LET e == Head(inbox[c]) IN
  /\ inbox[c] # <<>>
  /\ ~hasExpired(e, elapsed)
  /\ e.id \in Throwers
  /\ inbox' = [inbox EXCEPT ![c] = Tail(@)]
  /\ jobs' = IF e.id \in ConsumeTimeout
               THEN [jobs EXCEPT ![c] = @ \union
                       {[entry |-> e, handler |-> FALSE, timer |-> TRUE]}]
               ELSE jobs
  /\ unacknowledgeMessage(c, e)
  /\ UNCHANGED <<storeVars, power, polls, runs, succeeded>>

\* Mutant: clearTimeout is forgotten.
SucceedsTimerArmed(c, j) ==
  /\ isRunning(c)
  /\ j \in jobs[c] /\ j.handler
  /\ jobs' = [jobs EXCEPT ![c] =
                (@ \ {j}) \union IF j.timer
                                   THEN {[j EXCEPT !.handler = FALSE]} ELSE {}]
  /\ cmds' = [cmds EXCEPT ![c] =
                Append(@, [op |-> "acknowledge", entry |-> j.entry])]
  /\ succeeded' = succeeded \union {j.entry.id}
  /\ UNCHANGED <<storeVars, power, polls, inbox, runs>>

\* onConsumed without an error.
HandlerSucceeds(c, j) ==
  /\ isRunning(c)
  /\ j \in jobs[c] /\ j.handler
  /\ jobs' = [jobs EXCEPT ![c] = @ \ {j}]
  /\ cmds' = [cmds EXCEPT ![c] =
                Append(@, [op |-> "acknowledge", entry |-> j.entry])]
  /\ succeeded' = succeeded \union {j.entry.id}
  /\ UNCHANGED <<storeVars, power, polls, inbox, runs>>

\* Mutant: onConsumed ignores its argument.
FailsAcknowledged(c, j) ==
  /\ isRunning(c)
  /\ j \in jobs[c] /\ j.handler
  /\ jobs' = [jobs EXCEPT ![c] = @ \ {j}]
  /\ cmds' = [cmds EXCEPT ![c] =
                Append(@, [op |-> "acknowledge", entry |-> j.entry])]
  /\ UNCHANGED <<storeVars, power, polls, inbox, runs, succeeded>>

\* onConsumed with an error.
HandlerFails(c, j) ==
  /\ isRunning(c)
  /\ j \in jobs[c] /\ j.handler
  /\ jobs' = [jobs EXCEPT ![c] = @ \ {j}]
  /\ unacknowledgeMessage(c, j.entry)
  /\ UNCHANGED <<storeVars, power, polls, inbox, runs, succeeded>>

\* onConsumed of a consumer that is not running: ignored, the timer stays.
HandlerIgnored(c, j) ==
  /\ ~isRunning(c)
  /\ j \in jobs[c] /\ j.handler
  /\ jobs' = [jobs EXCEPT ![c] =
                (@ \ {j}) \union IF j.timer
                                   THEN {[j EXCEPT !.handler = FALSE]} ELSE {}]
  /\ UNCHANGED <<storeVars, power, polls, inbox, cmds, runs, succeeded>>

\* Mutant: isTimeout is not set.
FiresAndListens(c, j) ==
  /\ j \in jobs[c] /\ j.timer
  /\ power[c] # "starting"
  /\ jobs' = [jobs EXCEPT ![c] =
                (@ \ {j}) \union IF j.handler
                                   THEN {[j EXCEPT !.timer = FALSE]} ELSE {}]
  /\ unacknowledgeMessage(c, j.entry)
  /\ UNCHANGED <<storeVars, power, polls, inbox, runs, succeeded>>

\* The consume timer fires.  A later onConsumed finds isTimeout and returns.
TimerFires(c, j) ==
  /\ j \in jobs[c] /\ j.timer
  /\ power[c] # "starting"
  /\ jobs' = [jobs EXCEPT ![c] = @ \ {j}]
  /\ unacknowledgeMessage(c, j.entry)
  /\ UNCHANGED <<storeVars, power, polls, inbox, runs, succeeded>>

\* While going up without a broker, handleError throws and the process ends.
TimerPanics(c, j) ==
  /\ j \in jobs[c] /\ j.timer
  /\ power[c] = "starting"
  /\ Cardinality(Crashed) < MaxCrashes
  /\ power' = [power EXCEPT ![c] = "crashed"]
  /\ jobs' = [jobs EXCEPT ![c] = {}]
  /\ UNCHANGED <<storeVars, polls, inbox, cmds, runs, succeeded>>

\* The server runs a move; the reply emits MESSAGE_(UN)ACKNOWLEDGED, then
\* MESSAGE_NEXT, which issues BRPOPLPUSH when the consumer is running.
ExecCmd(c) ==
  /\ cmds[c] # <<>>
  /\ Settle(Head(cmds[c]).op, c, QueueOf[c])
  /\ cmds' = [cmds EXCEPT ![c] = Tail(@)]
  /\ polls' = IF isRunning(c) THEN [polls EXCEPT ![c] = @ + 1] ELSE polls
  /\ UNCHANGED <<index, heartbeat, published, elapsed,
                 power, inbox, jobs, runs, succeeded>>

-----------------------------------------------------------------------------
JobStep(c) ==
  \E j \in jobs[c] :
    \/ HandlerSucceeds(c, j)
    \/ HandlerFails(c, j)
    \/ HandlerIgnored(c, j)
    \/ TimerFires(c, j)
    \/ TimerPanics(c, j)

PowerStep(c) ==
  \/ Run(c)
  \/ setUpBroker(c)
  \/ setUpHeartbeat(c)
  \/ setUpProcessingQueue(c)
  \/ Beat(c)
  \/ Shutdown(c)
  \/ tearDownHeartbeat(c)
  \/ tearDownConsumerRedisClient(c)
  \/ tearDownSharedRedisClient(c)
  \/ Crash(c)
  \/ ConnectionLost(c)

LoopStep(c) ==
  \/ Dequeue(c)
  \/ ReceiveExpired(c)
  \/ Receive(c)
  \/ ReceiveThrows(c)
  \/ JobStep(c)
  \/ ExecCmd(c)

(***************************************************************************)
(* The rest of the system, as a consumer on its own sees it: a message     *)
(* appears at the right end (a producer, the schedule worker) or at the    *)
(* left end (the requeue worker) of its queue.                             *)
(***************************************************************************)
Arrive(m) ==
  /\ m \notin published
  /\ published' = published \union {m}
  /\ \E a \in 0..MaxAttempts :
       LET e == [id |-> m, attempts |-> a] IN
       \/ queue' = [queue EXCEPT ![Home[m]] = Append(@, e)]
       \/ queue' = [queue EXCEPT ![Home[m]] = <<e>> \o @]
  /\ UNCHANGED <<processing, requeueList, delayList, acknowledged, deadLetter,
                 index, heartbeat, elapsed, consumerVars>>

Init == StoreInit /\ ConsumerInit

Next ==
  \/ \E c \in Consumer : PowerStep(c) \/ LoopStep(c)
  \/ \E m \in MessageId : Arrive(m) \/ (TTLElapses(m) /\ UNCHANGED consumerVars)

Spec == Init /\ [][Next]_vars

\* Node.js keeps serving replies, timers and callbacks of a live process, and
\* Redis keeps serving commands; only a hanging handler may never call back.
HandlerReturns(c) ==
  \E j \in jobs[c] : /\ j.entry.id \notin Hangers
                     /\ HandlerSucceeds(c, j) \/ HandlerFails(c, j)
TimerExpires(c) == \E j \in jobs[c] : TimerFires(c, j)

-----------------------------------------------------------------------------
(***************************************************************************)
(* Properties.                                                             *)
(***************************************************************************)

\* The loop of MESSAGE_NEXT, dequeue, consume, settle never forks: a consumer
\* has at most one fetch, one delivery, one closure or one move under way and
\* at most one message in its processing queue.
OneAtATime ==
  \A c \in Consumer :
    /\ polls[c] + Len(inbox[c]) + Cardinality(jobs[c]) + Len(cmds[c]) <= 1
    /\ Len(processing[c]) <= 1

\* The loop never dies: a running consumer always has a fetch, a delivery, a
\* closure or a move under way (every path of handleReceivedMessage and
\* handleConsume leads back to MESSAGE_NEXT).
NeverIdle ==
  \A c \in Consumer :
    isRunning(c) =>
      \/ polls[c] > 0
      \/ inbox[c] # <<>>
      \/ jobs[c] # {}
      \/ cmds[c] # <<>>

\* ProcessingHandler moves whatever its end of the processing queue holds;
\* that is always the message the caller decided about.
SettlesOwn ==
  \A c \in Consumer :
    cmds[c] # <<>> =>
      LET k == Head(cmds[c]) IN
      /\ processing[c] # <<>>
      /\ k.entry = IF k.op \in {"acknowledge", "deadLetter"}
                     THEN Head(processing[c]) ELSE Last(processing[c])

\* A message the consumer has fetched, or that its application is consuming,
\* is in the processing queue of that consumer: it outlives a crash, and no
\* other consumer can be given it.
HeldIsStored ==
  \A c \in Consumer :
    ToSet(inbox[c]) \union {j.entry : j \in {k \in jobs[c] : k.handler}}
      \subseteq ToSet(processing[c])

\* Only messages whose handler reported success end in an acknowledged queue.
AcknowledgedSucceeded ==
  \A q \in Queue : \A e \in ToSet(acknowledged[q]) : e.id \in succeeded

\* Where an unacknowledged message ends follows Broker.retry: only messages
\* below their threshold, and not periodic, wait for another delivery, and
\* only the others are dead-lettered.
RetryPolicy ==
  /\ \A e \in ToSet(requeueList) \union ToSet(delayList) :
       ~isPeriodic(e) /\ ~hasRetryThresholdExceeded(e)
  /\ \A q \in Queue : \A e \in ToSet(deadLetter[q]) :
       \/ isPeriodic(e)
       \/ hasRetryThresholdExceeded(e)
       \/ hasExpired(e, elapsed)

(***************************************************************************)
(* The stages of the loop, for a consumer that is run once and whose       *)
(* throwing handlers have no consume timeout: what is under way and what   *)
(* the processing queue holds always fit together.                         *)
(***************************************************************************)
SingleUse == MaxRuns <= 1
NoStaleTimers == Throwers \cap ConsumeTimeout = {}

UnderWay(c, p, in, js, ks) ==
  polls[c] = p /\ inbox[c] = in /\ jobs[c] = js /\ cmds[c] = ks

\* The move k was chosen for a reason that still holds.
Justified(k) ==
  /\ k.op = "acknowledge" => k.entry.id \in succeeded
  /\ k.op \in {"delay", "requeue"} =>
       ~isPeriodic(k.entry) /\ ~hasRetryThresholdExceeded(k.entry)
  /\ k.op = "deadLetter" =>
       \/ isPeriodic(k.entry)
       \/ hasRetryThresholdExceeded(k.entry)
       \/ hasExpired(k.entry, elapsed)

Unused(c) == UnderWay(c, 0, <<>>, {}, <<>>) /\ processing[c] = <<>>

Fetching(c) == UnderWay(c, 1, <<>>, {}, <<>>) /\ processing[c] = <<>>

Delivering(c) ==
  \E e \in ToSet(inbox[c]) : /\ UnderWay(c, 0, <<e>>, {}, <<>>)
                             /\ processing[c] = <<e>>
Consuming(c) ==
  \E j \in jobs[c] : /\ UnderWay(c, 0, <<>>, {j}, <<>>)
                     /\ processing[c] = <<j.entry>>
Settling(c) ==
  \E k \in ToSet(cmds[c]) : /\ UnderWay(c, 0, <<>>, {}, <<k>>)
                            /\ processing[c] = <<k.entry>>
                            /\ Justified(k)

\* The loop has ended; a message may be left for the garbage collector.
Ended(c) ==
  /\ ~isRunning(c)
  /\ UnderWay(c, 0, <<>>, {}, <<>>)
  /\ Len(processing[c]) <= 1

InLoop(c) ==
  /\ Fetching(c) \/ Delivering(c) \/ Consuming(c) \/ Settling(c) \/ Ended(c)
  /\ runs[c] = 0 => power[c] = "down"
  /\ runs[c] = 0 \/ power[c] \in {"starting", "connected", "beating"}
       => Unused(c)

\* Every consumer is in one stage of its loop, a running one in a stage that
\* has a next one, and one that is not yet up has nothing under way.
LoopInvariant == \A c \in Consumer : InLoop(c)
=============================================================================
