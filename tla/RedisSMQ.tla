------------------------------ MODULE RedisSMQ ------------------------------
(***************************************************************************)
(* The whole message path: a producer, consumers and the background        *)
(* workers of the consumer that holds the workers lock, over one Redis.    *)
(*                                                                         *)
(* Time is not modelled: the garbage collector may inspect a consumer at   *)
(* any moment, in the second between its registration and its first        *)
(* heartbeat and between the removal of its heartbeat and the closing of   *)
(* its connection too.  The constant Races says which events of the        *)
(* environment may happen besides:                                         *)
(*   "stall"     a live consumer sends no heartbeat for more than 10 s;    *)
(*   "halfOpen"  Redis keeps the connection of a dead consumer (its host   *)
(*               is gone) longer than its heartbeat stays valid;           *)
(*   "overlap"   the workers of a consumer start while others still run    *)
(*               (the lock of ConsumerWorkers expired);                    *)
(*   "setUpError" Redis answers the registration of a processing queue     *)
(*               with an error.                                            *)
(* A heartbeat can so be missing while the consumer still fetches: the     *)
(* history variables mistaken and exposed record whom the collector took   *)
(* for dead in that state and which messages it met there.                 *)
(***************************************************************************)
EXTENDS Consumer, GCWorker, DelayedRetry

CONSTANTS
  Races,        \* the events of the environment that may happen
  MaxProduced   \* bound: how many messages are produced

RaceName == {"stall", "halfOpen", "overlap", "setUpError"}

ASSUME SysAssumption == Races \subseteq RaceName /\ MaxProduced \in Nat

VARIABLES
  workers,       \* the consumers whose worker processes are running
  overlapped,    \* whether two sets of workers have run at once (history)
  unregistered,  \* the consumers whose registration failed (history)
  mistaken,      \* the connected consumers that were taken for dead (history)
  exposed        \* the messages found in their processing queues (history)

workerVars == <<gc, requeueBatch, delayVars>>
poolVars == <<workers, overlapped, unregistered>>
stateVars == <<vars, workerVars, poolVars>>
sysVars == <<stateVars, mistaken, exposed>>

SysTypeOK ==
  /\ TypeOK
  /\ GCTypeOK
  /\ RequeueTypeOK
  /\ DelayTypeOK
  /\ workers \subseteq Consumer
  /\ overlapped \in BOOLEAN
  /\ unregistered \subseteq Consumer
  /\ mistaken \subseteq Consumer
  /\ exposed \subseteq MessageId

SysInit ==
  /\ StoreInit
  /\ ConsumerInit
  /\ GCInit
  /\ RequeueInit
  /\ DelayInit
  /\ workers = {}
  /\ overlapped = FALSE
  /\ unregistered = {}
  /\ mistaken = {}
  /\ exposed = {}

-----------------------------------------------------------------------------
(***************************************************************************)
(* The worker processes of a consumer.                                     *)
(***************************************************************************)
StartWorkers(c) ==
  /\ power[c] \in {"beating", "up"}
  /\ c \notin workers
  /\ workers = {} \/ "overlap" \in Races
  /\ workers' = workers \union {c}
  /\ overlapped' = (overlapped \/ workers # {})
  /\ UNCHANGED <<vars, workerVars, unregistered>>

\* The processes are killed; what they had read is forgotten.
KillWorkers(c) ==
  /\ workers' = workers \ {c}
  /\ gc' = [gc EXCEPT ![c] = [d \in Consumer |-> "idle"]]
  /\ requeueBatch' = [requeueBatch EXCEPT ![c] = <<>>]
  /\ delayBatch' = [delayBatch EXCEPT ![c] = <<>>]
  /\ dueIds' = [dueIds EXCEPT ![c] = {}]
  /\ dueBatch' = [dueBatch EXCEPT ![c] = {}]
  /\ panicking' = panicking \ {c}
  /\ UNCHANGED <<scheduled, due, overlapped, unregistered>>

tearDownConsumerWorkers(c) ==
  /\ power[c] = "stopping"
  /\ c \in workers
  /\ KillWorkers(c)
  /\ UNCHANGED vars

CrashWithWorkers(c) == Crash(c) /\ KillWorkers(c)

\* A worker that ends on an exception takes its consumer with it: the exit
\* handler of WorkerRunner throws.
WorkerPanics(w) ==
  /\ w \in workers
  /\ w \in panicking
  /\ Dies(w)
  /\ KillWorkers(w)

\* Base.run ignores an error of its tasks and goes up all the same.
SetUpFails(c) ==
  /\ "setUpError" \in Races
  /\ power[c] = "beating"
  /\ power' = [power EXCEPT ![c] = "up"]
  /\ polls' = [polls EXCEPT ![c] = @ + 1]
  /\ unregistered' = unregistered \union {c}
  /\ UNCHANGED <<storeVars, inbox, jobs, cmds, runs, succeeded, workerVars, workers,
                 overlapped>>

-----------------------------------------------------------------------------
(***************************************************************************)
(* Timing.                                                                 *)
(***************************************************************************)

\* Redis still has a connection on which c fetches or settles messages.
Connected(c) ==
  \/ power[c] \in {"up", "stopping", "silent"}
  \/ power[c] = "crashed" /\ (polls[c] > 0 \/ cmds[c] # <<>>)

\* Ten seconds pass without a heartbeat.
HeartbeatExpires(c) ==
  /\ heartbeat[c] = "fresh"
  /\ \/ power[c] = "crashed" /\ (Connected(c) => "halfOpen" \in Races)
     \/ power[c] \in {"up", "stopping"} /\ "stall" \in Races
  /\ heartbeat' = [heartbeat EXCEPT ![c] = "stale"]
  /\ UNCHANGED <<lists, index, published, elapsed, consumerVars, workerVars,
                 poolVars>>

-----------------------------------------------------------------------------
\* Producer.produceMessage of a message without a schedule.
Produce(m) ==
  /\ m \notin published
  /\ Cardinality(published) < MaxProduced
  /\ published' = published \union {m}
  /\ queue' = [queue EXCEPT ![Home[m]] = Append(@, [id |-> m, attempts |-> 0])]
  /\ UNCHANGED <<processing, requeueList, delayList, acknowledged, deadLetter,
                 index, heartbeat, elapsed, consumerVars, workerVars, poolVars>>

ConsumerStep(c) ==
  \/ /\ \/ Run(c) \/ setUpBroker(c) \/ setUpHeartbeat(c)
        \/ setUpProcessingQueue(c)
        \/ Beat(c) \/ Shutdown(c) \/ ConnectionLost(c)
        \/ c \notin workers /\ tearDownHeartbeat(c)
        \/ tearDownConsumerRedisClient(c) \/ tearDownSharedRedisClient(c)
        \/ LoopStep(c)
     /\ UNCHANGED <<workerVars, poolVars>>
  \/ SetUpFails(c)
  \/ CrashWithWorkers(c)
  \/ StartWorkers(c)
  \/ tearDownConsumerWorkers(c)
  \/ HeartbeatExpires(c)

GCStep(w) ==
  /\ \/ GCTick(w)
     \/ \E c \in Consumer :
          \/ handleProcessingQueue(w, c)
          \/ handleOfflineConsumer(w, c)
          \/ Collect(w, c)
          \/ destroyProcessingQueue(w, c)
  /\ UNCHANGED <<consumerVars, requeueBatch, delayVars, poolVars>>

RequeueStep(w) ==
  /\ RequeueRead(w) \/ RequeueExec(w)
  /\ UNCHANGED <<consumerVars, gc, delayVars, poolVars>>

DelayStep(w) ==
  /\ DelayRead(w) \/ DelayExec(w)
  /\ UNCHANGED <<consumerVars, gc, requeueBatch, poolVars>>

ScheduleStep(w) ==
  /\ fetchIds(w) \/ fetchMessages(w) \/ \E e \in dueBatch[w] : enqueue(w, e)
  /\ UNCHANGED <<consumerVars, gc, requeueBatch, poolVars>>

WorkerStep(w) ==
  \/ GCStep(w)
  \/ RequeueStep(w)
  \/ DelayStep(w)
  \/ ScheduleStep(w)
  \/ WorkerPanics(w)

ClockStep(m) ==
  \/ TTLElapses(m) /\ UNCHANGED <<consumerVars, workerVars, poolVars>>
  \/ BecomesDue(m) /\ UNCHANGED <<consumerVars, gc, requeueBatch, poolVars>>

\* Collector w has taken c for dead and is not done with its queue.
TakenForDead(w, c) == gc[w][c] \notin {"idle", "alive"}

\* The history: consumers that can still fetch while a collector is at work on
\* their processing queue, and what was in these queues.
Record ==
  /\ mistaken' = mistaken \union
       {c \in Consumer : Connected(c)' /\ \E w \in Consumer : TakenForDead(w, c)'}
  /\ exposed' = exposed \union
       {e.id : e \in UNION {ToSet(processing[c]) \union ToSet(processing'[c]) :
                             c \in mistaken'}}

SysStep ==
  \/ \E m \in MessageId : Produce(m) \/ ClockStep(m)
  \/ \E c \in Consumer : ConsumerStep(c)
  \/ \E w \in workers : WorkerStep(w)

SysNext == SysStep /\ Record

SysSpec == SysInit /\ [][SysNext]_sysVars

-----------------------------------------------------------------------------
(***************************************************************************)
(* Where the copies of a message are.                                      *)
(***************************************************************************)
Copies(m, list) == {i \in 1..Len(list) : list[i].id = m}

\* The places of Redis that hold a copy, one element for each copy.
Places(m) ==
  (UNION {{<<"queue", q, i>> : i \in Copies(m, queue[q])} : q \in Queue})
  \union (UNION {{<<"processing", c, i>> : i \in Copies(m, processing[c])} :
                  c \in Consumer})
  \union {<<"requeue", i>> : i \in Copies(m, requeueList)}
  \union {<<"delay", i>> : i \in Copies(m, delayList)}
  \union {<<"scheduled", e>> : e \in {s \in scheduled : s.id = m}}
  \union (UNION {{<<"acknowledged", q, i>> : i \in Copies(m, acknowledged[q])} :
                  q \in Queue})
  \union (UNION {{<<"deadLetter", q, i>> : i \in Copies(m, deadLetter[q])} :
                  q \in Queue})

\* The message has reached its end in a queue of its own.
Settled(m) ==
  Copies(m, acknowledged[Home[m]]) \union Copies(m, deadLetter[Home[m]]) # {}

\* c is running and has m: fetched, or handed to its application.
Holds(c, m) ==
  /\ isRunning(c)
  /\ \/ \E e \in ToSet(inbox[c]) : e.id = m
     \/ \E j \in jobs[c] : j.handler /\ j.entry.id = m

-----------------------------------------------------------------------------
(***************************************************************************)
(* Properties.                                                             *)
(***************************************************************************)

\* "Messages are not lost in case of consumer failures": whatever crashes or
\* shuts down between two commands, Redis holds every published message.
NothingLost == \A m \in published : Places(m) # {}

\* Nothing is lost, through crashes and shut-downs between any two commands,
\* until a collector takes a consumer for dead that can still fetch.
MessagesKept == mistaken = {} => NothingLost

\* Such a mistake harms no other message: only one that was in the processing
\* queue of a consumer wrongly taken for dead can be lost.
LossConfined == \A m \in published \ exposed : Places(m) # {}

\* No step leaves two copies of a message, so it cannot be delivered again
\* after it was acknowledged (batches of the workers, moves of a consumer
\* against the moves of the garbage collector), as long as one set of workers
\* runs at a time and no connected consumer is taken for dead.
NoDuplicates ==
  ~overlapped /\ mistaken = {} =>
    \A m \in published : Cardinality(Places(m)) <= 1

\* "A message can be delivered only to one consumer at a time".
DeliveredToOne ==
  ~overlapped =>
    \A m \in MessageId : \A c, d \in Consumer :
      Holds(c, m) /\ Holds(d, m) => c = d

\* A message is with one consumer at a time until a collector takes one for
\* dead that can still fetch.
HeldByOne == mistaken = {} => DeliveredToOne

\* Recovery finds every message of a consumer that is gone: the garbage
\* collector only looks at registered processing queues, and destroys one only
\* when nobody can put a message in it any more.
Findable ==
  \A c \in Consumer \ unregistered : processing[c] # <<>> => c \in index

\* What is in a processing queue can be found and recovered until a collector
\* takes a consumer for dead that can still fetch.
Recoverable == mistaken = {} => Findable

\* A message is delivered at most retryThreshold times, whoever puts it back
\* (its consumer, the garbage collector) and whatever is retried twice.
ThresholdRespected ==
  mistaken = {} =>
    /\ \A q \in Queue : \A e \in ToSet(queue[q]) :
         RetryThreshold[e.id] > 0 => e.attempts < RetryThreshold[e.id]
    /\ \A e \in ToSet(requeueList) \union ToSet(delayList) :
         ~hasRetryThresholdExceeded(e)

\* retryThreshold is documented as "the number of times the message can be
\* re-queued and delivered again after a failure": a message that is neither
\* periodic nor expired is dead-lettered only after that many retries.
RetriedAsDocumented ==
  \A q \in Queue : \A e \in ToSet(deadLetter[q]) :
    \/ isPeriodic(e) \/ hasExpired(e, elapsed)
    \/ e.attempts >= RetryThreshold[e.id]

-----------------------------------------------------------------------------
(***************************************************************************)
(* Liveness.  Node.js serves the timers and replies of a live process and  *)
(* Redis the commands it gets; tickers tick again; a dead connection is    *)
(* noticed and a heartbeat nobody renews gets old.  Applications call back *)
(* (except for Hangers).  Nothing obliges anyone to produce, to shut down  *)
(* or to crash.                                                            *)
(***************************************************************************)
Alone(step) == step /\ UNCHANGED <<workerVars, poolVars>>

SysFairness ==
  /\ \A c \in Consumer :
       /\ WF_stateVars(Alone(\/ setUpBroker(c) \/ setUpHeartbeat(c)
                             \/ setUpProcessingQueue(c)))
       /\ WF_stateVars(\/ tearDownConsumerWorkers(c)
                       \/ Alone(\/ c \notin workers /\ tearDownHeartbeat(c)
                                \/ tearDownConsumerRedisClient(c)
                                \/ tearDownSharedRedisClient(c)))
       /\ WF_stateVars(Alone(Beat(c)))
       /\ WF_stateVars(Alone(ConnectionLost(c)))
       /\ WF_stateVars(Alone(\/ Dequeue(c) \/ ReceiveExpired(c) \/ Receive(c)
                             \/ HandlerReturns(c) \/ ExecCmd(c)))
       /\ WF_stateVars(Alone(TimerExpires(c)))
       /\ WF_stateVars(StartWorkers(c))
       /\ WF_stateVars(power[c] = "crashed" /\ HeartbeatExpires(c))
       /\ WF_stateVars(c \in workers /\ GCStep(c))
       /\ WF_stateVars(c \in workers /\ RequeueStep(c))
       /\ WF_stateVars(c \in workers /\ (DelayStep(c) \/ ScheduleStep(c)))
  /\ \A m \in MessageId :
       WF_stateVars(BecomesDue(m) /\ UNCHANGED <<consumerVars, gc, requeueBatch,
                                                poolVars>>)

SysFairSpec == SysSpec /\ SysFairness

\* Every published message is eventually acknowledged or dead-lettered, or no
\* consumer is left running, or a consumer that can still fetch was taken for
\* dead: through crashes, recovery by the collector, retries, delays,
\* handlers that never call back and are timed out.
EventuallyFinished ==
  \A m \in MessageId :
    m \in published
      ~> (Settled(m) \/ mistaken # {} \/ \A c \in Consumer : ~isRunning(c))
=============================================================================
