# A TLA+ model of redis-smq

redis-smq is a message queue for Node.js that keeps all of its state in Redis.
Producers push messages; consumers fetch them one at a time, hand them to the
application and acknowledge or unacknowledge them; background workers recover
the messages of dead consumers and give failed ones another delivery. There is
no server of its own: everything that makes the queue reliable is the order in
which several processes send commands to Redis. This project models that
order, checks it with TLC and proves the central results with TLAPS.

Paths below are relative to the repository (`src/system/...` is the
implementation).

## Inventory

| Part (source) | State | Operations | Correct when |
|---|---|---|---|
| Message (`message.ts`) | attempts, options, state of its schedule | `incrAttempts`, `hasExpired`, `hasRetryThresholdExceeded`, `reset` | a message gets the deliveries its options promise |
| Consumer (`base.ts`, `consumer/consumer.ts`) | power state, two connections, consume timer, `processing` list in Redis | `run`, `shutdown`, the `MESSAGE_NEXT` loop, consume timeout, `catch` of a throwing handler | one message at a time, each settled once, the loop never stops, what is in work is stored |
| Broker (`broker.ts`), message manager (`message-manager/`) | none | dequeue, acknowledge, dead-letter, delay, requeue: one list move each | the move hits the message it was decided for |
| Heartbeat (`consumer/heartbeat.ts`) | a timestamp per consumer in a Redis hash | beat every second, expire on quit, `isAlive` | only dead consumers look dead |
| Garbage collector (`workers/gc.worker.ts`) | the tick it is in | list processing queues, check the heartbeat, read, move, destroy | messages of dead consumers are recovered, nobody else's are touched |
| Requeue worker (`workers/requeue.worker.ts`) | the batch it read | LRANGE, then a MULTI | nothing lost, nothing twice |
| Delay and schedule workers, `schedule.handler.ts`, `delay.handler.ts` | sorted set of ids and hash of texts of scheduled messages | schedule, move delayed retries to the schedule, move what is due to its queue and compute its next timestamp, delete, purge | each message is enqueued as often as its schedule says, never early; what is deleted stays away |
| Consumer workers, lock manager, worker runner, ticker | lock key, ticker, child processes | tick, acquire, extend, fork, kill, release | one consumer has workers; another takes over |
| Priority queue (`enqueue.handler.ts`, Lua scripts) | sorted set of ids, hash of texts | enqueue, poll, delete, purge | the two agree; higher priorities first |
| Message and queue manager front ends | lock per list while a deletion runs | list, delete, requeue by sequence id; purge | a call acts on the message it names and answers truthfully |
| Producer (`producer/producer.ts`, `base.ts`) | power state, connection, calls that wait for the event UP | produce, run, shutdown | an answer says what is stored; the order of the calls is kept; no call is forgotten |
| Redis keys, Redis client | namespace | which commands are atomic, which keys are global | one namespace does not disturb another |
| Heartbeat monitor worker | none (its ticker is never started) | none | - |
| Rates (`message-rate.ts`), stats worker, monitor server (`monitor-server/`) | a report per instance in a Redis hash, a lock | report once a second; lock, collect, publish; listen, quit; HTTP | one worker collects, somebody always does, statistics show what is there |

Parts interact only through Redis, with three exceptions: a consumer forks and
kills the workers; the consume timer and the application's callback race inside
one process; and the exit of a worker ends its consumer (`WorkerRunner`).

What is hard: every reply is handled some commands after the state it describes
(heartbeat checks, LRANGE before MULTI, positions in a listing); a process may
die between any two commands; locks and heartbeats are leases that expire under
a holder that is merely slow; settling moves work by position and not by name;
messages that are retried travel through lists served by other processes.
`PROJECT.json` lists these hazards with the line at which each bites and the
property that watches it.

## Modules

| Module | Models | State and actions |
|---|---|---|
| `Message` | the text of a message and `Broker.retry` | options are constants indexed by message; an `Entry` is id and attempts |
| `RedisStore` | the keys and the list commands | one variable per key; `Settle` is the four moves off a processing queue |
| `Consumer` | one or more consumer processes | `power` (where `run`/`shutdown` are), `polls` and `inbox` (BRPOPLPUSH at the server and its reply), `jobs` (closures of `handleConsume` that can still act), `cmds` (moves sent and not yet executed) |
| `GCWorker`, `RequeueWorker`, `DelayedRetry` | the workers | one action per command they send; what they have read is a variable |
| `RedisSMQ` | all of the above, a producer and time | `workers` (who has worker processes), `Races` (which events of the environment may happen), `mistaken` and `exposed` (whom a collector wrongly took for dead, and which messages it met there) |
| `WorkerOwnership` | abstract: at most one owner of the workers | `Start`, `Stop` |
| `ConsumerWorkers` | the lock protocol that implements it | lock key, ticker, runner, processes; signals, lapses of the lock and untimely `quit()` calls, and in `hit` whom they befell |
| `PriorityQueue` | a queue with priorities | sorted set and hash; sets of workers that start, overlap and are killed, one action per command they send; a consumer polls, then settles what it got in one step |
| `MessageAdministration` | list, delete, requeue, purge while consumers work | a call is a small program: ask, lock, read, remove or MULTI, release, answer |
| `Scheduler` | scheduled messages: producer, schedule worker, deletions, purges, time | sorted set (time left until each timestamp) and hash; what the worker has read; `getNextScheduledTimestamp` as operators |
| `Producer` | one producer from its constructor on | power state, broker, connection, commands and replies under way, calls that wait, what each caller was told |
| `Monitoring` | reports, heartbeats, stats workers and monitor servers | report and heartbeat entries, `phase` of each server (a server that is killed leaves its stats worker running), `pc` and `data` of each stats worker, the lock |
| `MC...` | instances for TLC | messages and queues of each run |
| `ConsumerProofs`, `RedisSMQProofs`, `WorkersProofs`, `PriorityProofs`, `AdministrationProofs`, `SchedulerProofs`, `ProducerProofs`, `MonitoringProofs` | theorems | see Proofs |

`RedisSMQ` composes `Consumer` (which extends `RedisStore` and `Message`) with
the workers by extension: the modules share the Redis variables, and each
worker action is conjoined with UNCHANGED of what other processes own. The
lock protocol is a model of its own; `RedisSMQ` takes its result (one set of
workers) and drops it again under the race `"overlap"`. `Scheduler` goes
further than `DelayedRetry`, which is the schedule as retries use it:
timestamps, repeats, deletions and purges. `Producer` ends where a message is
stored; `RedisSMQ` takes over there.

Some faults take a guarantee away from those they befall. History variables
record whom: `hit` (`ConsumerWorkers`), `overlapped`, `unregistered`,
`mistaken` and `exposed` (`RedisSMQ`), `overlapped` (`PriorityQueue`), `moved`, `copied` and `lapsed` (`MessageAdministration`), `gone`
(`Scheduler`: removed before a worker had read it) and `lapsed`
(`Monitoring`). The properties then state what still holds when these faults
happen: a fault does not spread, and nothing but it breaks the guarantee. No
action depends on one of these variables, except that LREM in `PriorityQueue`
has more outcomes after an overlap.

Definitions keep the names of the code. `map` in `PROJECT.json` gives the lines
of each. Definitions marked "Mutant" are deliberately wrong variants, used to
show that a property notices the mistake; no specification contains them.

### Abstractions

- A message text is an id and an attempt counter (in `MessageAdministration`
  an id and a stamp that stands for everything else that changes). Bodies,
  logging, timestamps and event payloads are left out.
- A Redis command, a Lua script and a MULTI are atomic, which Redis guarantees.
  A script that fails keeps the effects it already had (`DequeueFails`).
- Time is nondeterministic: `TTLElapses`, `TimerFires`, `BecomesDue`,
  `HeartbeatExpires` and `LockExpires` happen at any moment their guard admits.
- A handler calls back at most once and does not throw after it has called
  back; it may throw (`Throwers`), hang (`Hangers`), succeed or fail.
- Errors of Redis commands end the process (`Crash`), as `Base.handleError`
  does; an error of a start-up task, which `Base.run` ignores, is `SetUpFails`
  (consumer) and `UpWithoutBroker` (producer).
- In `RedisSMQ` workers die with their consumer; workers that outlive it are in
  `ConsumerWorkers` (`Killed`) and, as two sets at work, under `"overlap"`.
- `PriorityQueue` has no ttl; its consumers are running throughout. Its waiting
  lists are kept as the sets of their texts; once sets of workers have
  overlapped a list may hold a text twice, and LREM may leave it in the set. In
  `MessageAdministration` a failed message goes back to its queue in one step,
  and what is requeued with priority stays where it was put.
- `Scheduler` keeps the time left until each timestamp, so that time is
  unbounded and the state finite. A CRON expression is a period that divides
  the cycle of the clock. The MULTIs of a batch reach Redis in the unit of time
  in which they were computed; every other step may be late. A schedule worker
  that dies is replaced, which `Takeover` justifies. The lock of a deletion
  does not expire: it protects only deletions from each other.
- `Producer` numbers calls in their order; they are not made from inside a
  listener for UP. A lost connection aborts the commands without a reply, as
  node_redis does; ioredis may send them again, which is not modelled.
- In `Monitoring` a report is fresh or more than a second old; the rates in it,
  the number of scheduled messages, and the HTTP side are left out.

### Timing and `Races`

Nothing keeps the garbage collector from inspecting a consumer at the wrong
moment: in the second before its first heartbeat, or after its heartbeat was
removed and before its connection is closed. The model does not either:
`handleProcessingQueue` is enabled for every registered consumer whenever the
collector runs. `Races` is the set of events of the environment an instance
admits beside that; each has the guard of one action.

| Event | What happens |
|---|---|
| `stall` | a live consumer sends no heartbeat for ten seconds |
| `halfOpen` | Redis keeps the connection of a dead consumer longer than its heartbeat lives |
| `setUpError` | registering the processing queue fails |
| `overlap` | two consumers have workers at the same time |

At the two moments above, after `stall` and `halfOpen`, and with two namespaces
the collector can be at work on the processing queue of a consumer that is still
connected. `mistaken` records
such a consumer at the step at which it happens, `exposed` every message that
is in its processing queue from then on. `NothingLost`, `DeliveredToOne` and
`Findable` are false then (`shutdown_race`, `two_namespaces`, and the table
below); the passing run shows what remains: they hold as long as nobody is
mistaken, and afterwards no message is lost but those in `exposed`
(`LossConfined`).

## Runs

Passing runs:

| Run | Instance | Shows |
|---|---|---|
| `consumer` | 2 consumers run once, 3 messages (delayed with a ttl; consume timeout and hanging handler; periodic and throwing), 1 crash | the loop neither forks nor dies, moves hit their message, held messages are stored, only successes are acknowledged, retries follow the policy |
| `redis_smq` | 2 consumers, one up and one starting, a message with an immediate retry and a ttl or one with a delayed retry, all workers, 1 crash, the events `halfOpen`, `overlap` and `setUpError` | until a collector takes a connected consumer for dead: nothing lost, no threshold overrun, messages of registered consumers recoverable, and nothing duplicated or with two consumers until two sets of workers ran at once; after it, no message lost but those it met there |
| `redis_smq_live` | 2 consumers up, 2 messages (one with a consume timeout and a handler that may hang, one delayed), 1 crash | every message ends while a consumer is left and no connected one was taken for dead |
| `workers` | 3 consumers, 2 worker files, every fault | who has workers and is not hit owns the lock; a consumer that is down has none; refinement of `WorkerOwnership`; a running consumer gets workers when the owner is gone |
| `priority` | 2 messages of different priority, one with a delayed and one with an immediate retry, 2 consumers, a set of workers with and one without priorities that start, overlap and are killed at any point | the message with delayed retries stays safe beside one that is lost; no message is given out twice until the sets overlap |
| `administration` | 2 callers, 2 consumers, 2 messages, all operations overlap, callers die, locks expire | calls touch only the message they name; nothing is lost; of concurrent deletions one succeeds; locks are given back; only a message that a requeue copied is delivered twice |
| `scheduler` | two of three messages (delay and a repeat; CRON, a repeat and a period; 2 repeats with a period), 1 worker, 2 deleting callers, purges | no delivery too early or left out, none too many for a schedule of one kind and at most one for a combined one; ids have texts; what is removed unread stays away |
| `producer` | 4 calls (one scheduled), 3 connections, errors, shutdowns, restarts, crashes | answers are true, the order of calls is kept, every waiting call is answered |
| `monitoring` | a consumer, a producer or a message, 2 servers that quit, end on errors or are killed | one collector until a lock lapses, statistics keep coming, crashed instances leave them although their heartbeats stay, no message is counted twice |

Runs that end in a counterexample, each against a sentence of the documentation
(quoted under `findings`):

| Run | Counterexample |
|---|---|
| `shutdown_race` | `NothingLost`: the collector destroys a processing queue into which a consumer that is shutting down has just fetched a message |
| `two_namespaces` | `DeliveredToOne`: the collector of one namespace takes live consumers of another for dead |
| `priority_requeue` | `PriorityNothingLost`: an immediate retry with priorities puts the JSON where an id is expected; the next poll loses the message and ends the consumer |

The first needs an unlucky moment, the other two only a configuration.

### Other behaviours the model exhibits

These are not runs of their own. Each follows when the cfg named is changed as
stated and checked for the one property.

| Change | Property | Behaviour |
|---|---|---|
| `MCConsumer`: `Throwers = {m2}` | `HeldIsStored` | a handler throws; its consume timer stays armed and later moves the next message away (`consumer.ts:80`) |
| `MCConsumer`: `MaxRuns = 2` | `AcknowledgedSucceeded` | an instance shut down in mid-message and run again acknowledges the message left behind; `NeverIdle` still holds (checked with one consumer) |
| `MCShutdown`: `InitiallyUp = {c1}` | `DeliveredToOne` | the message of a consumer that has not sent its first heartbeat is taken from it and delivered to another |
| `MCShutdown`: `Races = {"stall"}` | `DeliveredToOne` | a slow consumer's message is delivered to another |
| `MCShutdown` | `Findable` | a message is served to a consumer that is shutting down after its queue was unregistered; with `Races = {"halfOpen"}` and `MaxCrashes = 1` also to a client that is dead |
| `MCShutdown` | `RetriedAsDocumented` | dead-lettering comes one retry earlier than `docs/api/message.md` says of `setRetryThreshold` |
| `MCAdmin` | `PendingDeleteIsTrue` | `deletePendingMessage` answers success for a message that has moved |
| `MCScheduler` | `RepeatedAsTested` | a delay is a delivery of its own: with `setScheduledRepeat(3)` a message is enqueued four times. `tests/scheduling-messages/test00006.test.ts` expects three; its mock throws at the fourth, which the consumer catches. `OneTooMany` says that the surplus is one |
| `MCScheduler` | `RepeatedAsDocumented` | a CRON expression with a repeat of N delivers N + 1 times per instant, where `docs/api/message.md` says "delivered 5 times every hour" of a repeat of 5 |
| `MCScheduler` | `DeletedIsGone` | a repeating message whose text the worker has read is scheduled again after its deletion was confirmed |
| `MCScheduler` | `WorkersSurvive` | a message deleted between the two reads has no text: the worker throws, and with it its consumer ends |
| `MCScheduler` | `TextsReachable` | a purge leaves the texts in the hash for ever |
| `MCScheduler`: `Worker = {w1, w2}` | `DeliveriesBounded` | two schedule workers enqueue a message twice |
| `MCProducer` | `NeverSilent` | a call made while the producer goes down finds no broker, and its callback is never called |
| `MCProducer` | `ErrorMeansNotStored` | shutdown answers a call with an error although Redis has stored, or will store, the message |

The runs with a liveness property use the specification without fairness for
these.

In `PriorityQueue`, with a set of workers for which `WithPriority` is FALSE,
`lifo` may become non-empty: workers of a consumer without priorities put a
message of the priority queue on a list that none of its consumers reads.
`LossConfined` also holds with `stall`: `MCShutdown` with `Races = {"stall"}`
and `MaxCrashes = 1`.

### Bounds

- Two consumers are enough for every race in the code: one acts on another's
  state. `two_namespaces` and `workers` have three, so that someone is left
  after an owner and a rival. Two servers and two callers likewise.
- One to three messages: lists have length at most two or three, the positions
  first, last and neither occur, and batches hold more than one. `redis_smq`
  produces one of two messages and `scheduler` two of three (`MaxProduced`): the
  others are there for their options, any of which may be chosen.
- `OneTrouble` (a CONSTRAINT of `redis_smq`): what follows a mistake of the
  collector is explored while one set of workers runs, and overlapping workers
  while nobody is mistaken. Only the combination of both is cut off, and there
  only `LossConfined` says something. `NobodyMistaken` (of `redis_smq_live`)
  ends a behaviour at a mistake: `EventuallyFinished` is true of it from there
  on, because `mistaken` never shrinks.
- `MaxCrashes`, `MaxRuns`, `MaxAttempts`, `MaxRequests` cap the counters that
  would grow without end; each admits the event and one repetition or, for
  crashes, the loss of one of two consumers. `BatchSize` (100 in the code) is 2.
- `MaxCalls` and `MaxConnections`: calls before, during and after a restart or
  a lost connection, two of them in a row; a third connection follows a second
  that was lost itself.
- `Cycle` is the period of the CRON expression; `MaxSent` is one more than any
  message may be enqueued, so that a delivery too many is seen. `Fleets`: a
  consumer, a producer or a message, since each touches only entries of its own.
- Retry thresholds are 2 (0 to 3 where several messages differ), so that both a
  retry and its refusal occur.
- In `MessageAdministration` messages, consumers, callers and stamps are
  symmetric, which `administration` uses; the runs with a liveness property use
  no symmetry.
- `CHECK_DEADLOCK FALSE` stands where the system may really stop: every
  consumer has crashed or is down, every message has been produced, every call
  made. Consumers of `PriorityQueue` poll for ever and time always passes in
  `Scheduler`, so deadlock is checked there.
- `consumer` and `workers` check the type invariant of their module. Those of
  the other modules (`SysTypeOK`, `PriorityTypeOK`, `AdminTypeOK`,
  `SchedTypeOK`, `ProducerTypeOK`, `MonitorTypeOK`) are proved.

### Fairness

Weak fairness of: handling a reply that has arrived and executing a command
that was sent (Node.js and Redis serve them); a timer that is armed; an
application's callback, unless its message is a hanger; each ticking worker
(`Ticker` re-arms itself), the schedule and stats workers included; the steps
of `run` and `shutdown` once called; the passing of time (`Tick`, the age of a
report); the expiry of a heartbeat whose owner is gone and of a lock whose worker has
ended. No fairness is
assumed of producing, deleting, calling `run` or `shutdown`, crashing, starting
a monitor server, or of any race. `StatsKeepComing` and `GhostsLeave` ask that
from some time on a monitor server is up.

## Proofs

Every safety property that a passing run checks, invariant or action property,
except `LossConfined`, is also proved by TLAPS: for every set of consumers, messages, callers and
servers, every schedule, and every value of the bounds. `theorems` in
`PROJECT.json` pairs the two. Each proof has an inductive invariant with one
lemma per action (or kind of action) that the action keeps it.

### One consumer: `ConsumerProofs`

`TypeCorrect` holds without conditions. The rest holds for instances that are
run once (`SingleUse`) and whose messages with a throwing handler have no
consume timeout (`NoStaleTimers`); the first two rows of the table above show
that both are needed. The invariant is `IndInv`: the type invariant,
`LoopInvariant` (each consumer is in exactly one stage of the loop: waiting for
a fetch, holding a reply, running a handler, waiting for a move, or finished;
and in each stage its processing queue holds exactly the message concerned) and
`Destinations` (what the lists hold is justified). The properties alone are not
inductive: that a positional move hits its message depends on the list holding
one element, which depends on there being one fetch at a time, which depends on
the stage. Consumers other than the one that acts are covered by `OtherLoops`.

### The composed system: `RedisSMQProofs`

`SysTypeCorrect` holds without conditions. The other theorems assume
`SingleUse` and `NoStaleTimers`, and hold for any namespaces and events of the
environment until a collector is at work on the processing queue of a consumer
that is still connected: the invariants are stated as `mistaken = {} => ...`.
`shutdown_race`, `two_namespaces` and the table show what happens then. No
timing is assumed away: `UnmistakenStep` turns the history into a fact about a
step (no connected consumer is taken for dead before or after it), and the
invariant is kept by every such step. The argument has four layers.

1. `Control`: every consumer is in a stage of its loop or is offline with a
   queue that was emptied (`Stages`); a queue that may hold something is
   registered (`Registration`); and a collector at work on a consumer's queue has
   a right idea of it (`CollectorKnows`): a consumer that is offline stays so.
   From it follows `Recoverable`.
2. `Policy`: every entry of every list, of the schedule and of every batch is
   one that `Broker.retry` may have put there. It gives the threshold and where
   messages end.
3. `Whereabouts`: the lists and the schedule together hold exactly the messages
   that were published, and what a worker has read but not yet moved is one of
   them. It gives `MessagesKept`, even with two sets of workers: a batch that
   another worker has already moved is put in a second time, but never gone.
4. `Pool` and `Exact`: while one set of workers runs, the batches are parts of
   the lists they were read from, and each message has one copy. It gives
   `NoDuplicates` and `HeldByOne`.

The second half treats every step as a move of one entry (`Transfer`), an
arrival, or one of the two batches. What LREM of a batch takes out and LPUSH of
a batch puts in, for batches of any length, is an induction over the batch: the
steps are a recursive function, and the induction is over a set of naturals
(`NatClosed`), which the provers can use where they cannot use a rule with a
predicate as parameter.

### Other components

- `WorkersProofs`. Whatever faults happen: types, mutual exclusion of consumers
  that were not hit, that such a consumer owns the lock when it has or forks
  workers, that it leaves none when it goes down, and that the protocol
  implements `WorkerOwnership` (`active` is the set of consumers with processes
  that were not hit). `WorkersInv` adds that ticks and worker processes belong
  to running objects: without it a lock that was released or has expired could
  be followed by a fork.
- `PriorityProofs`. For any sets of workers, overlapping or not: a message that
  has a retry delay is never dropped from a priority queue (`DelayedKept`), and
  the poll that reaches it finds its text (`DelayedDelivers`), although messages
  without one are lost beside it. Until two sets overlap, no message is given
  out twice (`PriorityGivesOutOnce`), although LRANGE and the two reads of the
  schedule worker come before their MULTI and a set may be killed in between:
  what a batch holds is still in the list it was read from. `PriorityInv`
  adds the types, that a consuming consumer holds one message, and that the
  requeue list, whose worker writes members without a text, holds no message
  with a retry delay. `OnePlace` says where a message can be at once: the text
  may stay in the hash, but of the sorted set, the waiting lists, the settled
  lists and the processing queues one has it. `priority_requeue` shows that the
  delay is needed for the first two.
- `AdministrationProofs`. Without conditions, with callers that die and locks
  that expire. `AdminInv` ties locks to calls in both directions (`LockInCall`,
  `Locking`), what a call has read to the message it names (`Reading`), and
  says that what a deletion has read is still in its list unless somebody who
  needs no lock was there (`Telling`): that is why a successful LREM by value
  under a lock is a truthful answer. `Exact` says that what no requeue copied is
  in one place. LREM is by value, so `OnlyTheNamedIsTaken` needs `Reading` only.
- `SchedulerProofs`. For any number of workers: the types, that every id of the
  sorted set has its text (`IdsAlwaysHaveTexts`), so that only a deletion
  between its two reads can end a schedule worker, and that a message removed
  unread stays away (`RemovedUnreadIsGone`). `SchedInv` adds that only messages
  that were produced are scheduled, read, named or gone. For one worker
  (`OneWorker`, which `WorkersProofs` justifies and the table above shows to be
  needed): no delivery too many of a schedule of one kind (`NeverTooOften`), at
  most one too many of a repeat combined with a delay or CRON
  (`AtMostOneTooMany`), and none too early (`NeverTooEarly`). The invariant `Budget` follows a text from the schedule
  through the two reads into its MULTI and back: it is due only when its
  message has aged enough, and either its repeat counter has kept up with the
  deliveries (`May`) or it waits exactly for the next CRON instant
  (`ToInstant`), at which the count starts again.
- `ProducerProofs`. Without conditions. `ProducerInv` says which commands and
  replies each phase admits (`Phases`), that a call is in one place at a time
  (`KnownCalls`, `Apart`), what its caller can have been told there (`Truth`),
  and that stored messages whose answer was or can still be success are in call
  order, before those under way on the same connection (`Order`).
- `MonitoringProofs`. For any number of servers and instances, whether servers
  quit, end on an error or are killed and leave their worker behind: a stats
  worker that collects has the lock (`CollectorsAreLocked`), hence there is one
  (`OneCollectorAtATime`), until the lock of a running worker lapses.
  `CollectorInv` is that claim with the types it needs. That the published sizes count no message twice
  (`NoMessageCountedTwice`) and the types hold for a finite set of messages,
  which is what a Redis instance holds: `StatsInv` says that the sizes a worker
  carries are those of one state.

### Only model-checked

- Liveness: `EventuallyFinished`, `Takeover`, `AllDelivered`,
  `EveryCallAnswered`, `StatsKeepComing`, `GhostsLeave`. The prover has no rules
  for fairness and ENABLED here.
- `LossConfined`: what remains after a mistake of the collector.
- The three counterexamples and the behaviours of the table, which are about
  single executions.

## Not modelled

- The heartbeat monitor worker does nothing at this commit: its ticker is never
  started.
- Rates as numbers, the slots they are computed from and `isIdle` (used by
  tests only); they take no part in delivery.
- `getQueueMetrics` and the other readers of sizes and pages, except as the
  first step of a call in `MessageAdministration`.
- HTTP routing, request validation and rendering of the monitor server: its
  requests are the calls of `MessageAdministration` and `Scheduler`.
- Connection set-up, version checks, configuration validation, setters of
  `Message`, logging: input and output.

## Plan

1. Done: the modules above, their runs, and proofs of all the safety properties
   the runs check but `LossConfined`.
2. An abstract specification of the life of one message (pending, in work,
   waiting, ended), implemented by `RedisSMQ` until a consumer is mistaken.
3. A proof of `LossConfined`: `Whereabouts` for the messages that are not
   exposed, beside consumers in any state.
4. Handlers that call back more than once; `run` and `shutdown` called in any
   order, which `PowerManager` refuses with an exception.
