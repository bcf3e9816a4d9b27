----------------------------- MODULE RedisStore -----------------------------
(***************************************************************************)
(* The Redis keys every process of RedisSMQ shares, and the commands that  *)
(* move a message from one list to another.  Redis runs one command (or    *)
(* one MULTI) at a time, so each operator below is one atomic step of it.  *)
(* The left end of a list is the head of its sequence.                     *)
(***************************************************************************)
EXTENDS Message, SequencesExt

CONSTANTS
  Consumer,     \* the consumer ids
  Namespace,    \* the key namespaces (redisKeys.setNamespace)
  QueueName,    \* the names of the message queues
  QueueOf,      \* QueueOf[c]: the queue that consumer c consumes
  Home,         \* Home[m]: the queue that message m is published to
  InitiallyUp   \* the consumers that are up and beating initially

Queue == [ns : Namespace, name : QueueName]

ASSUME StoreAssumption ==
  /\ QueueOf \in [Consumer -> Queue]
  /\ Home \in [MessageId -> Queue]
  /\ InitiallyUp \subseteq Consumer

VARIABLES
  queue,          \* queue[q]: keyQueue, the pending messages
  processing,     \* processing[c]: keyQueueProcessing of consumer c
  requeueList,    \* keyQueueRequeue, one list for all queues
  delayList,      \* keyQueueDelay, one list for all queues
  acknowledged,   \* acknowledged[q]: keyQueueAcknowledgedMessages
  deadLetter,     \* deadLetter[q]: keyQueueDL
  index,          \* keyIndexProcessingQueues: consumers with a known queue
  heartbeat,      \* heartbeat[c]: its entry in keyIndexHeartbeats
  published,      \* the messages published so far
  elapsed         \* the messages whose time to live has passed

lists == <<queue, processing, requeueList, delayList, acknowledged, deadLetter>>
storeVars == <<lists, index, heartbeat, published, elapsed>>

\* "none": no entry; "fresh": written in the last 10 s; "stale": older.
Heartbeat == {"none", "fresh", "stale"}

StoreTypeOK ==
  /\ queue \in [Queue -> Seq(Entry)]
  /\ processing \in [Consumer -> Seq(Entry)]
  /\ requeueList \in Seq(Entry)
  /\ delayList \in Seq(Entry)
  /\ acknowledged \in [Queue -> Seq(Entry)]
  /\ deadLetter \in [Queue -> Seq(Entry)]
  /\ index \subseteq Consumer
  /\ heartbeat \in [Consumer -> Heartbeat]
  /\ published \subseteq MessageId
  /\ elapsed \subseteq MessageId

StoreInit ==
  /\ queue = [q \in Queue |-> <<>>]
  /\ processing = [c \in Consumer |-> <<>>]
  /\ requeueList = <<>>
  /\ delayList = <<>>
  /\ acknowledged = [q \in Queue |-> <<>>]
  /\ deadLetter = [q \in Queue |-> <<>>]
  /\ index = InitiallyUp
  /\ heartbeat = [c \in Consumer |-> IF c \in InitiallyUp THEN "fresh" ELSE "none"]
  /\ published = {}
  /\ elapsed = {}

-----------------------------------------------------------------------------
(***************************************************************************)
(* List commands: LMOVE src dst LEFT RIGHT (or the Lua script that stands  *)
(* in for it) and RPOPLPUSH src dst.  On an empty source both do nothing   *)
(* and still reply without an error.                                       *)
(***************************************************************************)
LPopped(src) == IF src = <<>> THEN src ELSE Tail(src)
RPopped(src) == IF src = <<>> THEN src ELSE Front(src)
lpoprpush(src, dst) == IF src = <<>> THEN dst ELSE Append(dst, Head(src))
rpoplpush(src, dst) == IF src = <<>> THEN dst ELSE <<Last(src)>> \o dst

(***************************************************************************)
(* ProcessingHandler: the four moves off the processing queue of c.  The   *)
(* message is a parameter of the code's methods, but what is moved is      *)
(* whatever the list has at that end.  q is the queue whose keys the       *)
(* caller uses.                                                            *)
(***************************************************************************)
acknowledge(c, q) ==
  /\ processing' = [processing EXCEPT ![c] = LPopped(@)]
  /\ acknowledged' = [acknowledged EXCEPT ![q] = lpoprpush(processing[c], @)]
  /\ UNCHANGED <<queue, requeueList, delayList, deadLetter>>

deadLetterMessage(c, q) ==
  /\ processing' = [processing EXCEPT ![c] = LPopped(@)]
  /\ deadLetter' = [deadLetter EXCEPT ![q] = lpoprpush(processing[c], @)]
  /\ UNCHANGED <<queue, requeueList, delayList, acknowledged>>

delayBeforeRequeue(c) ==
  /\ processing' = [processing EXCEPT ![c] = RPopped(@)]
  /\ delayList' = rpoplpush(processing[c], delayList)
  /\ UNCHANGED <<queue, requeueList, acknowledged, deadLetter>>

requeue(c) ==
  /\ processing' = [processing EXCEPT ![c] = RPopped(@)]
  /\ requeueList' = rpoplpush(processing[c], requeueList)
  /\ UNCHANGED <<queue, delayList, acknowledged, deadLetter>>

Settle(op, c, q) ==
  \/ op = "acknowledge" /\ acknowledge(c, q)
  \/ op = "deadLetter" /\ deadLetterMessage(c, q)
  \/ op = "delay" /\ delayBeforeRequeue(c)
  \/ op = "requeue" /\ requeue(c)

\* Mutant: BRPOP, the message is nowhere but in the reply.
BlockingPop(c) ==
  LET q == QueueOf[c] IN
  /\ queue[q] # <<>>
  /\ queue' = [queue EXCEPT ![q] = Front(@)]
  /\ UNCHANGED <<processing, requeueList, delayList, acknowledged, deadLetter>>

\* DequeueHandler.dequeue: BRPOPLPUSH from the pending queue of c.
dequeue(c) ==
  LET q == QueueOf[c] IN
  /\ queue[q] # <<>>
  /\ queue' = [queue EXCEPT ![q] = Front(@)]
  /\ processing' = [processing EXCEPT ![c] = <<Last(queue[q])>> \o @]
  /\ UNCHANGED <<requeueList, delayList, acknowledged, deadLetter>>

\* The time to live of a published message passes.
TTLElapses(m) ==
  /\ m \in (published \cap TTL) \ elapsed
  /\ elapsed' = elapsed \union {m}
  /\ UNCHANGED <<lists, index, heartbeat, published>>
=============================================================================
