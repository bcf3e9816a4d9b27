--------------------------- MODULE PriorityQueue ---------------------------
(***************************************************************************)
(* A queue whose consumers have priorityQueue enabled.  Its pending        *)
(* messages are kept twice: a sorted set orders their ids by priority and  *)
(* a hash maps an id to the text of the message.  Consumers poll it with a *)
(* Lua script.  The workers are shared by all queues of a namespace, so    *)
(* the one that gives a message of this queue another delivery may belong  *)
(* to a consumer that is configured without priorities (WithPriority).     *)
(*                                                                         *)
(* The steps of the message loop are those of Consumer, here one each; the *)
(* commands of the workers are those of RequeueWorker and DelayedRetry.    *)
(***************************************************************************)
EXTENDS Message, SequencesExt

CONSTANTS
  Consumer,         \* the consumers of the queue
  Priority,         \* Priority[m]: 0 is the highest, 7 the lowest
  Worker,           \* the sets of workers, one per parent consumer
  WithPriority,     \* WithPriority[w]: config.priorityQueue of that parent
  MaxAttempts       \* bound: attempts beyond which no handler fails

ASSUME PriorityAssumption ==
  /\ Priority \in [MessageId -> 0..7]
  /\ WithPriority \in [Worker -> BOOLEAN]
  /\ MaxAttempts \in Nat

VARIABLES
  zset,           \* keyQueuePriority
  hash,           \* keyPendingMessagesWithPriority, at most one text per id
  lifo,           \* keyQueue of the same name; no consumer here reads it, so
                  \* that its order does not matter
  processing,     \* processing[c]: keyQueueProcessing
  requeueList,    \* keyQueueRequeue: its texts
  delayList,      \* keyQueueDelay: its texts
  scheduled,      \* keyQueueScheduled and its hash, one text per id
  settled,        \* acknowledged and dead-letter lists
  published,      \* messages published so far
  removed,        \* messages removed on demand (history)
  stage,          \* stage[c]: where the message loop of c is
  status,         \* status[w]: whether the workers of w run
  requeueBatch,   \* requeueBatch[w]: what its requeue worker has read
  delayBatch,     \* delayBatch[w]: what its delay worker has read
  dueIds,         \* dueIds[w]: what its schedule worker has read
  dueBatch,       \* dueBatch[w]: what that has fetched, not yet enqueued
  overlapped      \* two sets of workers have run at once (history)

orderVars == <<zset, hash>>
listVars == <<requeueList, delayList, scheduled>>
batchVars == <<requeueBatch, delayBatch, dueIds, dueBatch>>
workerVars == <<status, batchVars, overlapped>>
pqVars == <<orderVars, lifo, processing, listVars, settled, published, removed,
            stage, workerVars>>

(***************************************************************************)
(* A member of the sorted set is a text: the id of a message or, when the  *)
(* requeue worker has put it there, its whole JSON.                        *)
(***************************************************************************)
IdMember == [text : {"id"}, id : MessageId]
JsonMember == [text : {"json"}, id : MessageId, attempts : Nat]
Member == IdMember \union JsonMember
IdOf(m) == [text |-> "id", id |-> m]
JsonOf(e) == [text |-> "json", id |-> e.id, attempts |-> e.attempts]

Stage == {"polling", "asleep", "consuming", "dead"}
Status == {"off", "on", "panicking"}

PriorityTypeOK ==
  /\ zset \subseteq Member
  /\ hash \subseteq Entry
  /\ lifo \subseteq Entry
  /\ processing \in [Consumer -> Seq(Entry)]
  /\ requeueList \subseteq Entry
  /\ delayList \subseteq Entry
  /\ scheduled \subseteq Entry
  /\ settled \subseteq Entry
  /\ published \subseteq MessageId
  /\ removed \subseteq MessageId
  /\ stage \in [Consumer -> Stage]
  /\ status \in [Worker -> Status]
  /\ requeueBatch \in [Worker -> SUBSET Entry]
  /\ delayBatch \in [Worker -> SUBSET Entry]
  /\ dueIds \in [Worker -> SUBSET MessageId]
  /\ dueBatch \in [Worker -> SUBSET Entry]
  /\ overlapped \in BOOLEAN

PriorityInit ==
  /\ zset = {}
  /\ hash = {}
  /\ lifo = {}
  /\ processing = [c \in Consumer |-> <<>>]
  /\ requeueList = {}
  /\ delayList = {}
  /\ scheduled = {}
  /\ settled = {}
  /\ published = {}
  /\ removed = {}
  /\ stage = [c \in Consumer |-> "polling"]
  /\ status = [w \in Worker |-> "off"]
  /\ requeueBatch = [w \in Worker |-> {}]
  /\ delayBatch = [w \in Worker |-> {}]
  /\ dueIds = [w \in Worker |-> {}]
  /\ dueBatch = [w \in Worker |-> {}]
  /\ overlapped = FALSE

-----------------------------------------------------------------------------
hset(h, e) == {x \in h : x.id # e.id} \union {e}
hget(h, k) == IF k.text = "id" THEN {x \in h : x.id = k.id} ELSE {}
hdel(h, m) == {x \in h : x.id # m}

\* The members ZRANGE 0 0 may return: the lowest score, ties by their text.
FirstMembers ==
  {k \in zset : \A l \in zset : Priority[k.id] <= Priority[l.id]}

\* Mutant: the sorted set is written and the hash is not.
OrderOnly(e) == zset' = zset \union {IdOf(e.id)} /\ hash' = hash

\* enqueueMessageWithPriority: ZADD and HSET in one script or MULTI.
zpushhset(e) == zset' = zset \union {IdOf(e.id)} /\ hash' = hset(hash, e)

\* EnqueueHandler.enqueue of a priority producer.
Produce(m) ==
  /\ m \notin published
  /\ published' = published \union {m}
  /\ zpushhset([id |-> m, attempts |-> 0])
  /\ UNCHANGED <<lifo, processing, listVars, settled, removed, stage, workerVars>>

\* Mutant: the script forgets ZREM and HDEL.
DequeueKeeps(c) ==
  /\ stage[c] = "polling"
  /\ \E k \in FirstMembers : \E e \in hget(hash, k) :
       processing' = [processing EXCEPT ![c] = Append(@, e)]
  /\ stage' = [stage EXCEPT ![c] = "consuming"]
  /\ UNCHANGED <<orderVars, lifo, listVars, settled, published, removed, workerVars>>

\* zpophgetrpush finds the text of the first member.
dequeueWithPriority(c) ==
  /\ stage[c] = "polling"
  /\ \E k \in FirstMembers : \E e \in hget(hash, k) :
       /\ zset' = zset \ {k}
       /\ hash' = hdel(hash, k.id)
       /\ processing' = [processing EXCEPT ![c] = Append(@, e)]
  /\ stage' = [stage EXCEPT ![c] = "consuming"]
  /\ UNCHANGED <<lifo, listVars, settled, published, removed, workerVars>>

\* The text of the first member is not in the hash: it is removed from the
\* sorted set before RPUSH of nil fails; the error ends the consumer.
DequeueFails(c) ==
  /\ stage[c] = "polling"
  /\ \E k \in FirstMembers : /\ hget(hash, k) = {}
                             /\ zset' = zset \ {k}
  /\ stage' = [stage EXCEPT ![c] = "dead"]
  /\ UNCHANGED <<hash, lifo, processing, listVars, settled, published, removed,
                 workerVars>>

\* Nothing to fetch: the ticker polls again a second later.
DequeueNothing(c) ==
  /\ stage[c] = "polling"
  /\ zset = {}
  /\ stage' = [stage EXCEPT ![c] = "asleep"]
  /\ UNCHANGED <<orderVars, lifo, processing, listVars, settled, published,
                 removed, workerVars>>

nextTickFn(c) ==
  /\ stage[c] = "asleep"
  /\ stage' = [stage EXCEPT ![c] = "polling"]
  /\ UNCHANGED <<orderVars, lifo, processing, listVars, settled, published,
                 removed, workerVars>>

Acknowledge(c) ==
  /\ stage[c] = "consuming"
  /\ settled' = settled \union {Head(processing[c])}
  /\ processing' = [processing EXCEPT ![c] = Tail(@)]
  /\ stage' = [stage EXCEPT ![c] = "polling"]
  /\ UNCHANGED <<orderVars, lifo, listVars, published, removed, workerVars>>

\* Broker.retry chooses where the message goes; no message has a ttl here.
Unacknowledge(c) ==
  LET e == Head(processing[c])
      Into(op, s) == IF retry(e, {}) = op THEN s \union {e} ELSE s IN
  /\ stage[c] = "consuming"
  /\ e.attempts <= MaxAttempts
  /\ processing' = [processing EXCEPT ![c] = Tail(@)]
  /\ settled' = Into("deadLetter", settled)
  /\ delayList' = Into("delay", delayList)
  /\ requeueList' = Into("requeue", requeueList)
  /\ stage' = [stage EXCEPT ![c] = "polling"]
  /\ UNCHANGED <<orderVars, lifo, scheduled, published, removed, workerVars>>

-----------------------------------------------------------------------------
(***************************************************************************)
(* The workers of w: what they read in one command they use in a later     *)
(* one.  A list is kept as the set of its texts.  Once sets of workers     *)
(* have overlapped it may hold one text twice, so that LREM of one copy    *)
(* leaves the other.                                                       *)
(***************************************************************************)
lrem(list, batch) ==
  IF overlapped THEN {list \ gone : gone \in SUBSET batch} ELSE {list \ batch}

RequeueRead(w) ==
  /\ status[w] # "off"
  /\ requeueBatch[w] = {}
  /\ \E batch \in (SUBSET requeueList) \ {{}} :
       requeueBatch' = [requeueBatch EXCEPT ![w] = batch]
  /\ UNCHANGED <<orderVars, lifo, processing, listVars, settled, published, removed,
                 stage, status, delayBatch, dueIds, dueBatch, overlapped>>

\* One MULTI: LREM of each text, and ZADD or LPUSH of it with one more attempt.
RequeueExec(w) ==
  LET again == {incrAttempts(e) : e \in requeueBatch[w]} IN
  /\ requeueBatch[w] # {}
  /\ requeueList' \in lrem(requeueList, requeueBatch[w])
  /\ \/ WithPriority[w] /\ zset' = zset \union {JsonOf(e) : e \in again} /\ lifo' = lifo
     \/ ~WithPriority[w] /\ zset' = zset /\ lifo' = lifo \union again
  /\ requeueBatch' = [requeueBatch EXCEPT ![w] = {}]
  /\ UNCHANGED <<hash, processing, delayList, scheduled, settled, published, removed,
                 stage, status, delayBatch, dueIds, dueBatch, overlapped>>

DelayRead(w) ==
  /\ status[w] # "off"
  /\ delayBatch[w] = {}
  /\ \E batch \in (SUBSET delayList) \ {{}} :
       delayBatch' = [delayBatch EXCEPT ![w] = batch]
  /\ UNCHANGED <<orderVars, lifo, processing, listVars, settled, published, removed,
                 stage, status, requeueBatch, dueIds, dueBatch, overlapped>>

\* What HSET of the texts S in some order leaves in the hash h.
hsets(h, S) ==
  {{x \in h : \A e \in S : x.id # e.id} \union last :
     last \in {T \in SUBSET S : \A e \in S : \E x \in T :
                                 x.id = e.id /\ \A y \in T : y.id = e.id => y = x}}

\* One MULTI: LREM of each text, ZADD and HSET of it with one more attempt.
DelayExec(w) ==
  /\ delayBatch[w] # {}
  /\ delayList' \in lrem(delayList, delayBatch[w])
  /\ scheduled' \in hsets(scheduled, {incrAttempts(e) : e \in delayBatch[w]})
  /\ delayBatch' = [delayBatch EXCEPT ![w] = {}]
  /\ UNCHANGED <<orderVars, lifo, processing, requeueList, settled, published, removed,
                 stage, status, requeueBatch, dueIds, dueBatch, overlapped>>

\* ZRANGEBYSCORE, whichever messages are due by now.
fetchIds(w) ==
  /\ status[w] = "on"
  /\ dueIds[w] = {} /\ dueBatch[w] = {}
  /\ \E ids \in (SUBSET {e.id : e \in scheduled}) \ {{}} :
       dueIds' = [dueIds EXCEPT ![w] = ids]
  /\ UNCHANGED <<orderVars, lifo, processing, listVars, settled, published, removed,
                 stage, status, requeueBatch, delayBatch, dueBatch, overlapped>>

\* HMGET.  Where an id has no text any more, enqueue throws when it comes to
\* it, after the messages before it.
fetchMessages(w) ==
  LET found == {e \in scheduled : e.id \in dueIds[w]}
      complete == dueIds[w] = {e.id : e \in found}
  IN
  /\ dueIds[w] # {}
  /\ \E before \in SUBSET found :
       /\ complete => before = found
       /\ dueBatch' = [dueBatch EXCEPT ![w] = before]
  /\ status' = IF complete THEN status ELSE [status EXCEPT ![w] = "panicking"]
  /\ dueIds' = [dueIds EXCEPT ![w] = {}]
  /\ UNCHANGED <<orderVars, lifo, processing, listVars, settled, published, removed,
                 stage, requeueBatch, delayBatch, overlapped>>

\* One MULTI per message: enqueue it, with or without priority, and remove
\* its id from the schedule.
enqueue(w, e) ==
  /\ e \in dueBatch[w]
  /\ scheduled' = hdel(scheduled, e.id)
  /\ \/ WithPriority[w] /\ zpushhset(e) /\ lifo' = lifo
     \/ ~WithPriority[w] /\ UNCHANGED orderVars /\ lifo' = lifo \union {e}
  /\ dueBatch' = [dueBatch EXCEPT ![w] = @ \ {e}]
  /\ UNCHANGED <<processing, requeueList, delayList, settled, published, removed,
                 stage, status, requeueBatch, delayBatch, dueIds, overlapped>>

\* The consumer of w forks its workers.
StartWorkers(w) ==
  /\ status[w] = "off"
  /\ status' = [status EXCEPT ![w] = "on"]
  /\ overlapped' = (overlapped \/ \E v \in Worker : status[v] # "off")
  /\ UNCHANGED <<orderVars, lifo, processing, listVars, settled, published, removed,
                 stage, batchVars>>

\* They are killed, or end with their consumer, wherever they are.
StopWorkers(w) ==
  /\ status[w] # "off"
  /\ status' = [status EXCEPT ![w] = "off"]
  /\ requeueBatch' = [requeueBatch EXCEPT ![w] = {}]
  /\ delayBatch' = [delayBatch EXCEPT ![w] = {}]
  /\ dueIds' = [dueIds EXCEPT ![w] = {}]
  /\ dueBatch' = [dueBatch EXCEPT ![w] = {}]
  /\ UNCHANGED <<orderVars, lifo, processing, listVars, settled, published, removed,
                 stage, overlapped>>

WorkerStep(w) ==
  \/ RequeueRead(w)
  \/ RequeueExec(w)
  \/ DelayRead(w)
  \/ DelayExec(w)
  \/ fetchIds(w)
  \/ fetchMessages(w)
  \/ \E e \in dueBatch[w] : enqueue(w, e)
  \/ StartWorkers(w)
  \/ StopWorkers(w)

-----------------------------------------------------------------------------
\* Mutant: HDEL without ZREM.
DeleteTextOnly(m) ==
  /\ m \in published
  /\ hash' = hdel(hash, m)
  /\ removed' = IF hget(hash, IdOf(m)) # {} THEN removed \union {m} ELSE removed
  /\ UNCHANGED <<zset, lifo, processing, listVars, settled, published, stage,
                 workerVars>>

\* HDEL and ZREM in one MULTI; nothing happens when m is not pending.
deletePendingMessageWithPriority(m) ==
  /\ m \in published
  /\ hash' = hdel(hash, m)
  /\ zset' = zset \ {IdOf(m)}
  /\ removed' = IF hget(hash, IdOf(m)) # {} THEN removed \union {m} ELSE removed
  /\ UNCHANGED <<lifo, processing, listVars, settled, published, stage,
                 workerVars>>

\* DEL of the sorted set; the texts stay in the hash.
purgePriorityQueue ==
  /\ zset # {}
  /\ zset' = {}
  /\ removed' = removed \union {k.id : k \in zset}
  /\ UNCHANGED <<hash, lifo, processing, listVars, settled, published, stage,
                 workerVars>>

PriorityNext ==
  \/ \E c \in Consumer :
       \/ dequeueWithPriority(c)
       \/ DequeueFails(c)
       \/ DequeueNothing(c)
       \/ nextTickFn(c)
       \/ Acknowledge(c)
       \/ Unacknowledge(c)
  \/ \E w \in Worker : WorkerStep(w)
  \/ \E m \in MessageId : Produce(m) \/ deletePendingMessageWithPriority(m)
  \/ purgePriorityQueue

PrioritySpec == PriorityInit /\ [][PriorityNext]_pqVars

-----------------------------------------------------------------------------
Pending == {e.id : e \in {x \in hash : IdOf(x.id) \in zset}}
InWork == UNION {{e.id : e \in ToSet(processing[c])} : c \in Consumer}
Waiting == {e.id : e \in requeueList \union delayList \union scheduled}
Settled == {e.id : e \in settled}

Stored ==
  {k.id : k \in zset} \union {e.id : e \in lifo}
    \union InWork \union Waiting \union Settled \union removed

\* No published message disappears from Redis before it is settled, deleted
\* or purged, whatever order consumers, workers and deletions come in.  The
\* requeue worker breaks it: zpophgetrpush drops the member it wrote before it
\* finds that there is no text for it.
PriorityNothingLost == published \subseteq Stored

\* A message whose retries are delayed never disappears, although those of
\* other messages end consumers and drop members of the same sorted set.
DelayedNotLost == published \cap RetryDelay \subseteq Stored

\* The poll that reaches a message whose retries are delayed finds its text:
\* sorted set and hash agree on it whatever was deleted, purged or requeued.
DelayedDeliverable ==
  \A k \in zset : k.id \in RetryDelay => hget(hash, k) # {}

\* Until two sets of workers overlap, a message is never given out twice: what
\* is in work or settled is not pending or waiting for delivery as well, even
\* though workers are killed between any two of their commands and others
\* read the same texts again.
PriorityNoDuplicates ==
  ~overlapped => (InWork \union Settled) \cap (Pending \union Waiting) = {}
=============================================================================
