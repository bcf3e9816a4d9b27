---------------------------- MODULE DelayedRetry ----------------------------
(***************************************************************************)
(* Messages with a retryDelay: the delay worker of w moves them from the   *)
(* delay list to the schedule, the schedule worker of w moves the ones     *)
(* that are due to their queue.  The schedule is a sorted set of ids       *)
(* (keyQueueScheduled) and a hash from ids to messages                     *)
(* (keyScheduledMessages), always written together here: one set, with at  *)
(* most one message of an id.                                              *)
(***************************************************************************)
EXTENDS RequeueWorker

VARIABLES
  scheduled,      \* the scheduled messages
  due,            \* the scheduled ids whose timestamp has passed
  delayBatch,     \* delayBatch[w]: what the delay worker read
  dueIds,         \* dueIds[w]: ids the schedule worker has read
  dueBatch,       \* dueBatch[w]: messages it has fetched, not yet enqueued
  panicking       \* the w whose schedule worker has fetched a null

delayVars == <<scheduled, due, delayBatch, dueIds, dueBatch, panicking>>

scheduledIds == {e.id : e \in scheduled}

DelayTypeOK ==
  /\ scheduled \subseteq Entry
  /\ due \subseteq MessageId
  /\ delayBatch \in [Consumer -> Seq(Entry)]
  /\ dueIds \in [Consumer -> SUBSET MessageId]
  /\ dueBatch \in [Consumer -> SUBSET Entry]
  /\ panicking \subseteq Consumer

DelayInit ==
  /\ scheduled = {}
  /\ due = {}
  /\ delayBatch = [w \in Consumer |-> <<>>]
  /\ dueIds = [w \in Consumer |-> {}]
  /\ dueBatch = [w \in Consumer |-> {}]
  /\ panicking = {}

-----------------------------------------------------------------------------
(***************************************************************************)
(* The delay worker (DelayHandler.schedule).                               *)
(***************************************************************************)
DelayRead(w) ==
  /\ delayBatch[w] = <<>>
  /\ delayList # <<>>
  /\ delayBatch' = [delayBatch EXCEPT ![w] = lrange(delayList)]
  /\ UNCHANGED <<storeVars, scheduled, due, dueIds, dueBatch, panicking>>

\* ZADD and HSET overwrite what the schedule held for the same id.
schedule(batch) ==
  LET ids == {e.id : e \in ToSet(batch)}
      isLast(i) == \A j \in i+1..Len(batch) : batch[j].id # batch[i].id
  IN  {e \in scheduled : e.id \notin ids} \union
      {incrAttempts(batch[i]) : i \in {i \in 1..Len(batch) : isLast(i)}}

DelayExec(w) ==
  LET batch == delayBatch[w] IN
  /\ batch # <<>>
  /\ delayList' = lrem(delayList, batch)
  /\ scheduled' = schedule(batch)
  /\ due' = due \ {e.id : e \in ToSet(batch)}
  /\ delayBatch' = [delayBatch EXCEPT ![w] = <<>>]
  /\ UNCHANGED <<queue, processing, requeueList, acknowledged, deadLetter,
                 index, heartbeat, published, elapsed, dueIds, dueBatch,
                 panicking>>

-----------------------------------------------------------------------------
(***************************************************************************)
(* The schedule worker (ScheduleHandler.enqueueScheduledMessages).         *)
(***************************************************************************)

\* The clock reaches the timestamp of a scheduled message.
BecomesDue(m) ==
  /\ m \in scheduledIds \ due
  /\ due' = due \union {m}
  /\ UNCHANGED <<storeVars, scheduled, delayBatch, dueIds, dueBatch, panicking>>

fetchIds(w) ==
  /\ dueIds[w] = {} /\ dueBatch[w] = {} /\ w \notin panicking
  /\ due # {}
  /\ dueIds' = [dueIds EXCEPT ![w] = due]
  /\ UNCHANGED <<storeVars, scheduled, due, delayBatch, dueBatch, panicking>>

\* HMGET.  Where it has no message for an id, what is built from null has no
\* queue: enqueue throws when it comes to it, after the messages before it.
fetchMessages(w) ==
  /\ dueIds[w] # {}
  /\ dueBatch' = [dueBatch EXCEPT ![w] = {e \in scheduled : e.id \in dueIds[w]}]
  /\ dueIds' = [dueIds EXCEPT ![w] = {}]
  /\ panicking' = IF dueIds[w] \subseteq scheduledIds THEN panicking
                  ELSE panicking \union {w}
  /\ UNCHANGED <<storeVars, scheduled, due, delayBatch>>

\* One MULTI per message: RPUSH to its queue, ZREM and HDEL of its id (the
\* delay has been spent, so there is no next timestamp).
enqueue(w, e) ==
  /\ e \in dueBatch[w]
  /\ queue' = [queue EXCEPT ![Home[e.id]] = Append(@, e)]
  /\ scheduled' = {s \in scheduled : s.id # e.id}
  /\ due' = due \ {e.id}
  /\ dueBatch' = [dueBatch EXCEPT ![w] = @ \ {e}]
  /\ UNCHANGED <<processing, requeueList, delayList, acknowledged, deadLetter,
                 index, heartbeat, published, elapsed, delayBatch, dueIds,
                 panicking>>
=============================================================================
