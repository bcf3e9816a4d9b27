------------------------------ MODULE Message ------------------------------
(***************************************************************************)
(* A message and the decision taken when it is unacknowledged.             *)
(*                                                                         *)
(* What Redis holds in a list is the JSON text of a message.  Of that text *)
(* the queues tell apart the id and the attempt counter; the options a     *)
(* message is published with never change, so they are constants indexed   *)
(* by the id.  The time to live is a deadline: the set "elapsed" (a        *)
(* variable of RedisStore) holds the messages whose deadline has passed.   *)
(***************************************************************************)
EXTENDS Naturals

CONSTANTS
  MessageId,        \* the messages that can be published
  RetryThreshold,   \* RetryThreshold[m]: option retryThreshold, 0 = no limit
  RetryDelay,       \* the messages published with a non-zero retryDelay
  TTL,              \* the messages published with a non-zero ttl
  ConsumeTimeout,   \* the messages published with a non-zero consumeTimeout
  Periodic          \* the messages with a CRON or a repeat schedule

ASSUME MessageAssumption ==
  /\ RetryThreshold \in [MessageId -> Nat]
  /\ RetryDelay \subseteq MessageId
  /\ TTL \subseteq MessageId
  /\ ConsumeTimeout \subseteq MessageId
  /\ Periodic \subseteq MessageId

\* The text of a message, as one element of a Redis list.
Entry == [id : MessageId, attempts : Nat]

incrAttempts(e) == [e EXCEPT !.attempts = @ + 1]

hasExpired(e, elapsed) == e.id \in TTL \cap elapsed

\* Mutant: the attempt that is being settled is not counted.
ThresholdOffByOne(e) ==
  /\ RetryThreshold[e.id] > 0
  /\ e.attempts >= RetryThreshold[e.id]

hasRetryThresholdExceeded(e) ==
  /\ RetryThreshold[e.id] > 0
  /\ e.attempts + 1 >= RetryThreshold[e.id]

isPeriodic(e) == e.id \in Periodic

-----------------------------------------------------------------------------
\* The list moves that take a message off a processing queue.
RetryOp == {"deadLetter", "delay", "requeue"}
Op == RetryOp \union {"acknowledge"}

\* Mutant: periodic messages are retried.
RetryPeriodic(e, elapsed) ==
  IF hasExpired(e, elapsed) \/ hasRetryThresholdExceeded(e)
    THEN "deadLetter"
    ELSE IF e.id \in RetryDelay THEN "delay" ELSE "requeue"

\* Broker.retry: which move an unacknowledged message gets.
retry(e, elapsed) ==
  IF \/ hasExpired(e, elapsed)
     \/ isPeriodic(e)
     \/ hasRetryThresholdExceeded(e)
    THEN "deadLetter"
    ELSE IF e.id \in RetryDelay THEN "delay" ELSE "requeue"
=============================================================================
