------------------------------ MODULE Producer ------------------------------
(***************************************************************************)
(* A producer: it is started by its constructor, may be shut down and run  *)
(* again, and is asked to produce messages at any time.  A call made while *)
(* it starts waits for the event UP.  A command goes out on the current    *)
(* connection, is executed by Redis in order and is answered, or is        *)
(* aborted when the connection is closed or lost in between; what was      *)
(* written to such a connection may still reach Redis.                     *)
(*                                                                         *)
(* Calls are numbered in the order in which they are made; they are not    *)
(* made from inside a listener for UP.                                     *)
(***************************************************************************)
EXTENDS Naturals, SequencesExt

CONSTANTS
  MaxCalls,         \* bound: calls of produceMessage
  MaxConnections,   \* bound: connections, of all runs together
  Schedulable       \* the calls whose messages have a schedule

Call == 1..MaxCalls
Connection == 1..MaxConnections

ASSUME ProducerAssumption ==
  /\ MaxCalls \in Nat
  /\ MaxConnections \in Nat \ {0}
  /\ Schedulable \subseteq Call

VARIABLES
  power,       \* the PowerManager, and how far run() or shutdown() is
  broker,      \* whether there is a Broker
  connection,  \* the number of the current connection
  waiting,     \* the calls that wait for UP, in the order of the listeners
  sent,        \* sent[k]: what connection k has yet to carry to Redis
  replies,     \* the replies under way on the current connection
  queue,       \* keyQueue: the calls whose messages are there
  scheduled,   \* the calls whose messages are in the schedule
  answers      \* answers[n]: all that the caller of n was told

redisVars == <<queue, scheduled>>
producerVars == <<power, broker, connection, waiting, sent, replies, redisVars,
                  answers>>

(***************************************************************************)
(* "connecting" and "registering" are isGoingUp(), "up" and "goingDown"    *)
(* are isUp().  "notRunning" is the error of a producer that is down,      *)
(* "thrown" an exception; "silent" stands for no answer, now or later.     *)
(***************************************************************************)
Power == {"connecting", "registering", "up", "goingDown", "down", "crashed"}
Answer == {"ok", "error", "notRunning", "thrown", "silent"}

ProducerTypeOK ==
  /\ power \in Power
  /\ broker \in BOOLEAN
  /\ connection \in Connection
  /\ waiting \in Seq(Call)
  /\ sent \in [Connection -> Seq(Call)]
  /\ replies \in Seq([call : Call, is : {"ok", "error"}])
  /\ queue \in Seq(Call)
  /\ scheduled \subseteq Schedulable
  /\ answers \in Seq(Seq(Answer)) /\ Len(answers) <= MaxCalls

ProducerInit ==
  /\ power = "connecting"
  /\ broker = FALSE
  /\ connection = 1
  /\ waiting = <<>>
  /\ sent = [k \in Connection |-> <<>>]
  /\ replies = <<>>
  /\ queue = <<>>
  /\ scheduled = {}
  /\ answers = <<>>

-----------------------------------------------------------------------------
(***************************************************************************)
(* run() and shutdown().                                                   *)
(***************************************************************************)

\* setUpSharedRedisClient: the connection is ready, SADD is sent.
setUpSharedRedisClient ==
  /\ power = "connecting"
  /\ power' = "registering"
  /\ UNCHANGED <<broker, connection, waiting, sent, replies, redisVars, answers>>

\* Mutant: the last listener is called first.
UpReversed ==
  /\ power = "registering"
  /\ broker' = TRUE
  /\ power' = "up"
  /\ sent' = [sent EXCEPT ![connection] = @ \o Reverse(waiting)]
  /\ waiting' = <<>>
  /\ UNCHANGED <<connection, replies, redisVars, answers>>

\* Mutant: the listeners are registered with on().
UpAgain ==
  /\ power = "registering"
  /\ broker' = TRUE
  /\ power' = "up"
  /\ sent' = [sent EXCEPT ![connection] = @ \o waiting]
  /\ UNCHANGED <<connection, waiting, replies, redisVars, answers>>

\* setUpMessageQueue, setUpBroker and setUpMessageRate; commit; the listeners
\* for UP send what waits.
Up ==
  /\ power = "registering"
  /\ broker' = TRUE
  /\ power' = "up"
  /\ sent' = [sent EXCEPT ![connection] = @ \o waiting]
  /\ waiting' = <<>>
  /\ UNCHANGED <<connection, replies, redisVars, answers>>

\* SADD is answered with an error: the tasks after it are skipped and the
\* producer is up without a broker.  The first call that waits throws in the
\* listener, and nobody catches it.
UpWithoutBroker ==
  /\ power = "registering"
  /\ power' = IF waiting = <<>> THEN "up" ELSE "crashed"
  /\ waiting' = <<>>
  /\ UNCHANGED <<broker, connection, sent, replies, redisVars, answers>>

\* The commands on their way and those whose replies are.
Unanswered == ToSet(sent[connection]) \union {r.call : r \in ToSet(replies)}

Tell(calls, what) ==
  answers' = [n \in DOMAIN answers |->
                IF n \in calls THEN Append(answers[n], what) ELSE answers[n]]

\* Mutant: the connection is ended without a flush.
ShutdownNoFlush ==
  /\ power = "up"
  /\ power' = "goingDown"
  /\ broker' = FALSE
  /\ replies' = <<>>
  /\ UNCHANGED <<connection, waiting, sent, redisVars, answers>>

\* shutdown(): the broker and the message rate are torn down at once, then
\* halt() aborts every command that has no reply yet.
Shutdown ==
  /\ power = "up"
  /\ power' = "goingDown"
  /\ broker' = FALSE
  /\ Tell(Unanswered, "error")
  /\ replies' = <<>>
  /\ UNCHANGED <<connection, waiting, sent, redisVars>>

\* The event 'end' of the connection: commit.
Down ==
  /\ power = "goingDown"
  /\ power' = "down"
  /\ UNCHANGED <<broker, connection, waiting, sent, replies, redisVars, answers>>

RunAgain ==
  /\ power = "down"
  /\ connection < MaxConnections
  /\ connection' = connection + 1
  /\ power' = "connecting"
  /\ UNCHANGED <<broker, waiting, sent, replies, redisVars, answers>>

Crash ==
  /\ power # "crashed"
  /\ power' = "crashed"
  /\ replies' = <<>>
  /\ waiting' = <<>>
  /\ UNCHANGED <<broker, connection, sent, redisVars, answers>>

-----------------------------------------------------------------------------
\* getBroker emits an error when there is no broker; handleError throws it
\* only while the producer is running.
NoBroker == IF power = "up" THEN <<"thrown">> ELSE <<"silent">>

produceMessage ==
  LET n == Len(answers) + 1 IN
  /\ power # "crashed"
  /\ n \in Call
  /\ \/ /\ power \in {"connecting", "registering"}
        /\ waiting' = Append(waiting, n)
        /\ answers' = Append(answers, <<>>)
        /\ UNCHANGED sent
     \/ /\ power \in {"up", "goingDown"} /\ broker
        /\ sent' = [sent EXCEPT ![connection] = Append(@, n)]
        /\ answers' = Append(answers, <<>>)
        /\ UNCHANGED waiting
     \/ /\ power \in {"up", "goingDown"} /\ ~broker
        /\ answers' = Append(answers, NoBroker)
        /\ UNCHANGED <<waiting, sent>>
     \/ /\ power = "down"
        /\ answers' = Append(answers, <<"notRunning">>)
        /\ UNCHANGED <<waiting, sent>>
  /\ UNCHANGED <<power, broker, connection, replies, redisVars>>

-----------------------------------------------------------------------------
(***************************************************************************)
(* Redis and the driver.                                                   *)
(***************************************************************************)
Open(k) == power = "up" /\ k = connection

\* RPUSH, zpushhset, or the ZADD and HSET of a schedule.
Execute(k) ==
  /\ sent[k] # <<>>
  /\ LET n == Head(sent[k]) IN
     /\ IF n \in Schedulable
          THEN scheduled' = scheduled \union {n} /\ UNCHANGED queue
          ELSE queue' = Append(queue, n) /\ UNCHANGED scheduled
     /\ replies' = IF Open(k) THEN Append(replies, [call |-> n, is |-> "ok"])
                   ELSE replies
  /\ sent' = [sent EXCEPT ![k] = Tail(@)]
  /\ UNCHANGED <<power, broker, connection, waiting, answers>>

\* Redis answers with an error, as when it is out of memory.
Refuse ==
  LET c == sent[connection] IN
  /\ power = "up"
  /\ c # <<>>
  /\ replies' = Append(replies, [call |-> Head(c), is |-> "error"])
  /\ sent' = [sent EXCEPT ![connection] = Tail(@)]
  /\ UNCHANGED <<power, broker, connection, waiting, redisVars, answers>>

\* The callback of produceMessage.
Callback ==
  /\ power = "up"
  /\ replies # <<>>
  /\ Tell({Head(replies).call}, Head(replies).is)
  /\ replies' = Tail(replies)
  /\ UNCHANGED <<power, broker, connection, waiting, sent, redisVars>>

\* The driver aborts the commands without a reply and connects again.
ConnectionLost ==
  /\ power = "up"
  /\ connection < MaxConnections
  /\ connection' = connection + 1
  /\ Tell(Unanswered, "error")
  /\ replies' = <<>>
  /\ UNCHANGED <<power, broker, waiting, sent, redisVars>>

\* What is left of a connection that is closed never arrives.
Dropped(k) ==
  /\ ~Open(k)
  /\ sent[k] # <<>>
  /\ sent' = [sent EXCEPT ![k] = <<>>]
  /\ UNCHANGED <<power, broker, connection, waiting, replies, redisVars, answers>>

-----------------------------------------------------------------------------
ProducerNext ==
  \/ setUpSharedRedisClient \/ Up \/ UpWithoutBroker
  \/ Shutdown \/ Down \/ RunAgain \/ Crash
  \/ produceMessage
  \/ \E k \in Connection : Execute(k) \/ Dropped(k)
  \/ Refuse \/ Callback \/ ConnectionLost

ProducerSpec == ProducerInit /\ [][ProducerNext]_producerVars

\* The connection is established and closed, and Redis replies.
ProducerFairSpec ==
  /\ ProducerSpec
  /\ WF_producerVars(setUpSharedRedisClient)
  /\ WF_producerVars(Up \/ UpWithoutBroker)
  /\ WF_producerVars(Down)
  /\ WF_producerVars(Execute(connection) \/ Refuse)
  /\ WF_producerVars(Callback)

-----------------------------------------------------------------------------
(***************************************************************************)
(* Properties.                                                             *)
(***************************************************************************)
Made == DOMAIN answers
Told(n, what) == answers[n] = <<what>>

\* How many copies of the message of call n are stored.
Stored(n) ==
  Cardinality({i \in DOMAIN queue : queue[i] = n} \union ({n} \cap scheduled))

\* A callback is called at most once and does not lie: success means that the
\* message is stored exactly once, and a call that is refused, or that ends in
\* an exception or nowhere, stores nothing.  An error leaves it open.
AnsweredTruly ==
  \A n \in Made :
    /\ Len(answers[n]) <= 1
    /\ Stored(n) <= 1
    /\ Told(n, "ok") => Stored(n) = 1
    /\ (\E what \in {"notRunning", "thrown", "silent"} : Told(n, what))
         => Stored(n) = 0

\* Messages that are produced are in the queue in the order of the calls,
\* those that waited for the start included, across shutdowns and lost
\* connections.
StoredInCallOrder ==
  \A i, j \in DOMAIN queue :
    i < j /\ Told(queue[i], "ok") /\ Told(queue[j], "ok") => queue[i] < queue[j]

\* Every call that waits or whose command is on its way is answered in the
\* end, or the process is gone.
EveryCallAnswered ==
  \A n \in Call :
    n \in Made ~> (power = "crashed" \/ (n \in Made /\ answers[n] # <<>>))

\* Every call is answered, sooner or later.
NeverSilent == \A n \in Made : ~Told(n, "silent")

\* An error says that the message was not produced.
ErrorMeansNotStored == \A n \in Made : Told(n, "error") => Stored(n) = 0
=============================================================================
