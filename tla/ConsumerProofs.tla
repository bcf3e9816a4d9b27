--------------------------- MODULE ConsumerProofs ---------------------------
(***************************************************************************)
(* What a consumer guarantees for any number of consumers, messages and    *)
(* queues.  Type correctness needs nothing; the other theorems hold for a  *)
(* consumer instance that is run once (SingleUse) and handlers that do not *)
(* both throw and have a consume timeout (NoStaleTimers); the README shows *)
(* how the loop breaks without either condition.                           *)
(***************************************************************************)
EXTENDS Consumer, TLAPS, FiniteSetTheorems

(***************************************************************************)
(* List operations.                                                        *)
(***************************************************************************)

\* What Front and Last return on a list that is not empty.
LEMMA FrontLastType ==
  ASSUME NEW S, NEW s \in Seq(S), s # <<>>
  PROVE  /\ Front(s) \in Seq(S)
         /\ Last(s) \in S
         /\ Head(s) \in S
         /\ Tail(s) \in Seq(S)
BY DEF Front, Last

\* The Redis pops and moves turn lists of S into lists of S.
LEMMA MoveType ==
  ASSUME NEW S, NEW s \in Seq(S), NEW t \in Seq(S)
  PROVE  /\ LPopped(s) \in Seq(S)
         /\ RPopped(s) \in Seq(S)
         /\ lpoprpush(s, t) \in Seq(S)
         /\ rpoplpush(s, t) \in Seq(S)
BY FrontLastType DEF LPopped, RPopped, lpoprpush, rpoplpush

\* Broker.retry always chooses one of the three moves, for a message that is
\* kept below its threshold or that has a reason to be dead-lettered.
LEMMA RetryType ==
  ASSUME NEW e, NEW x
  PROVE  retry(e, x) \in Op
BY DEF retry, Op, RetryOp

-----------------------------------------------------------------------------
(***************************************************************************)
(* Type correctness.                                                       *)
(***************************************************************************)

\* The moves of ProcessingHandler keep the lists well typed.
LEMMA SettleType ==
  ASSUME StoreTypeOK, NEW op, NEW c \in Consumer, NEW q \in Queue,
         Settle(op, c, q),
         UNCHANGED <<index, heartbeat, published, elapsed>>
  PROVE  StoreTypeOK'
<1>1. /\ LPopped(processing[c]) \in Seq(Entry)
      /\ RPopped(processing[c]) \in Seq(Entry)
  BY MoveType DEF StoreTypeOK
<1>2. /\ lpoprpush(processing[c], acknowledged[q]) \in Seq(Entry)
      /\ lpoprpush(processing[c], deadLetter[q]) \in Seq(Entry)
      /\ rpoplpush(processing[c], delayList) \in Seq(Entry)
      /\ rpoplpush(processing[c], requeueList) \in Seq(Entry)
  BY MoveType DEF StoreTypeOK
<1>3. CASE acknowledge(c, q)
  BY <1>1, <1>2, <1>3 DEF acknowledge, StoreTypeOK
<1>4. CASE deadLetterMessage(c, q)
  BY <1>1, <1>2, <1>4 DEF deadLetterMessage, StoreTypeOK
<1>5. CASE delayBeforeRequeue(c)
  BY <1>1, <1>2, <1>5 DEF delayBeforeRequeue, StoreTypeOK
<1>6. CASE requeue(c)
  BY <1>1, <1>2, <1>6 DEF requeue, StoreTypeOK
<1> QED BY <1>3, <1>4, <1>5, <1>6 DEF Settle

\* Going up and down, and crashing.
LEMMA PowerType ==
  ASSUME TypeOK, NEW c \in Consumer, PowerStep(c)
  PROVE  TypeOK'
<1> USE DEF TypeOK, StoreTypeOK, storeVars, lists, consumerVars, Power, Heartbeat
<1>1. CASE Run(c) BY <1>1 DEF Run
<1>2. CASE setUpBroker(c) BY <1>2 DEF setUpBroker
<1>3. CASE setUpHeartbeat(c) BY <1>3 DEF setUpHeartbeat
<1>4. CASE setUpProcessingQueue(c) BY <1>4 DEF setUpProcessingQueue
<1>5. CASE Beat(c) BY <1>5 DEF Beat
<1>6. CASE Shutdown(c) BY <1>6 DEF Shutdown
<1>7. CASE tearDownHeartbeat(c) BY <1>7 DEF tearDownHeartbeat
<1>8. CASE tearDownConsumerRedisClient(c)
  BY <1>8 DEF tearDownConsumerRedisClient
<1>9. CASE tearDownSharedRedisClient(c)
  BY <1>9 DEF tearDownSharedRedisClient
<1>10. CASE Crash(c) BY <1>10 DEF Crash, Dies
<1>11. CASE ConnectionLost(c) BY <1>11 DEF ConnectionLost
<1> QED
  BY <1>1, <1>2, <1>3, <1>4, <1>5, <1>6, <1>7, <1>8, <1>9, <1>10, <1>11
  DEF PowerStep

\* Unacknowledging a message keeps the pipelined moves well typed.
LEMMA UnacknowledgeType ==
  ASSUME TypeOK, NEW c \in Consumer, NEW e \in Entry,
         unacknowledgeMessage(c, e)
  PROVE  cmds' \in [Consumer -> Seq(Cmd)]
<1>1. [op |-> retry(e, elapsed), entry |-> e] \in Cmd
  BY RetryType DEF Cmd
<1> QED BY <1>1 DEF unacknowledgeMessage, TypeOK

\* The message loop.
LEMMA LoopType ==
  ASSUME TypeOK, NEW c \in Consumer, LoopStep(c)
  PROVE  TypeOK'
<1>1. CASE Dequeue(c)
  <2> DEFINE q == QueueOf[c]
  <2>1. q \in Queue BY StoreAssumption
  <2>2. queue[q] \in Seq(Entry) /\ queue[q] # <<>>
    BY <1>1, <2>1 DEF Dequeue, dequeue, TypeOK, StoreTypeOK
  <2>3. Front(queue[q]) \in Seq(Entry) /\ Last(queue[q]) \in Entry
    BY <2>2, FrontLastType
  <2>4. <<Last(queue[q])>> \o processing[c] \in Seq(Entry)
    BY <2>3 DEF TypeOK, StoreTypeOK
  <2>5. StoreTypeOK'
    BY <1>1, <2>3, <2>4 DEF Dequeue, dequeue, TypeOK, StoreTypeOK
  <2>6. inbox' \in [Consumer -> Seq(Entry)]
    BY <1>1, <2>3 DEF Dequeue, TypeOK
  <2>7. polls' \in [Consumer -> Nat]
    BY <1>1 DEF Dequeue, TypeOK
  <2> QED BY <1>1, <2>5, <2>6, <2>7 DEF Dequeue, TypeOK
<1>2. ASSUME inbox[c] # <<>>
      PROVE  Head(inbox[c]) \in Entry /\ Tail(inbox[c]) \in Seq(Entry)
  BY <1>2, FrontLastType DEF TypeOK
<1>3. CASE ReceiveExpired(c)
  <2>1. cmds' \in [Consumer -> Seq(Cmd)]
    BY <1>2, <1>3, UnacknowledgeType DEF ReceiveExpired
  <2> QED BY <1>2, <1>3, <2>1
          DEF ReceiveExpired, TypeOK, StoreTypeOK, storeVars, lists
<1>4. CASE Receive(c)
  <2>1. [entry |-> Head(inbox[c]), handler |-> TRUE,
         timer |-> Head(inbox[c]).id \in ConsumeTimeout] \in Job
    BY <1>2, <1>4 DEF Receive, Job
  <2> QED BY <1>2, <1>4, <2>1
          DEF Receive, TypeOK, StoreTypeOK, storeVars, lists
<1>5. CASE ReceiveThrows(c)
  <2>1. [entry |-> Head(inbox[c]), handler |-> FALSE, timer |-> TRUE] \in Job
    BY <1>2, <1>5 DEF ReceiveThrows, Job
  <2>2. cmds' \in [Consumer -> Seq(Cmd)]
    BY <1>2, <1>5, UnacknowledgeType DEF ReceiveThrows
  <2> QED BY <1>2, <1>5, <2>1, <2>2
          DEF ReceiveThrows, TypeOK, StoreTypeOK, storeVars, lists
<1>6. CASE JobStep(c)
  <2> USE DEF TypeOK, StoreTypeOK, storeVars, lists
  <2>1. PICK j \in jobs[c] :
          \/ HandlerSucceeds(c, j) \/ HandlerFails(c, j)
          \/ HandlerIgnored(c, j) \/ TimerFires(c, j) \/ TimerPanics(c, j)
    BY <1>6 DEF JobStep
  <2>2. j \in Job OBVIOUS
  <2>3. j.entry \in Entry /\ j.entry.id \in MessageId
    BY <2>2 DEF Job, Entry
  <2>4. CASE HandlerSucceeds(c, j)
    <3>1. [op |-> "acknowledge", entry |-> j.entry] \in Cmd
      BY <2>3 DEF Cmd, Op
    <3> QED BY <2>3, <2>4, <3>1 DEF HandlerSucceeds
  <2>5. CASE HandlerFails(c, j)
    <3>1. cmds' \in [Consumer -> Seq(Cmd)]
      BY <2>3, <2>5, UnacknowledgeType DEF HandlerFails
    <3> QED BY <2>5, <3>1 DEF HandlerFails
  <2>6. CASE HandlerIgnored(c, j)
    <3>1. [j EXCEPT !.handler = FALSE] \in Job BY <2>2 DEF Job
    <3> QED BY <2>6, <3>1 DEF HandlerIgnored
  <2>7. CASE TimerFires(c, j)
    <3>1. cmds' \in [Consumer -> Seq(Cmd)]
      BY <2>3, <2>7, UnacknowledgeType DEF TimerFires
    <3> QED BY <2>7, <3>1 DEF TimerFires
  <2>8. CASE TimerPanics(c, j)
    BY <2>8 DEF TimerPanics, Power
  <2> QED BY <2>1, <2>4, <2>5, <2>6, <2>7, <2>8
<1>7. CASE ExecCmd(c)
  <2>1. QueueOf[c] \in Queue BY StoreAssumption
  <2>2. StoreTypeOK'
    BY <1>7, <2>1, SettleType DEF ExecCmd, TypeOK
  <2>3. Tail(cmds[c]) \in Seq(Cmd)
    BY <1>7, FrontLastType DEF ExecCmd, TypeOK
  <2> QED BY <1>7, <2>2, <2>3 DEF ExecCmd, TypeOK
<1> QED BY <1>1, <1>3, <1>4, <1>5, <1>6, <1>7 DEF LoopStep

\* Every variable keeps its type.
LEMMA NextType == TypeOK /\ [Next]_vars => TypeOK'
<1> SUFFICES ASSUME TypeOK, [Next]_vars PROVE TypeOK'
  OBVIOUS
<1>1. CASE \E c \in Consumer : PowerStep(c) \/ LoopStep(c)
  BY <1>1, PowerType, LoopType
<1>2. ASSUME NEW m \in MessageId, Arrive(m) PROVE TypeOK'
  <2>1. PICK a \in 0..MaxAttempts :
          LET e == [id |-> m, attempts |-> a] IN
          \/ queue' = [queue EXCEPT ![Home[m]] = Append(@, e)]
          \/ queue' = [queue EXCEPT ![Home[m]] = <<e>> \o @]
    BY <1>2 DEF Arrive
  <2> DEFINE e == [id |-> m, attempts |-> a]
  <2>2. e \in Entry /\ Home[m] \in Queue
    BY StoreAssumption, ConsumerAssumption DEF Entry
  <2>3. queue[Home[m]] \in Seq(Entry)
    BY <2>2 DEF TypeOK, StoreTypeOK
  <2>4. Append(queue[Home[m]], e) \in Seq(Entry) /\ <<e>> \o queue[Home[m]] \in Seq(Entry)
    BY <2>2, <2>3
  <2>5. queue' \in [Queue -> Seq(Entry)]
    BY <2>1, <2>4 DEF TypeOK, StoreTypeOK
  <2> QED BY <1>2, <2>5 DEF Arrive, TypeOK, StoreTypeOK, consumerVars
<1>3. ASSUME NEW m \in MessageId, TTLElapses(m), UNCHANGED consumerVars
      PROVE TypeOK'
  BY <1>3 DEF TTLElapses, TypeOK, StoreTypeOK, consumerVars, lists
<1>4. CASE UNCHANGED vars
  BY <1>4 DEF vars, storeVars, consumerVars, lists, TypeOK, StoreTypeOK
<1> QED BY <1>1, <1>2, <1>3, <1>4 DEF Next

\* Initially every variable has its type.
LEMMA InitType == Init => TypeOK
BY StoreAssumption
   DEF Init, StoreInit, ConsumerInit, TypeOK, StoreTypeOK, Power, Heartbeat

\* The lists of Redis hold messages, connections hold at most what was sent
\* on them, and power states are the ones of goingUp and goingDown, whatever
\* the consumers, messages and bounds are.
THEOREM TypeCorrect == Spec => []TypeOK
BY InitType, NextType, PTL DEF Spec

-----------------------------------------------------------------------------
(***************************************************************************)
(* The loop.  A step of c concerns the loop of c only; the loops of the    *)
(* others are disturbed by nothing, because succeeded and elapsed grow.    *)
(***************************************************************************)

\* A list of one message.
LEMMA Singleton ==
  ASSUME NEW S, NEW x \in S
  PROVE  /\ <<x>> \in Seq(S) /\ <<x>> # <<>> /\ Len(<<x>>) = 1
         /\ Head(<<x>>) = x /\ Tail(<<x>>) = <<>>
         /\ Front(<<x>>) = <<>> /\ Last(<<x>>) = x
         /\ LPopped(<<x>>) = <<>> /\ RPopped(<<x>>) = <<>>
         /\ <<x>> \o <<>> = <<x>> /\ Append(<<>>, x) = <<x>>
         /\ ToSet(<<x>>) = {x}
<1>1. /\ <<x>> \in Seq(S) /\ <<x>> # <<>> /\ Len(<<x>>) = 1
      /\ Head(<<x>>) = x /\ Tail(<<x>>) = <<>>
      /\ <<x>> \o <<>> = <<x>> /\ Append(<<>>, x) = <<x>>
  OBVIOUS
<1>2. Front(<<x>>) = <<>> /\ Last(<<x>>) = x
  BY <1>1 DEF Front, Last
<1>3. LPopped(<<x>>) = <<>> /\ RPopped(<<x>>) = <<>>
  BY <1>1, <1>2 DEF LPopped, RPopped
<1>4. ToSet(<<x>>) = {x}
  BY DEF ToSet
<1> QED BY <1>1, <1>2, <1>3, <1>4

\* Broker.retry has a reason for the move it chooses.
LEMMA RetryJustified ==
  ASSUME NEW e \in Entry
  PROVE  Justified([op |-> retry(e, elapsed), entry |-> e])
BY DEF Justified, retry

\* A reason to move a message does not go away.
LEMMA StaysJustified ==
  ASSUME NEW k, Justified(k), succeeded \subseteq succeeded', elapsed \subseteq elapsed'
  PROVE  Justified(k)'
BY DEF Justified, hasExpired, isPeriodic, hasRetryThresholdExceeded

\* A loop nobody touches stays in its stage.
LEMMA OtherLoops ==
  ASSUME NEW d \in Consumer, InLoop(d),
         polls'[d] = polls[d], inbox'[d] = inbox[d], jobs'[d] = jobs[d],
         cmds'[d] = cmds[d], processing'[d] = processing[d],
         power'[d] = power[d], runs'[d] = runs[d],
         succeeded \subseteq succeeded', elapsed \subseteq elapsed'
  PROVE  InLoop(d)'
<1>1. ASSUME Settling(d) PROVE Settling(d)'
  BY <1>1, StaysJustified DEF Settling, UnderWay
<1> QED
  BY <1>1 DEF InLoop, Fetching, Delivering, Consuming, Ended, Unused, UnderWay,
              isRunning

\* A consumer that unacknowledges the one message it holds, and has nothing
\* else under way, settles it next, or its loop has ended.
LEMMA UnacknowledgeStage ==
  ASSUME NEW c \in Consumer, NEW e \in Entry, TypeOK,
         unacknowledgeMessage(c, e), cmds[c] = <<>>,
         polls'[c] = 0, inbox'[c] = <<>>, jobs'[c] = {},
         processing'[c] = <<e>>, UNCHANGED <<power, elapsed, succeeded>>
  PROVE  Settling(c)' \/ Ended(c)'
<1>1. CASE hasBroker(c)
  <2>1. PICK k \in Cmd : k = [op |-> retry(e, elapsed), entry |-> e]
    BY RetryType DEF Cmd
  <2>2. cmds'[c] = <<k>>
    BY <1>1, <2>1, Singleton DEF unacknowledgeMessage, TypeOK
  <2>3. Justified(k) BY <2>1, RetryJustified
  <2>4. Justified(k)' BY <2>3, StaysJustified
  <2>5. k \in ToSet(cmds'[c]) BY <2>1, <2>2, Singleton
  <2>6. k.entry = e BY <2>1
  <2> QED BY <2>2, <2>4, <2>5, <2>6 DEF Settling, UnderWay
<1>2. CASE ~hasBroker(c)
  <2>1. cmds'[c] = <<>> BY <1>2 DEF unacknowledgeMessage
  <2>2. ~isRunning(c)' BY <1>2 DEF hasBroker, isRunning
  <2>3. Len(processing'[c]) <= 1 BY Singleton
  <2> QED BY <2>1, <2>2, <2>3 DEF Ended, UnderWay
<1> QED BY <1>1, <1>2

\* A consumer that has anything under way has been run, and is up or later.
LEMMA UsedPower ==
  ASSUME NEW c \in Consumer, InLoop(c), ~Unused(c)
  PROVE  /\ runs[c] # 0
         /\ power[c] \notin {"starting", "connected", "beating"}
BY DEF InLoop

\* A process that dies leaves at most a fetch or a move on its way.
LEMMA DiesLoop ==
  ASSUME TypeOK, NEW c \in Consumer, InLoop(c), Dies(c)
  PROVE  InLoop(c)'
<1> USE DEF TypeOK, StoreTypeOK, storeVars, lists
<1>1. /\ power[c] # "down" /\ power'[c] = "crashed" /\ runs' = runs
      /\ polls' = polls /\ inbox'[c] = <<>> /\ jobs'[c] = {} /\ cmds' = cmds
      /\ processing' = processing /\ succeeded' = succeeded /\ elapsed' = elapsed
  BY DEF Dies
<1>2. ~isRunning(c)' /\ runs[c] # 0 BY <1>1 DEF isRunning, InLoop
<1>3. CASE Fetching(c) \/ Ended(c)
  <2>1. (Fetching(c) \/ Ended(c))'
    BY <1>1, <1>2, <1>3 DEF Fetching, Ended, UnderWay
  <2> QED BY <1>1, <1>2, <2>1 DEF InLoop
<1>4. CASE Delivering(c) \/ Consuming(c)
  <2>1. Len(processing[c]) = 1 /\ polls[c] = 0 /\ cmds[c] = <<>>
    BY <1>4 DEF Delivering, Consuming, UnderWay
  <2>2. Ended(c)' BY <1>1, <1>2, <2>1 DEF Ended, UnderWay
  <2> QED BY <1>1, <1>2, <2>2 DEF InLoop
<1>5. CASE Settling(c)
  <2>1. Settling(c)' BY <1>1, <1>5, StaysJustified DEF Settling, UnderWay
  <2> QED BY <1>1, <1>2, <2>1 DEF InLoop
<1> QED BY <1>3, <1>4, <1>5 DEF InLoop

\* Going up, going down and crashing keep the consumer in its loop: only a
\* consumer with nothing under way goes up, and what is cut off on the way
\* down ends the loop with at most one message left.
LEMMA PowerLoop ==
  ASSUME TypeOK, SingleUse, NEW c \in Consumer, InLoop(c), PowerStep(c)
  PROVE  InLoop(c)'
<1> USE DEF TypeOK, StoreTypeOK, storeVars, lists, consumerVars
<1>0. /\ polls[c] \in Nat /\ inbox[c] \in Seq(Entry) /\ jobs[c] \subseteq Job
      /\ cmds[c] \in Seq(Cmd) /\ processing[c] \in Seq(Entry)
      /\ runs[c] \in Nat /\ power[c] \in Power /\ MaxRuns \in Nat
  BY ConsumerAssumption
<1> DEFINE Left == /\ polls'[c] = polls[c] /\ inbox'[c] = inbox[c]
                   /\ jobs'[c] = jobs[c] /\ cmds'[c] = cmds[c]
                   /\ processing'[c] = processing[c]
                   /\ succeeded' = succeeded /\ elapsed' = elapsed
\* While nothing under way changes, a stage is left only by a consumer that
\* starts to run with its loop ended.
<1>1. ASSUME Left, isRunning(c)' => isRunning(c)
      PROVE  (Fetching(c) \/ Delivering(c) \/ Consuming(c) \/ Settling(c)
                \/ Ended(c))'
  <2>1. ASSUME Settling(c) PROVE Settling(c)'
    BY <1>1, <2>1, StaysJustified DEF Settling, UnderWay
  <2> QED BY <1>1, <2>1
          DEF InLoop, Fetching, Delivering, Consuming, Ended, UnderWay
<1>2. ASSUME Left PROVE Unused(c) => Unused(c)'
  BY <1>2 DEF Unused, UnderWay
<1>3. CASE Run(c)
  <2>1. runs[c] = 0 /\ Unused(c)
    BY <1>0, <1>3 DEF Run, SingleUse, InLoop
  <2>2. Left /\ power'[c] = "starting" /\ runs'[c] = 1
    BY <1>3, <2>1 DEF Run
  <2>3. isRunning(c)' => isRunning(c) BY <2>2 DEF isRunning
  <2> QED BY <1>1, <1>2, <2>1, <2>2, <2>3 DEF InLoop
<1>4. CASE setUpBroker(c)
  <2>1. Left /\ power[c] = "starting" /\ power'[c] = "connected" /\ runs' = runs
    BY <1>4 DEF setUpBroker
  <2>2. isRunning(c)' => isRunning(c) BY <2>1 DEF isRunning
  <2> QED BY <1>1, <1>2, <2>1, <2>2 DEF InLoop
<1>5. CASE setUpHeartbeat(c)
  <2>1. Left /\ power[c] = "connected" /\ power'[c] = "beating" /\ runs' = runs
    BY <1>5 DEF setUpHeartbeat
  <2>2. isRunning(c)' => isRunning(c) BY <2>1 DEF isRunning
  <2> QED BY <1>1, <1>2, <2>1, <2>2 DEF InLoop
<1>6. CASE setUpProcessingQueue(c)
  <2>1. Unused(c) /\ runs[c] # 0
    BY <1>6 DEF setUpProcessingQueue, InLoop
  <2>2. Fetching(c)'
    BY <1>6, <2>1 DEF setUpProcessingQueue, Unused, Fetching, UnderWay
  <2> QED BY <1>6, <2>1, <2>2 DEF setUpProcessingQueue, InLoop
<1>7. CASE Beat(c)
  <2>1. Left /\ power' = power /\ runs' = runs BY <1>7 DEF Beat
  <2>2. isRunning(c)' => isRunning(c) BY <2>1 DEF isRunning
  <2> QED BY <1>1, <1>2, <2>1, <2>2 DEF InLoop
<1>8. CASE Shutdown(c)
  <2>1. Left /\ power[c] = "up" /\ power'[c] = "stopping" /\ runs' = runs
    BY <1>8 DEF Shutdown, isRunning
  <2>2. isRunning(c)' => isRunning(c) BY <2>1 DEF isRunning
  <2> QED BY <1>1, <2>1, <2>2 DEF InLoop
<1>9. CASE tearDownHeartbeat(c)
  <2>1. Left /\ power[c] = "stopping" /\ power'[c] = "silent" /\ runs' = runs
    BY <1>9 DEF tearDownHeartbeat
  <2>2. isRunning(c)' => isRunning(c) BY <2>1 DEF isRunning
  <2> QED BY <1>1, <2>1, <2>2 DEF InLoop
<1>10. CASE tearDownConsumerRedisClient(c)
  <2>1. /\ power[c] = "silent" /\ power'[c] = "deaf" /\ runs' = runs
        /\ polls'[c] = 0 /\ inbox'[c] = <<>> /\ jobs' = jobs /\ cmds' = cmds
        /\ processing' = processing /\ succeeded' = succeeded /\ elapsed' = elapsed
    BY <1>10 DEF tearDownConsumerRedisClient
  <2>2. ~isRunning(c)' BY <2>1 DEF isRunning
  <2>3. CASE Fetching(c) \/ Ended(c)
    <3>1. Ended(c)' BY <2>1, <2>2, <2>3 DEF Fetching, Ended, UnderWay
    <3> QED BY <2>1, <3>1 DEF InLoop
  <2>4. CASE Delivering(c)
    <3>1. PICK e \in Entry : processing[c] = <<e>> /\ jobs[c] = {} /\ cmds[c] = <<>>
      BY <1>0, <2>4 DEF Delivering, UnderWay, ToSet
    <3>2. Len(processing'[c]) <= 1 BY <2>1, <3>1, Singleton
    <3>3. Ended(c)' BY <2>1, <2>2, <3>1, <3>2 DEF Ended, UnderWay
    <3> QED BY <2>1, <3>3 DEF InLoop
  <2>5. CASE Consuming(c)
    <3>1. Consuming(c)' BY <2>1, <2>5 DEF Consuming, UnderWay
    <3> QED BY <2>1, <3>1 DEF InLoop
  <2>6. CASE Settling(c)
    <3>1. Settling(c)' BY <2>1, <2>6, StaysJustified DEF Settling, UnderWay
    <3> QED BY <2>1, <3>1 DEF InLoop
  <2> QED BY <2>3, <2>4, <2>5, <2>6 DEF InLoop
<1>11. CASE tearDownSharedRedisClient(c)
  <2>1. /\ power[c] = "deaf" /\ power'[c] = "down" /\ runs' = runs
        /\ polls' = polls /\ inbox' = inbox /\ jobs' = jobs /\ cmds'[c] = <<>>
        /\ processing' = processing
    BY <1>11 DEF tearDownSharedRedisClient
  <2>2. ~isRunning(c)' /\ runs[c] # 0 BY <2>1 DEF isRunning, InLoop
  <2>3. CASE Fetching(c) \/ Delivering(c) \/ Consuming(c) \/ Ended(c)
    <3>1. cmds'[c] = cmds[c]
      BY <2>1, <2>3 DEF Fetching, Delivering, Consuming, Ended, UnderWay
    <3>2. (Fetching(c) \/ Delivering(c) \/ Consuming(c) \/ Ended(c))'
      BY <2>1, <2>2, <2>3, <3>1
      DEF Fetching, Delivering, Consuming, Ended, UnderWay
    <3> QED BY <2>1, <2>2, <3>2 DEF InLoop
  <2>4. CASE Settling(c)
    <3>1. PICK k \in Cmd : processing[c] = <<k.entry>> /\ jobs[c] = {}
                            /\ polls[c] = 0 /\ inbox[c] = <<>>
      BY <1>0, <2>4 DEF Settling, UnderWay, ToSet
    <3>2. Len(processing'[c]) <= 1 BY <2>1, <3>1
    <3>3. Ended(c)' BY <2>1, <2>2, <3>1, <3>2 DEF Ended, UnderWay
    <3> QED BY <2>1, <2>2, <3>3 DEF InLoop
  <2> QED BY <2>3, <2>4 DEF InLoop
<1>12. CASE Crash(c) BY <1>12, DiesLoop DEF Crash
<1>13. CASE ConnectionLost(c)
  <2>1. /\ power[c] = "crashed" /\ power' = power /\ runs' = runs
        /\ polls'[c] = 0 /\ inbox' = inbox /\ jobs' = jobs /\ cmds'[c] = <<>>
        /\ processing' = processing
        /\ polls[c] > 0 \/ cmds[c] # <<>>
    BY <1>13 DEF ConnectionLost
  <2>2. inbox[c] = <<>> /\ jobs[c] = {} /\ Len(processing[c]) <= 1 /\ runs[c] # 0
    <3>1. runs[c] # 0 BY <2>1 DEF InLoop
    <3>2. Fetching(c) \/ Settling(c)
      BY <2>1 DEF InLoop, Delivering, Consuming, Ended, UnderWay
    <3>3. CASE Fetching(c) BY <3>1, <3>3 DEF Fetching, UnderWay
    <3>4. CASE Settling(c) BY <3>1, <3>4 DEF Settling, UnderWay
    <3> QED BY <3>2, <3>3, <3>4
  <2>3. Ended(c)' BY <2>1, <2>2 DEF Ended, UnderWay, isRunning
  <2> QED BY <2>1, <2>2, <2>3 DEF InLoop
<1> QED
  BY <1>3, <1>4, <1>5, <1>6, <1>7, <1>8, <1>9, <1>10, <1>11, <1>12, <1>13
  DEF PowerStep

\* A step of the message loop leads from a stage to the next one.
LEMMA LoopLoop ==
  ASSUME TypeOK, NoStaleTimers, NEW c \in Consumer, InLoop(c), LoopStep(c)
  PROVE  InLoop(c)'
<1>0. /\ polls[c] \in Nat /\ inbox[c] \in Seq(Entry) /\ jobs[c] \subseteq Job
      /\ cmds[c] \in Seq(Cmd) /\ processing[c] \in Seq(Entry)
  BY DEF TypeOK, StoreTypeOK
<1>1. runs' = runs
  BY DEF LoopStep, JobStep, Dequeue, ReceiveExpired, Receive, ReceiveThrows,
         HandlerSucceeds, HandlerFails, HandlerIgnored, TimerFires, TimerPanics,
         ExecCmd
<1>2. ~Unused(c)
  BY <1>0
  DEF Unused, UnderWay, LoopStep, JobStep, Dequeue, ReceiveExpired, Receive,
      ReceiveThrows, ExecCmd
<1>3. runs'[c] # 0 /\ power[c] \notin {"starting", "connected", "beating"}
  BY <1>1, <1>2, UsedPower
<1>4. ASSUME power' = power,
             (Fetching(c) \/ Delivering(c) \/ Consuming(c) \/ Settling(c)
                \/ Ended(c))'
      PROVE  InLoop(c)'
  BY <1>3, <1>4 DEF InLoop
<1>5. CASE Dequeue(c)
  <2> DEFINE q == QueueOf[c]
  <2>1. Fetching(c)
    BY <1>5 DEF Dequeue, InLoop, Delivering, Consuming, Settling, Ended, UnderWay
  <2>2. q \in Queue BY StoreAssumption
  <2>3. PICK e \in Entry : e = Last(queue[q])
    BY <1>5, <2>2, FrontLastType DEF Dequeue, dequeue, TypeOK, StoreTypeOK
  <2>4. processing'[c] = <<e>>
    BY <1>5, <2>1, <2>3, Singleton
    DEF Dequeue, dequeue, Fetching, TypeOK, StoreTypeOK
  <2>5. polls'[c] = 0 /\ jobs'[c] = {} /\ cmds'[c] = <<>> /\ power' = power
    BY <1>5, <2>1 DEF Dequeue, Fetching, UnderWay, TypeOK
  <2>6. CASE power[c] = "crashed"
    <3>1. inbox'[c] = <<>> BY <1>5, <2>1, <2>6 DEF Dequeue, Fetching, UnderWay
    <3>2. Len(processing'[c]) <= 1 BY <2>4
    <3>3. Ended(c)'
      BY <2>5, <2>6, <3>1, <3>2 DEF Ended, UnderWay, isRunning
    <3> QED BY <1>4, <2>5, <3>3
  <2>7. CASE power[c] # "crashed"
    <3>1. inbox'[c] = <<e>>
      BY <1>5, <2>1, <2>3, <2>7, Singleton DEF Dequeue, Fetching, UnderWay, TypeOK
    <3>2. e \in ToSet(inbox'[c]) BY <3>1, Singleton
    <3>3. Delivering(c)' BY <2>4, <2>5, <3>1, <3>2 DEF Delivering, UnderWay
    <3> QED BY <1>4, <2>5, <3>3
  <2> QED BY <2>6, <2>7
\* What a reply leads to.
<1>6. ASSUME inbox[c] # <<>>
      PROVE  /\ Delivering(c)
             /\ Head(inbox[c]) \in Entry
             /\ Tail(inbox[c]) = <<>>
             /\ processing[c] = <<Head(inbox[c])>>
             /\ polls[c] = 0 /\ jobs[c] = {} /\ cmds[c] = <<>>
  <2>1. Delivering(c)
    BY <1>6 DEF InLoop, Fetching, Consuming, Settling, Ended, UnderWay
  <2>2. PICK e \in Entry : /\ inbox[c] = <<e>> /\ processing[c] = <<e>>
                           /\ polls[c] = 0 /\ jobs[c] = {} /\ cmds[c] = <<>>
    BY <1>0, <2>1 DEF Delivering, UnderWay, ToSet
  <2> QED BY <2>1, <2>2, Singleton
<1>7. CASE ReceiveExpired(c)
  <2>1. Settling(c)' \/ Ended(c)'
    BY <1>6, <1>7, UnacknowledgeStage
    DEF ReceiveExpired, TypeOK, storeVars, lists
  <2> QED BY <1>4, <1>7, <2>1 DEF ReceiveExpired
<1>8. CASE Receive(c)
  <2>1. PICK j \in Job : j = [entry |-> Head(inbox[c]), handler |-> TRUE,
                              timer |-> Head(inbox[c]).id \in ConsumeTimeout]
    <3>1. Head(inbox[c]) \in Entry BY <1>6, <1>8 DEF Receive
    <3>2. [entry |-> Head(inbox[c]), handler |-> TRUE,
           timer |-> Head(inbox[c]).id \in ConsumeTimeout] \in Job
      BY <3>1 DEF Job
    <3> QED BY <3>2
  <2>2. /\ jobs'[c] = {j} /\ inbox'[c] = <<>> /\ polls'[c] = 0 /\ cmds'[c] = <<>>
        /\ processing'[c] = <<j.entry>>
    BY <1>6, <1>8, <2>1 DEF Receive, TypeOK, storeVars, lists
  <2>3. Consuming(c)' BY <2>2 DEF Consuming, UnderWay
  <2> QED BY <1>4, <1>8, <2>3 DEF Receive
<1>9. CASE ReceiveThrows(c)
  <2>1. Head(inbox[c]).id \notin ConsumeTimeout
    BY <1>9 DEF ReceiveThrows, NoStaleTimers
  <2>2. Settling(c)' \/ Ended(c)'
    BY <1>6, <1>9, <2>1, UnacknowledgeStage
    DEF ReceiveThrows, TypeOK, storeVars, lists
  <2> QED BY <1>4, <1>9, <2>2 DEF ReceiveThrows
<1>10. CASE JobStep(c)
  <2>1. PICK j \in jobs[c] :
          \/ HandlerSucceeds(c, j) \/ HandlerFails(c, j)
          \/ HandlerIgnored(c, j) \/ TimerFires(c, j) \/ TimerPanics(c, j)
    BY <1>10 DEF JobStep
  <2>2. Consuming(c)
    BY <2>1 DEF InLoop, Fetching, Delivering, Settling, Ended, UnderWay
  <2>3. /\ j \in Job /\ j.entry \in Entry /\ jobs[c] = {j}
        /\ polls[c] = 0 /\ inbox[c] = <<>> /\ cmds[c] = <<>>
        /\ processing[c] = <<j.entry>>
    BY <1>0, <2>1, <2>2 DEF Consuming, UnderWay, Job
  <2>4. jobs[c] \ {j} = {} BY <2>3
  <2>5. CASE HandlerSucceeds(c, j)
    <3>1. PICK k \in Cmd : k = [op |-> "acknowledge", entry |-> j.entry]
      BY <2>3 DEF Cmd, Op
    <3>2. /\ cmds'[c] = <<k>> /\ jobs'[c] = {} /\ polls'[c] = 0
          /\ inbox'[c] = <<>> /\ processing'[c] = <<k.entry>>
      BY <2>3, <2>4, <2>5, <3>1, Singleton
      DEF HandlerSucceeds, TypeOK, storeVars, lists
    <3>3. Justified(k)' BY <2>5, <3>1 DEF HandlerSucceeds, Justified
    <3>4. k \in ToSet(cmds'[c]) BY <3>2, Singleton
    <3>5. Settling(c)' BY <3>2, <3>3, <3>4 DEF Settling, UnderWay
    <3> QED BY <1>4, <2>5, <3>5 DEF HandlerSucceeds
  <2>6. CASE HandlerFails(c, j)
    <3>1. Settling(c)' \/ Ended(c)'
      BY <2>3, <2>4, <2>6, UnacknowledgeStage
      DEF HandlerFails, TypeOK, storeVars, lists
    <3> QED BY <1>4, <2>6, <3>1 DEF HandlerFails
  <2>7. CASE HandlerIgnored(c, j)
    <3>1. /\ polls'[c] = 0 /\ inbox'[c] = <<>> /\ cmds'[c] = <<>>
          /\ processing'[c] = <<j.entry>> /\ power' = power
      BY <2>3, <2>7 DEF HandlerIgnored, storeVars, lists
    <3>2. CASE j.timer
      <4>1. PICK i \in Job : i = [j EXCEPT !.handler = FALSE]
        BY <2>3 DEF Job
      <4>2. i.entry = j.entry BY <2>3, <4>1 DEF Job
      <4>3. jobs'[c] = {i}
        BY <2>4, <2>7, <3>2, <4>1 DEF HandlerIgnored, TypeOK
      <4>4. Consuming(c)' BY <3>1, <4>2, <4>3 DEF Consuming, UnderWay
      <4> QED BY <1>4, <3>1, <4>4
    <3>3. CASE ~j.timer
      <4>1. jobs'[c] = {} BY <2>4, <2>7, <3>3 DEF HandlerIgnored, TypeOK
      <4>2. Ended(c)'
        BY <2>7, <3>1, <4>1 DEF HandlerIgnored, Ended, UnderWay, isRunning
      <4> QED BY <1>4, <3>1, <4>2
    <3> QED BY <3>2, <3>3
  <2>8. CASE TimerFires(c, j)
    <3>1. Settling(c)' \/ Ended(c)'
      BY <2>3, <2>4, <2>8, UnacknowledgeStage
      DEF TimerFires, TypeOK, storeVars, lists
    <3> QED BY <1>4, <2>8, <3>1 DEF TimerFires
  <2>9. CASE TimerPanics(c, j)
    BY <1>3, <2>9 DEF TimerPanics
  <2> QED BY <2>1, <2>5, <2>6, <2>7, <2>8, <2>9
<1>11. CASE ExecCmd(c)
  <2>1. Settling(c)
    BY <1>11 DEF ExecCmd, InLoop, Fetching, Delivering, Consuming, Ended, UnderWay
  <2>2. PICK k \in Cmd : /\ cmds[c] = <<k>> /\ processing[c] = <<k.entry>>
                         /\ polls[c] = 0 /\ inbox[c] = <<>> /\ jobs[c] = {}
    BY <1>0, <2>1 DEF Settling, UnderWay, ToSet
  <2>3. k.entry \in Entry BY <2>2 DEF Cmd
  <2>4. LPopped(processing[c]) = <<>> /\ RPopped(processing[c]) = <<>>
    BY <2>2, <2>3, Singleton
  <2>5. processing'[c] = <<>>
    BY <1>11, <2>4
    DEF ExecCmd, Settle, acknowledge, deadLetterMessage, delayBeforeRequeue,
        requeue, TypeOK, StoreTypeOK
  <2>6. Tail(cmds[c]) = <<>> BY <2>2, Singleton
  <2>7. cmds'[c] = <<>> /\ inbox'[c] = <<>> /\ jobs'[c] = {} /\ power' = power
    BY <1>11, <2>2, <2>6 DEF ExecCmd, TypeOK
  <2>8. CASE isRunning(c)
    <3>1. polls'[c] = 1 BY <1>11, <2>2, <2>8 DEF ExecCmd, TypeOK
    <3>2. Fetching(c)' BY <2>5, <2>7, <3>1 DEF Fetching, UnderWay
    <3> QED BY <1>4, <2>7, <3>2
  <2>9. CASE ~isRunning(c)
    <3>1. polls'[c] = 0 BY <1>11, <2>2, <2>9 DEF ExecCmd
    <3>2. Ended(c)'
      BY <2>5, <2>7, <2>9, <3>1 DEF Ended, UnderWay, isRunning
    <3> QED BY <1>4, <2>7, <3>2
  <2> QED BY <2>8, <2>9
<1> QED BY <1>5, <1>7, <1>8, <1>9, <1>10, <1>11 DEF LoopStep

-----------------------------------------------------------------------------
(***************************************************************************)
(* Where messages end.                                                     *)
(***************************************************************************)

\* Pushing to either end of a list adds one element.
LEMMA PushSet ==
  ASSUME NEW S, NEW s \in Seq(S), NEW x \in S
  PROVE  /\ ToSet(Append(s, x)) \subseteq ToSet(s) \union {x}
         /\ ToSet(<<x>> \o s) \subseteq ToSet(s) \union {x}
<1>1. ToSet(Append(s, x)) \subseteq ToSet(s) \union {x}
  BY DEF ToSet
<1>2. ASSUME NEW i \in DOMAIN (<<x>> \o s)
      PROVE  (<<x>> \o s)[i] \in ToSet(s) \union {x}
  <2>1. i \in 1 .. Len(s) + 1 BY <1>2
  <2>2. CASE i = 1 BY <2>2
  <2>3. CASE i # 1
    <3>1. i - 1 \in DOMAIN s /\ (<<x>> \o s)[i] = s[i - 1] BY <2>1, <2>3
    <3> QED BY <3>1 DEF ToSet
  <2> QED BY <2>2, <2>3
<1> QED BY <1>1, <1>2 DEF ToSet

\* The same for one of a family of lists.
LEMMA PushAt ==
  ASSUME NEW f \in [Queue -> Seq(Entry)], NEW q \in Queue, NEW e \in Entry
  PROVE  \A p \in Queue : ToSet([f EXCEPT ![q] = Append(@, e)][p]) \subseteq
                            ToSet(f[p]) \union {e}
<1> TAKE p \in Queue
<1>1. CASE p = q
  <2>1. [f EXCEPT ![q] = Append(@, e)][p] = Append(f[q], e) BY <1>1
  <2> QED BY <1>1, <2>1, PushSet
<1>2. CASE p # q
  <2>1. [f EXCEPT ![q] = Append(@, e)][p] = f[p] BY <1>2
  <2> QED BY <2>1
<1> QED BY <1>1, <1>2

\* Acknowledged messages succeeded, and Broker.retry explains the others.
Destinations == AcknowledgedSucceeded /\ RetryPolicy

\* A step that touches none of the four lists.
LEMMA DestinationsStay ==
  ASSUME Destinations,
         UNCHANGED <<acknowledged, deadLetter, requeueList, delayList>>,
         succeeded \subseteq succeeded', elapsed \subseteq elapsed'
  PROVE  Destinations'
BY DEF Destinations, AcknowledgedSucceeded, RetryPolicy, hasExpired, isPeriodic,
       hasRetryThresholdExceeded

\* A move puts the one message it was chosen for where it belongs.
LEMMA DestinationsExec ==
  ASSUME TypeOK, NEW c \in Consumer, InLoop(c), Destinations, ExecCmd(c)
  PROVE  Destinations'
<1> DEFINE q == QueueOf[c]
<1>1. q \in Queue BY StoreAssumption
<1>2. Settling(c)
  BY DEF ExecCmd, InLoop, Fetching, Delivering, Consuming, Ended, UnderWay
<1>3. PICK k \in Cmd : /\ cmds[c] = <<k>> /\ processing[c] = <<k.entry>>
                       /\ Justified(k)
  <2>1. cmds[c] \in Seq(Cmd) BY DEF TypeOK
  <2> QED BY <1>2, <2>1 DEF Settling, UnderWay, ToSet
<1>4. k.entry \in Entry BY <1>3 DEF Cmd
<1>5. /\ processing[c] # <<>> /\ Head(processing[c]) = k.entry
      /\ Last(processing[c]) = k.entry /\ Head(cmds[c]) = k
  BY <1>3, <1>4, Singleton
<1>6. succeeded' = succeeded /\ elapsed' = elapsed BY DEF ExecCmd
<1>7. CASE k.op = "acknowledge"
  <2>1. acknowledge(c, q) BY <1>5, <1>7 DEF ExecCmd, Settle
  <2>2. acknowledged' = [acknowledged EXCEPT ![q] = Append(@, k.entry)]
    BY <1>5, <2>1 DEF acknowledge, lpoprpush
  <2>3. \A p \in Queue : ToSet(acknowledged'[p]) \subseteq
                           ToSet(acknowledged[p]) \union {k.entry}
    BY <1>1, <1>4, <2>2, PushAt DEF TypeOK, StoreTypeOK
  <2>4. k.entry.id \in succeeded BY <1>3, <1>7 DEF Justified
  <2>5. AcknowledgedSucceeded'
    BY <1>6, <2>3, <2>4 DEF Destinations, AcknowledgedSucceeded
  <2>6. RetryPolicy'
    BY <1>6, <2>1 DEF acknowledge, Destinations, RetryPolicy
  <2> QED BY <2>5, <2>6 DEF Destinations
<1>8. CASE k.op = "deadLetter"
  <2>1. deadLetterMessage(c, q) BY <1>5, <1>8 DEF ExecCmd, Settle
  <2>2. deadLetter' = [deadLetter EXCEPT ![q] = Append(@, k.entry)]
    BY <1>5, <2>1 DEF deadLetterMessage, lpoprpush
  <2>3. \A p \in Queue : ToSet(deadLetter'[p]) \subseteq
                           ToSet(deadLetter[p]) \union {k.entry}
    BY <1>1, <1>4, <2>2, PushAt DEF TypeOK, StoreTypeOK
  <2>4. \/ isPeriodic(k.entry) \/ hasRetryThresholdExceeded(k.entry)
        \/ hasExpired(k.entry, elapsed)
    BY <1>3, <1>8 DEF Justified
  <2>5. AcknowledgedSucceeded'
    BY <1>6, <2>1 DEF deadLetterMessage, Destinations, AcknowledgedSucceeded
  <2>6. RetryPolicy'
    BY <1>6, <2>1, <2>3, <2>4 DEF deadLetterMessage, Destinations, RetryPolicy
  <2> QED BY <2>5, <2>6 DEF Destinations
<1>9. CASE k.op \in {"delay", "requeue"}
  <2>1. /\ ToSet(requeueList') \union ToSet(delayList') \subseteq
             ToSet(requeueList) \union ToSet(delayList) \union {k.entry}
        /\ UNCHANGED <<acknowledged, deadLetter>>
    <3>1. CASE k.op = "delay"
      <4>1. delayBeforeRequeue(c) BY <1>5, <3>1 DEF ExecCmd, Settle
      <4>2. delayList' = <<k.entry>> \o delayList
        BY <1>5, <4>1 DEF delayBeforeRequeue, rpoplpush
      <4>3. ToSet(delayList') \subseteq ToSet(delayList) \union {k.entry}
        BY <1>4, <4>2, PushSet DEF TypeOK, StoreTypeOK
      <4> QED BY <4>1, <4>3 DEF delayBeforeRequeue
    <3>2. CASE k.op = "requeue"
      <4>1. requeue(c) BY <1>5, <3>2 DEF ExecCmd, Settle
      <4>2. requeueList' = <<k.entry>> \o requeueList
        BY <1>5, <4>1 DEF requeue, rpoplpush
      <4>3. ToSet(requeueList') \subseteq ToSet(requeueList) \union {k.entry}
        BY <1>4, <4>2, PushSet DEF TypeOK, StoreTypeOK
      <4> QED BY <4>1, <4>3 DEF requeue
    <3> QED BY <1>9, <3>1, <3>2
  <2>2. ~isPeriodic(k.entry) /\ ~hasRetryThresholdExceeded(k.entry)
    BY <1>3, <1>9 DEF Justified
  <2>3. AcknowledgedSucceeded'
    BY <1>6, <2>1 DEF Destinations, AcknowledgedSucceeded
  <2>4. RetryPolicy'
    BY <1>6, <2>1, <2>2 DEF Destinations, RetryPolicy
  <2> QED BY <2>3, <2>4 DEF Destinations
<1> QED BY <1>3, <1>7, <1>8, <1>9 DEF Cmd, Op, RetryOp

-----------------------------------------------------------------------------
(***************************************************************************)
(* The theorems.                                                           *)
(***************************************************************************)
IndInv == TypeOK /\ LoopInvariant /\ Destinations

\* Initially the loops are not started, or fetch.
LEMMA InitIndInv == Init => IndInv
<1> SUFFICES ASSUME Init PROVE IndInv
  OBVIOUS
<1>1. TypeOK BY InitType
<1>2. LoopInvariant
  <2> SUFFICES ASSUME NEW c \in Consumer PROVE InLoop(c)
    BY DEF LoopInvariant
  <2>1. CASE c \in InitiallyUp
    BY <2>1 DEF Init, StoreInit, ConsumerInit, InLoop, Fetching, Unused, UnderWay
  <2>2. CASE c \notin InitiallyUp
    BY <2>2 DEF Init, StoreInit, ConsumerInit, InLoop, Ended, Unused, UnderWay,
                isRunning
  <2> QED BY <2>1, <2>2
<1>3. Destinations
  BY DEF Init, StoreInit, Destinations, AcknowledgedSucceeded, RetryPolicy, ToSet
<1> QED BY <1>1, <1>2, <1>3 DEF IndInv

\* What a step of c leaves alone.
LEMMA StepFrame ==
  ASSUME TypeOK, NEW c \in Consumer, PowerStep(c) \/ LoopStep(c)
  PROVE  /\ succeeded \subseteq succeeded' /\ elapsed' = elapsed
         /\ \A d \in Consumer \ {c} :
              /\ polls'[d] = polls[d] /\ inbox'[d] = inbox[d]
              /\ jobs'[d] = jobs[d] /\ cmds'[d] = cmds[d]
              /\ processing'[d] = processing[d]
              /\ power'[d] = power[d] /\ runs'[d] = runs[d]
<1> USE DEF TypeOK, StoreTypeOK, storeVars, lists, consumerVars
<1>1. CASE PowerStep(c)
  BY <1>1 DEF PowerStep, Run, setUpBroker, setUpHeartbeat, setUpProcessingQueue,
              Beat, Shutdown, tearDownHeartbeat, tearDownConsumerRedisClient,
              tearDownSharedRedisClient, Crash, Dies, ConnectionLost
<1>2. CASE Dequeue(c) BY <1>2 DEF Dequeue, dequeue
<1>3. CASE ReceiveExpired(c)
  BY <1>3 DEF ReceiveExpired, unacknowledgeMessage
<1>4. CASE Receive(c) BY <1>4 DEF Receive
<1>5. CASE ReceiveThrows(c) BY <1>5 DEF ReceiveThrows, unacknowledgeMessage
<1>6. CASE JobStep(c)
  BY <1>6 DEF JobStep, HandlerSucceeds, HandlerFails, HandlerIgnored, TimerFires,
              TimerPanics, unacknowledgeMessage
<1>7. CASE ExecCmd(c)
  BY <1>7 DEF ExecCmd, Settle, acknowledge, deadLetterMessage,
              delayBeforeRequeue, requeue
<1> QED BY <1>1, <1>2, <1>3, <1>4, <1>5, <1>6, <1>7 DEF LoopStep

\* No step but ExecCmd touches the lists messages end in.
LEMMA StepLists ==
  ASSUME NEW c \in Consumer, PowerStep(c) \/ LoopStep(c), ~ExecCmd(c)
  PROVE  UNCHANGED <<acknowledged, deadLetter, requeueList, delayList>>
BY DEF storeVars, lists,
       PowerStep, Run, setUpBroker, setUpHeartbeat, setUpProcessingQueue,
       Beat, Shutdown, tearDownHeartbeat, tearDownConsumerRedisClient,
       tearDownSharedRedisClient, Crash, Dies, ConnectionLost,
       LoopStep, Dequeue, dequeue, ReceiveExpired, Receive, ReceiveThrows,
       JobStep, HandlerSucceeds, HandlerFails, HandlerIgnored, TimerFires,
       TimerPanics

\* Every step keeps the inductive invariant.
LEMMA NextIndInv ==
  ASSUME SingleUse, NoStaleTimers, IndInv, [Next]_vars
  PROVE  IndInv'
<1>1. TypeOK' BY NextType DEF IndInv
<1>2. ASSUME NEW c \in Consumer, PowerStep(c) \/ LoopStep(c)
      PROVE  LoopInvariant' /\ Destinations'
  <2>1. InLoop(c)'
    BY <1>2, PowerLoop, LoopLoop DEF IndInv, LoopInvariant
  <2>2. ASSUME NEW d \in Consumer \ {c} PROVE InLoop(d)'
    BY <1>2, StepFrame, OtherLoops DEF IndInv, LoopInvariant
  <2>3. LoopInvariant' BY <2>1, <2>2 DEF LoopInvariant
  <2>4. CASE ExecCmd(c)
    BY <2>3, <2>4, DestinationsExec DEF IndInv, LoopInvariant
  <2>5. CASE ~ExecCmd(c)
    BY <1>2, <2>3, <2>5, StepLists, StepFrame, DestinationsStay DEF IndInv
  <2> QED BY <2>4, <2>5
<1>3. ASSUME UNCHANGED <<processing, acknowledged, deadLetter, requeueList,
                         delayList, consumerVars>>,
             elapsed \subseteq elapsed'
      PROVE  LoopInvariant' /\ Destinations'
  <2>1. ASSUME NEW d \in Consumer PROVE InLoop(d)'
    BY <1>3, OtherLoops DEF IndInv, LoopInvariant, consumerVars
  <2>2. Destinations' BY <1>3, DestinationsStay DEF IndInv, consumerVars
  <2> QED BY <2>1, <2>2 DEF LoopInvariant
<1>4. CASE \E m \in MessageId : Arrive(m)
  BY <1>1, <1>3, <1>4 DEF Arrive, IndInv
<1>5. CASE \E m \in MessageId : TTLElapses(m) /\ UNCHANGED consumerVars
  BY <1>1, <1>3, <1>5 DEF TTLElapses, lists, IndInv
<1>6. CASE UNCHANGED vars
  BY <1>1, <1>3, <1>6 DEF vars, storeVars, lists, IndInv
<1> QED BY <1>1, <1>2, <1>4, <1>5, <1>6 DEF Next, IndInv

\* The inductive invariant holds of consumers that are run once and whose
\* throwing handlers have no consume timeout.
THEOREM Inductive ==
  ASSUME SingleUse, NoStaleTimers
  PROVE  Spec => []IndInv
<1>1. IndInv /\ [Next]_vars => IndInv' BY NextIndInv
<1> QED BY <1>1, InitIndInv, PTL DEF Spec

\* What the stages of the loop imply for one consumer.
LEMMA StageFacts ==
  ASSUME TypeOK, NEW c \in Consumer, InLoop(c)
  PROVE  /\ polls[c] + Len(inbox[c]) + Cardinality(jobs[c]) + Len(cmds[c]) <= 1
         /\ Len(processing[c]) <= 1
         /\ isRunning(c) => \/ polls[c] > 0 \/ inbox[c] # <<>>
                            \/ jobs[c] # {} \/ cmds[c] # <<>>
         /\ cmds[c] # <<>> => processing[c] = <<Head(cmds[c]).entry>>
         /\ \A e \in ToSet(inbox[c]) : processing[c] = <<e>>
         /\ \A j \in jobs[c] : processing[c] = <<j.entry>>
<1>0. /\ inbox[c] \in Seq(Entry) /\ jobs[c] \subseteq Job
      /\ cmds[c] \in Seq(Cmd)
  BY DEF TypeOK
<1>1. ToSet(<<>>) = {} /\ Cardinality({}) = 0 /\ Len(<<>>) = 0
  BY FS_EmptySet DEF ToSet
<1>2. CASE Fetching(c) BY <1>1, <1>2 DEF Fetching, UnderWay
<1>3. CASE Delivering(c)
  <2>1. PICK e \in Entry : /\ UnderWay(c, 0, <<e>>, {}, <<>>)
                           /\ processing[c] = <<e>>
    BY <1>0, <1>3 DEF Delivering, UnderWay, ToSet
  <2> QED BY <1>1, <2>1, Singleton DEF UnderWay
<1>4. CASE Consuming(c)
  <2>1. PICK j \in Job : /\ UnderWay(c, 0, <<>>, {j}, <<>>)
                         /\ processing[c] = <<j.entry>>
    BY <1>0, <1>4 DEF Consuming
  <2>2. Cardinality(jobs[c]) = 1 BY <2>1, FS_Singleton DEF UnderWay
  <2> QED BY <1>1, <2>1, <2>2 DEF UnderWay
<1>5. CASE Settling(c)
  <2>1. PICK k \in Cmd : /\ UnderWay(c, 0, <<>>, {}, <<k>>)
                         /\ processing[c] = <<k.entry>>
    BY <1>0, <1>5 DEF Settling, UnderWay, ToSet
  <2> QED BY <1>1, <2>1, Singleton DEF UnderWay
<1>6. CASE Ended(c) BY <1>1, <1>6 DEF Ended, UnderWay
<1> QED BY <1>2, <1>3, <1>4, <1>5, <1>6 DEF InLoop

\* The loop never forks, for every number of consumers and messages: no
\* order of replies, callbacks, timers, shutdowns and crashes gives a consumer
\* two messages at once.
THEOREM LoopNeverForks ==
  ASSUME SingleUse, NoStaleTimers
  PROVE  Spec => []OneAtATime
<1>1. IndInv => OneAtATime BY StageFacts DEF OneAtATime, IndInv, LoopInvariant
<1> QED BY <1>1, Inductive, PTL

\* A running consumer always has something under way: no callback path of
\* handleReceivedMessage and handleConsume forgets MESSAGE_NEXT.
THEOREM LoopNeverDies ==
  ASSUME SingleUse, NoStaleTimers
  PROVE  Spec => []NeverIdle
<1>1. IndInv => NeverIdle BY StageFacts DEF NeverIdle, IndInv, LoopInvariant
<1> QED BY <1>1, Inductive, PTL

\* The positional pops of ProcessingHandler always hit the message they were
\* issued for.
THEOREM PopsHitTheirMessage ==
  ASSUME SingleUse, NoStaleTimers
  PROVE  Spec => []SettlesOwn
<1>1. ASSUME IndInv PROVE SettlesOwn
  <2> SUFFICES ASSUME NEW c \in Consumer, cmds[c] # <<>>
               PROVE  /\ processing[c] # <<>>
                      /\ Head(cmds[c]).entry = Head(processing[c])
                      /\ Head(cmds[c]).entry = Last(processing[c])
    BY DEF SettlesOwn
  <2>1. processing[c] = <<Head(cmds[c]).entry>> BY <1>1, StageFacts DEF IndInv, LoopInvariant
  <2> QED BY <2>1, Singleton
<1> QED BY <1>1, Inductive, PTL

\* What a consumer has fetched or is consuming is in its processing queue,
\* where a crash leaves it for the garbage collector.
THEOREM HeldMessagesAreStored ==
  ASSUME SingleUse, NoStaleTimers
  PROVE  Spec => []HeldIsStored
<1>1. ASSUME IndInv PROVE HeldIsStored
  <2> SUFFICES ASSUME NEW c \in Consumer
               PROVE  /\ ToSet(inbox[c]) \subseteq ToSet(processing[c])
                      /\ \A j \in jobs[c] : j.entry \in ToSet(processing[c])
    BY DEF HeldIsStored
  <2>1. \A e \in ToSet(inbox[c]) : processing[c] = <<e>> BY <1>1, StageFacts DEF IndInv, LoopInvariant
  <2>2. \A j \in jobs[c] : processing[c] = <<j.entry>> BY <1>1, StageFacts DEF IndInv, LoopInvariant
  <2> QED BY <2>1, <2>2, Singleton
<1> QED BY <1>1, Inductive, PTL

\* "If an error occurs, messages are unacknowledged": nothing ends in an
\* acknowledged queue unless its handler reported success in time.
THEOREM AcknowledgedOnlyOnSuccess ==
  ASSUME SingleUse, NoStaleTimers
  PROVE  Spec => []AcknowledgedSucceeded
<1>1. IndInv => AcknowledgedSucceeded BY DEF IndInv, Destinations
<1> QED BY <1>1, Inductive, PTL

\* Where an unacknowledged message ends follows Broker.retry, although the
\* decision is taken before the move runs.
THEOREM RetriedByPolicy ==
  ASSUME SingleUse, NoStaleTimers
  PROVE  Spec => []RetryPolicy
<1>1. IndInv => RetryPolicy BY DEF IndInv, Destinations
<1> QED BY <1>1, Inductive, PTL
=============================================================================
