--------------------------- MODULE PriorityProofs ---------------------------
(***************************************************************************)
(* Proofs about PriorityQueue.  A message with a retryDelay is safe in a   *)
(* priority queue whatever the other messages, the workers and the         *)
(* administrators do; one without is not, because the requeue worker       *)
(* writes its text where zpophgetrpush expects an id.  Until two sets of   *)
(* workers overlap, no message is given out twice.                         *)
(***************************************************************************)
EXTENDS PriorityQueue, TLAPS

(***************************************************************************)
(* A consumer holds a message exactly while its handler works on it, and   *)
(* messages whose retries are delayed are never on the requeue list.       *)
(***************************************************************************)
HoldsOne ==
  \A c \in Consumer :
    IF stage[c] = "consuming" THEN \E e \in Entry : processing[c] = <<e>>
                              ELSE processing[c] = <<>>

NeverRequeued ==
  /\ \A e \in requeueList : e.id \notin RetryDelay
  /\ \A w \in Worker : \A e \in requeueBatch[w] : e.id \notin RetryDelay

PriorityInv ==
  /\ PriorityTypeOK
  /\ HoldsOne
  /\ NeverRequeued
  /\ DelayedDeliverable

\* Broker.retry does not requeue a message that has a retryDelay.
LEMMA DelayedRetries ==
  ASSUME NEW e \in Entry, e.id \in RetryDelay
  PROVE  retry(e, {}) \in {"deadLetter", "delay"}
BY DEF retry, Entry

\* One more attempt is the text of the same message.
LEMMA AttemptCounted ==
  ASSUME NEW e \in Entry
  PROVE  incrAttempts(e) \in Entry /\ incrAttempts(e).id = e.id
<1>1. e.attempts \in Nat /\ e.attempts + 1 \in Nat
  BY DEF Entry
<1> QED BY <1>1 DEF incrAttempts, Entry

\* What a consumer that is given e holds, and what it holds afterwards.
LEMMA OneElement ==
  ASSUME NEW e
  PROVE  /\ Append(<<>>, e) = <<e>>
         /\ Head(<<e>>) = e
         /\ Tail(<<e>>) = <<>>
         /\ ToSet(<<e>>) = {e}
         /\ ToSet(<<>>) = {}
BY DEF ToSet

\* Members that are ids are told apart by them.
LEMMA IdsDiffer == \A k, l \in IdMember : k.id = l.id => k = l
BY DEF IdMember

\* LREM takes nothing but the batch and, until workers overlap, all of it.
LEMMA LremFacts ==
  ASSUME NEW list, NEW batch, NEW l \in lrem(list, batch)
  PROVE  /\ l \subseteq list
         /\ list \ batch \subseteq l
         /\ ~overlapped => l = list \ batch
BY DEF lrem

\* HSET of texts: the hash has no others, and has one for each of their ids.
LEMMA HsetsFacts ==
  ASSUME NEW h, NEW S, NEW g \in hsets(h, S)
  PROVE  /\ g \subseteq h \union S
         /\ \A x \in h \union S : \E y \in g : y.id = x.id
         /\ \A x \in h : (\A e \in S : x.id # e.id) => x \in g
<1>1. PICK T \in SUBSET S :
        /\ g = {x \in h : \A e \in S : x.id # e.id} \union T
        /\ \A e \in S : \E x \in T : x.id = e.id /\ \A y \in T : y.id = e.id => y = x
  BY DEF hsets
<1>2. \A x \in S : \E y \in g : y.id = x.id BY <1>1
<1>3. \A x \in h : (\A e \in S : x.id # e.id) => x \in g BY <1>1
<1>4. \A x \in h : \E y \in g : y.id = x.id BY <1>2, <1>3
<1> QED BY <1>1, <1>2, <1>3, <1>4

\* A step of the workers that only reads.
LEMMA ReadKeeps ==
  ASSUME PriorityInv, NEW w \in Worker,
         \/ RequeueRead(w) \/ DelayRead(w) \/ fetchIds(w) \/ fetchMessages(w)
         \/ StartWorkers(w) \/ StopWorkers(w)
  PROVE  /\ PriorityInv'
         /\ UNCHANGED <<orderVars, lifo, processing, listVars, settled, published, removed, stage>>
<1>1. UNCHANGED <<orderVars, lifo, processing, listVars, settled, published, removed, stage>>
  BY DEF RequeueRead, DelayRead, fetchIds, fetchMessages, StartWorkers, StopWorkers
<1>2. UNCHANGED <<zset, hash, lifo, processing, requeueList, delayList, scheduled, settled,
                  published, removed, stage>>
  BY <1>1 DEF orderVars, listVars
<1>3. HoldsOne' /\ DelayedDeliverable'
  BY <1>2 DEF PriorityInv, HoldsOne, DelayedDeliverable, hget
<1>4. /\ status' \in [Worker -> Status]
      /\ overlapped' \in BOOLEAN
  BY DEF RequeueRead, DelayRead, fetchIds, fetchMessages, StartWorkers, StopWorkers,
         PriorityInv, PriorityTypeOK, Status
<1>5. /\ requeueBatch' \in [Worker -> SUBSET Entry]
      /\ \A v \in Worker : \A e \in requeueBatch'[v] : e.id \notin RetryDelay
  BY DEF RequeueRead, DelayRead, fetchIds, fetchMessages, StartWorkers, StopWorkers,
         batchVars, PriorityInv, PriorityTypeOK, NeverRequeued
<1>6. delayBatch' \in [Worker -> SUBSET Entry]
  BY DEF RequeueRead, DelayRead, fetchIds, fetchMessages, StartWorkers, StopWorkers,
         batchVars, PriorityInv, PriorityTypeOK
<1>7. dueIds' \in [Worker -> SUBSET MessageId]
  <2>1. {e.id : e \in scheduled} \subseteq MessageId
    BY DEF PriorityInv, PriorityTypeOK, Entry
  <2> QED BY <2>1 DEF RequeueRead, DelayRead, fetchIds, fetchMessages, StartWorkers, StopWorkers,
         batchVars, PriorityInv, PriorityTypeOK
<1>8. dueBatch' \in [Worker -> SUBSET Entry]
  BY DEF RequeueRead, DelayRead, fetchIds, fetchMessages, StartWorkers, StopWorkers,
         batchVars, PriorityInv, PriorityTypeOK
<1>9. PriorityTypeOK' BY <1>2, <1>4, <1>5, <1>6, <1>7, <1>8 DEF PriorityInv, PriorityTypeOK
<1>10. NeverRequeued' BY <1>2, <1>5 DEF PriorityInv, NeverRequeued
<1> QED BY <1>1, <1>3, <1>9, <1>10 DEF PriorityInv

\* The MULTIs of the workers.
LEMMA RequeueExecKeeps ==
  ASSUME PriorityInv, NEW w \in Worker, RequeueExec(w)
  PROVE  PriorityInv'
<1> DEFINE again == {incrAttempts(e) : e \in requeueBatch[w]}
           texts == {JsonOf(e) : e \in again}
<1>1. /\ requeueList' \subseteq requeueList
      /\ zset' \subseteq zset \union texts /\ lifo' \subseteq lifo \union again
      /\ requeueBatch' = [requeueBatch EXCEPT ![w] = {}]
      /\ UNCHANGED <<hash, processing, delayList, scheduled, settled, published, removed,
                     stage, status, delayBatch, dueIds, dueBatch, overlapped>>
  BY LremFacts DEF RequeueExec
<1>2. \A x \in again : x \in Entry /\ x.id \notin RetryDelay
  BY AttemptCounted DEF PriorityInv, PriorityTypeOK, NeverRequeued
<1>3. \A k \in texts : k \in Member /\ k.id \notin RetryDelay
  BY <1>2 DEF JsonOf, Member, JsonMember, Entry
<1> HIDE DEF again, texts
<1>4. PriorityTypeOK'
  BY <1>1, <1>2, <1>3 DEF PriorityInv, PriorityTypeOK
<1>5. HoldsOne' /\ NeverRequeued'
  BY <1>1 DEF PriorityInv, PriorityTypeOK, HoldsOne, NeverRequeued
<1>6. DelayedDeliverable'
  BY <1>1, <1>3 DEF PriorityInv, DelayedDeliverable, hget
<1> QED BY <1>4, <1>5, <1>6 DEF PriorityInv

LEMMA DelayExecKeeps ==
  ASSUME PriorityInv, NEW w \in Worker, DelayExec(w)
  PROVE  PriorityInv'
<1> DEFINE again == {incrAttempts(e) : e \in delayBatch[w]}
<1>1. /\ delayList' \subseteq delayList
      /\ scheduled' \subseteq scheduled \union again
      /\ delayBatch' = [delayBatch EXCEPT ![w] = {}]
      /\ UNCHANGED <<orderVars, lifo, processing, requeueList, settled, published, removed,
                     stage, status, requeueBatch, dueIds, dueBatch, overlapped>>
  BY LremFacts, HsetsFacts DEF DelayExec
<1>2. \A x \in again : x \in Entry
  BY AttemptCounted DEF PriorityInv, PriorityTypeOK
<1> HIDE DEF again
<1>3. PriorityTypeOK'
  BY <1>1, <1>2 DEF PriorityInv, PriorityTypeOK, orderVars
<1>4. HoldsOne' /\ NeverRequeued' /\ DelayedDeliverable'
  BY <1>1 DEF PriorityInv, HoldsOne, NeverRequeued, DelayedDeliverable, hget, orderVars
<1> QED BY <1>3, <1>4 DEF PriorityInv

LEMMA EnqueueKeeps ==
  ASSUME PriorityInv, NEW w \in Worker, NEW e \in dueBatch[w], enqueue(w, e)
  PROVE  PriorityInv'
<1>1. e \in Entry /\ e.id \in MessageId
  BY DEF PriorityInv, PriorityTypeOK, Entry
<1>2. /\ scheduled' \subseteq scheduled
      /\ \/ zpushhset(e) /\ lifo' = lifo
         \/ UNCHANGED <<zset, hash>> /\ lifo' = lifo \union {e}
      /\ dueBatch' = [dueBatch EXCEPT ![w] = @ \ {e}]
      /\ UNCHANGED <<processing, requeueList, delayList, settled, published, removed,
                     stage, status, requeueBatch, delayBatch, dueIds, overlapped>>
  BY DEF enqueue, hdel, orderVars
<1>3. PriorityTypeOK'
  BY <1>1, <1>2 DEF PriorityInv, PriorityTypeOK, zpushhset, hset, IdOf, Member, IdMember
<1>4. HoldsOne' /\ NeverRequeued'
  BY <1>2 DEF PriorityInv, HoldsOne, NeverRequeued
<1>5. DelayedDeliverable'
  BY <1>1, <1>2 DEF PriorityInv, DelayedDeliverable, zpushhset, hset, hget, IdOf
<1> QED BY <1>3, <1>4, <1>5 DEF PriorityInv

\* Every step of consumers, workers, producers and administrators keeps the
\* invariant.
LEMMA InvariantStep ==
  ASSUME PriorityAssumption, PriorityInv, [PriorityNext]_pqVars
  PROVE  PriorityInv'
<1> USE DEF PriorityInv, PriorityTypeOK, HoldsOne, NeverRequeued, DelayedDeliverable, Stage,
            orderVars, listVars, workerVars, batchVars
<1>1. CASE UNCHANGED pqVars
  BY <1>1 DEF pqVars, hget
<1>2. ASSUME NEW c \in Consumer, dequeueWithPriority(c)
      PROVE  PriorityInv'
  <2>1. PICK k \in zset, e \in hash :
          /\ k.text = "id" /\ e.id = k.id
          /\ zset' = zset \ {k}
          /\ hash' = hdel(hash, k.id)
          /\ processing' = [processing EXCEPT ![c] = Append(@, e)]
    BY <1>2 DEF dequeueWithPriority, FirstMembers, hget
  <2>2. processing[c] = <<>> /\ Append(processing[c], e) = <<e>> /\ <<e>> \in Seq(Entry)
    <3>1. processing[c] = <<>>
      BY <1>2 DEF dequeueWithPriority
    <3>2. e \in Entry
      BY <2>1
    <3> HIDE DEF PriorityInv
    <3> QED BY <3>1, <3>2, OneElement
  <2>3. PriorityTypeOK' /\ HoldsOne'
    BY <1>2, <2>1, <2>2 DEF dequeueWithPriority, hdel
  <2>4. ASSUME NEW l \in zset', l.id \in RetryDelay PROVE hget(hash', l) # {}
    <3>1. l \in zset /\ l # k /\ l.text = "id" /\ k \in IdMember /\ l \in IdMember
      BY <2>1, <2>4 DEF hget, Member, IdMember, JsonMember
    <3>2. l.id # k.id
      BY <3>1, IdsDiffer
    <3>3. PICK x \in hash : x.id = l.id
      BY <2>4, <3>1 DEF hget
    <3> QED BY <3>1, <3>2, <3>3, <2>1 DEF hget, hdel
  <2> QED BY <1>2, <2>3, <2>4 DEF dequeueWithPriority
<1>3. ASSUME NEW c \in Consumer, DequeueFails(c)
      PROVE  PriorityInv'
  BY <1>3 DEF DequeueFails, hget
<1>4. ASSUME NEW c \in Consumer, DequeueNothing(c) \/ nextTickFn(c)
      PROVE  PriorityInv'
  BY <1>4 DEF DequeueNothing, nextTickFn, hget
<1>5. ASSUME NEW c \in Consumer, Acknowledge(c)
      PROVE  PriorityInv'
  <2>1. PICK e \in Entry : processing[c] = <<e>>
    BY <1>5 DEF Acknowledge
  <2>2. Head(processing[c]) = e /\ Tail(processing[c]) = <<>>
    BY <2>1, OneElement
  <2> QED BY <1>5, <2>1, <2>2 DEF Acknowledge, hget
<1>6. ASSUME NEW c \in Consumer, Unacknowledge(c)
      PROVE  PriorityInv'
  <2>1. PICK e \in Entry : processing[c] = <<e>>
    BY <1>6 DEF Unacknowledge
  <2>2. Head(processing[c]) = e /\ Tail(processing[c]) = <<>>
    BY <2>1, OneElement
  <2>3. e.id \in RetryDelay => retry(e, {}) # "requeue"
    BY DelayedRetries
  <2>4. NeverRequeued'
    BY <1>6, <2>2, <2>3 DEF Unacknowledge
  <2> QED BY <1>6, <2>1, <2>2, <2>4 DEF Unacknowledge, hget
<1>7. ASSUME NEW w \in Worker, WorkerStep(w)
      PROVE  PriorityInv'
  <2> HIDE DEF PriorityInv
  <2> QED BY <1>7, ReadKeeps, RequeueExecKeeps, DelayExecKeeps, EnqueueKeeps DEF WorkerStep
<1>9. ASSUME NEW m \in MessageId, Produce(m)
      PROVE  PriorityInv'
  <2>1. [id |-> m, attempts |-> 0] \in Entry
    BY DEF Entry
  <2>2. PriorityTypeOK' /\ HoldsOne' /\ NeverRequeued'
    BY <1>9, <2>1 DEF Produce, zpushhset, hset, IdOf, Member, IdMember
  <2>3. DelayedDeliverable'
    <3>1. PICK e \in Entry : e.id = m /\ zset' = zset \union {IdOf(e.id)} /\ hash' = hset(hash, e)
      BY <1>9, <2>1 DEF Produce, zpushhset
    <3>2. \A l \in zset : l.id \in RetryDelay => hget(hash, l) # {} OBVIOUS
    <3> HIDE DEF PriorityInv, PriorityTypeOK, HoldsOne, NeverRequeued
    <3> QED BY <3>1, <3>2 DEF hset, hget, IdOf
  <2> QED BY <1>9, <2>2, <2>3 DEF Produce
<1>10. ASSUME NEW m \in MessageId, deletePendingMessageWithPriority(m)
       PROVE  PriorityInv'
  <2>1. PriorityTypeOK' /\ HoldsOne'
    BY <1>10 DEF deletePendingMessageWithPriority, hdel
  <2>2. ASSUME NEW l \in zset', l.id \in RetryDelay PROVE hget(hash', l) # {}
    <3>1. l \in zset /\ l # IdOf(m) /\ l.text = "id" /\ l \in IdMember
      BY <1>10, <2>2 DEF deletePendingMessageWithPriority, hget, Member, IdMember, JsonMember
    <3>2. l.id # m
      BY <3>1 DEF IdMember, IdOf
    <3>3. PICK x \in hash : x.id = l.id
      BY <2>2, <3>1 DEF hget
    <3> QED BY <1>10, <3>1, <3>2, <3>3 DEF deletePendingMessageWithPriority, hget, hdel
  <2> QED BY <1>10, <2>1, <2>2 DEF deletePendingMessageWithPriority
<1>11. CASE purgePriorityQueue
  <2>1. {k.id : k \in zset} \subseteq MessageId
    BY DEF Member, IdMember, JsonMember
  <2> QED BY <1>11, <2>1 DEF purgePriorityQueue
<1> HIDE DEF PriorityInv, PriorityTypeOK, HoldsOne, NeverRequeued, DelayedDeliverable, Stage,
             orderVars, listVars, workerVars, batchVars
<1>12. PriorityNext \/ UNCHANGED pqVars
  OBVIOUS
<1> QED BY <1>12, <1>1, <1>2, <1>3, <1>4, <1>5, <1>6, <1>7, <1>9, <1>10, <1>11, Zenon DEF PriorityNext

\* The invariant holds of an empty queue.
LEMMA InvariantInit ==
  ASSUME PriorityAssumption, PriorityInit
  PROVE  PriorityInv
<1>1. processing \in [Consumer -> Seq(Entry)]
  <2>1. <<>> \in Seq(Entry) OBVIOUS
  <2> QED BY <2>1 DEF PriorityInit
<1>2. stage \in [Consumer -> Stage] /\ status \in [Worker -> Status]
  BY DEF PriorityInit, Stage, Status
<1>3. /\ requeueBatch \in [Worker -> SUBSET Entry] /\ delayBatch \in [Worker -> SUBSET Entry]
      /\ dueIds \in [Worker -> SUBSET MessageId] /\ dueBatch \in [Worker -> SUBSET Entry]
  BY DEF PriorityInit
<1>4. PriorityTypeOK BY <1>1, <1>2, <1>3 DEF PriorityInit, PriorityTypeOK
<1>5. HoldsOne /\ NeverRequeued /\ DelayedDeliverable
  BY DEF PriorityInit, HoldsOne, NeverRequeued, DelayedDeliverable
<1> QED BY <1>4, <1>5 DEF PriorityInv

-----------------------------------------------------------------------------
\* The sorted set never holds a member of a message with a retryDelay that
\* zpophgetrpush would drop: the text it looks up is in the hash, whatever
\* other messages, workers, deletions and purges do.
THEOREM DelayedDelivers == PrioritySpec => []DelayedDeliverable
<1>1. PriorityInit => PriorityInv
  BY PriorityAssumption, InvariantInit
<1>2. PriorityInv /\ [PriorityNext]_pqVars => PriorityInv'
  BY PriorityAssumption, InvariantStep
<1>3. PriorityInv => DelayedDeliverable
  BY DEF PriorityInv
<1> QED BY <1>1, <1>2, <1>3, PTL DEF PrioritySpec

\* Every variable of a priority queue keeps its type, whatever the Lua scripts
\* drop and the two kinds of workers write.
THEOREM PriorityTypeCorrect == PrioritySpec => []PriorityTypeOK
<1>1. PriorityInit => PriorityInv
  BY PriorityAssumption, InvariantInit
<1>2. PriorityInv /\ [PriorityNext]_pqVars => PriorityInv'
  BY PriorityAssumption, InvariantStep
<1>3. PriorityInv => PriorityTypeOK
  BY DEF PriorityInv
<1> QED BY <1>1, <1>2, <1>3, PTL DEF PrioritySpec

-----------------------------------------------------------------------------
\* A message that leaves one place reaches another in the same command.
LEMMA NothingLostStep ==
  ASSUME PriorityAssumption, PriorityInv, DelayedNotLost, [PriorityNext]_pqVars
  PROVE  DelayedNotLost'
<1> DEFINE Ordered == {k.id : k \in zset}
           Listed == {e.id : e \in lifo}
<1> USE DEF DelayedNotLost, Stored, orderVars, listVars
<1>1. CASE UNCHANGED pqVars
  BY <1>1 DEF pqVars, InWork, Waiting, Settled
<1>2. ASSUME NEW c \in Consumer, dequeueWithPriority(c)
      PROVE  DelayedNotLost'
  <2>1. PICK k \in zset, e \in hash :
          /\ e.id = k.id
          /\ zset' = zset \ {k}
          /\ processing' = [processing EXCEPT ![c] = Append(@, e)]
    BY <1>2 DEF dequeueWithPriority, FirstMembers, hget
  <2>2. processing[c] = <<>>
    BY <1>2 DEF dequeueWithPriority, PriorityInv, HoldsOne
  <2>3. processing'[c] = <<e>> /\ \A d \in Consumer \ {c} : processing'[d] = processing[d]
    BY <2>1, <2>2, OneElement DEF PriorityInv, PriorityTypeOK
  <2>4. k.id \in InWork'
    <3>1. e \in ToSet(processing'[c])
      BY <2>3, OneElement
    <3>2. k.id \in {x.id : x \in ToSet(processing'[c])}
      BY <2>1, <3>1
    <3> QED BY <3>2 DEF InWork
  <2>5. InWork \subseteq InWork'
    <3>1. ASSUME NEW d \in Consumer, NEW x \in ToSet(processing[d])
          PROVE  d # c
      BY <2>2, <3>1, OneElement
    <3> QED BY <2>3, <3>1 DEF InWork
  <2>6. Ordered \subseteq Ordered' \union {k.id}
    BY <2>1
  <2> QED BY <1>2, <2>4, <2>5, <2>6 DEF dequeueWithPriority, Waiting, Settled
<1>3. ASSUME NEW c \in Consumer, DequeueFails(c)
      PROVE  DelayedNotLost'
  <2>1. PICK k \in zset : zset' = zset \ {k} /\ k.id \notin RetryDelay
    BY <1>3 DEF DequeueFails, FirstMembers, PriorityInv, DelayedDeliverable
  <2>2. Ordered \subseteq Ordered' \union {k.id}
    BY <2>1
  <2> QED BY <1>3, <2>1, <2>2 DEF DequeueFails, InWork, Waiting, Settled
<1>4. ASSUME NEW c \in Consumer, DequeueNothing(c) \/ nextTickFn(c)
      PROVE  DelayedNotLost'
  BY <1>4 DEF DequeueNothing, nextTickFn, InWork, Waiting, Settled
<1>5. ASSUME NEW c \in Consumer, NEW e \in Entry,
             processing[c] = <<e>>,
             processing' = [processing EXCEPT ![c] = Tail(@)]
      PROVE  InWork \subseteq InWork' \union {e.id}
  <2>1. \A d \in Consumer \ {c} : processing'[d] = processing[d]
    BY <1>5 DEF PriorityInv, PriorityTypeOK
  <2>2. ToSet(processing[c]) = {e}
    BY <1>5, OneElement
  <2> QED BY <2>1, <2>2 DEF InWork
<1>6. ASSUME NEW c \in Consumer, Acknowledge(c)
      PROVE  DelayedNotLost'
  <2>1. PICK e \in Entry : processing[c] = <<e>>
    BY <1>6 DEF Acknowledge, PriorityInv, HoldsOne
  <2>2. InWork \subseteq InWork' \union {e.id}
    BY <1>5, <1>6, <2>1 DEF Acknowledge
  <2>3. settled' = settled \union {e}
    BY <1>6, <2>1, OneElement DEF Acknowledge
  <2> QED BY <1>6, <2>2, <2>3 DEF Acknowledge, Waiting, Settled
<1>7. ASSUME NEW c \in Consumer, Unacknowledge(c)
      PROVE  DelayedNotLost'
  <2>1. PICK e \in Entry : processing[c] = <<e>>
    BY <1>7 DEF Unacknowledge, PriorityInv, HoldsOne
  <2>2. InWork \subseteq InWork' \union {e.id}
    BY <1>5, <1>7, <2>1 DEF Unacknowledge
  <2>3. Head(processing[c]) = e
    BY <2>1, OneElement
  <2>4. e \in settled' \union delayList' \union requeueList'
    BY <1>7, <2>3 DEF Unacknowledge, retry
  <2>5. /\ settled \subseteq settled'
        /\ delayList \subseteq delayList'
        /\ requeueList \subseteq requeueList' /\ scheduled' = scheduled
    BY <1>7 DEF Unacknowledge
  <2>6. Waiting \union Settled \union {e.id} \subseteq Waiting' \union Settled'
    BY <2>4, <2>5 DEF Waiting, Settled
  <2> QED BY <1>7, <2>2, <2>6 DEF Unacknowledge
<1>8. ASSUME NEW w \in Worker, RequeueExec(w)
      PROVE  DelayedNotLost'
  <2>1. /\ zset \subseteq zset' /\ lifo \subseteq lifo'
        /\ requeueList \ requeueBatch[w] \subseteq requeueList'
        /\ UNCHANGED <<processing, delayList, scheduled, settled, published, removed>>
    BY <1>8, LremFacts DEF RequeueExec
  <2>2. Ordered \subseteq Ordered' /\ Listed \subseteq Listed'
    BY <2>1
  <2>3. Waiting \cap RetryDelay \subseteq Waiting'
    BY <2>1 DEF Waiting, PriorityInv, NeverRequeued
  <2> QED BY <2>1, <2>2, <2>3 DEF InWork, Settled
<1>9. ASSUME NEW w \in Worker, DelayExec(w)
      PROVE  DelayedNotLost'
  <2> DEFINE again == {incrAttempts(e) : e \in delayBatch[w]}
  <2>1. /\ delayList \ delayBatch[w] \subseteq delayList'
        /\ \A x \in scheduled \union again : \E y \in scheduled' : y.id = x.id
        /\ UNCHANGED <<zset, lifo, processing, requeueList, settled, published, removed>>
    BY <1>9, LremFacts, HsetsFacts DEF DelayExec
  <2>2. \A e \in delayBatch[w] : \E y \in scheduled' : y.id = e.id
    <3>1. \A e \in delayBatch[w] : incrAttempts(e) \in again /\ incrAttempts(e).id = e.id
      BY AttemptCounted DEF PriorityInv, PriorityTypeOK
    <3> HIDE DEF again
    <3> QED BY <2>1, <3>1
  <2> HIDE DEF again
  <2>3. ASSUME NEW x \in requeueList \union delayList \union scheduled
        PROVE  \E y \in requeueList' \union delayList' \union scheduled' : y.id = x.id
    BY <2>1, <2>2
  <2>4. Waiting \subseteq Waiting'
    BY <2>3 DEF Waiting
  <2> QED BY <2>1, <2>4 DEF InWork, Settled
<1>14. ASSUME NEW w \in Worker, NEW e \in dueBatch[w], enqueue(w, e)
       PROVE  DelayedNotLost'
  <2>1. /\ scheduled' = hdel(scheduled, e.id)
        /\ \/ zset' = zset \union {IdOf(e.id)} /\ lifo' = lifo
           \/ zset' = zset /\ lifo' = lifo \union {e}
        /\ UNCHANGED <<processing, requeueList, delayList, settled, published, removed>>
    BY <1>14 DEF enqueue, zpushhset
  <2>2. IdOf(e.id).id = e.id
    BY DEF IdOf
  <2>3. Ordered \union Listed \union {e.id} \subseteq Ordered' \union Listed'
    BY <2>1, <2>2
  <2>4. Waiting \subseteq Waiting' \union {e.id}
    BY <2>1 DEF Waiting, hdel
  <2> QED BY <2>1, <2>3, <2>4 DEF InWork, Settled
<1>15. ASSUME NEW w \in Worker, WorkerStep(w)
       PROVE  DelayedNotLost'
  <2>1. CASE \/ RequeueRead(w) \/ DelayRead(w) \/ fetchIds(w) \/ fetchMessages(w)
             \/ StartWorkers(w) \/ StopWorkers(w)
    BY <2>1, ReadKeeps DEF InWork, Waiting, Settled
  <2> HIDE DEF DelayedNotLost
  <2> QED BY <1>8, <1>9, <1>14, <1>15, <2>1 DEF WorkerStep
<1>10. ASSUME NEW m \in MessageId, Produce(m)
       PROVE  DelayedNotLost'
  <2>1. Ordered \union {m} \subseteq Ordered'
    <3>1. zset' = zset \union {IdOf(m)} /\ IdOf(m).id = m
      BY <1>10 DEF Produce, zpushhset, IdOf
    <3> QED BY <3>1
  <2> QED BY <1>10, <2>1 DEF Produce, InWork, Waiting, Settled
<1>11. ASSUME NEW m \in MessageId, deletePendingMessageWithPriority(m)
       PROVE  DelayedNotLost'
  <2>1. CASE IdOf(m) \in zset
    <3>1. m \in RetryDelay => m \in removed'
      BY <1>11, <2>1 DEF deletePendingMessageWithPriority, PriorityInv, DelayedDeliverable, IdOf
    <3>2. Ordered \subseteq Ordered' \union {m}
      BY <1>11 DEF deletePendingMessageWithPriority, IdOf
    <3> QED BY <1>11, <3>1, <3>2 DEF deletePendingMessageWithPriority, InWork, Waiting, Settled
  <2>2. CASE IdOf(m) \notin zset
    BY <1>11, <2>2 DEF deletePendingMessageWithPriority, InWork, Waiting, Settled
  <2> QED BY <2>1, <2>2
<1>12. CASE purgePriorityQueue
  BY <1>12 DEF purgePriorityQueue, InWork, Waiting, Settled
<1>13. PriorityNext \/ UNCHANGED pqVars
  OBVIOUS
<1> HIDE DEF DelayedNotLost, Stored, orderVars, listVars
<1> QED BY <1>13, <1>1, <1>2, <1>3, <1>4, <1>6, <1>7, <1>10, <1>11, <1>12, <1>15, Zenon
        DEF PriorityNext

\* A message with a retryDelay never disappears from a priority queue before
\* it is settled, deleted or purged, with workers of either configuration.
THEOREM DelayedKept == PrioritySpec => []DelayedNotLost
<1>1. PriorityInit => PriorityInv /\ DelayedNotLost
  BY PriorityAssumption, InvariantInit DEF PriorityInit, DelayedNotLost
<1>2. PriorityInv /\ DelayedNotLost /\ [PriorityNext]_pqVars
        => (PriorityInv /\ DelayedNotLost)'
  BY PriorityAssumption, InvariantStep, NothingLostStep
<1> QED BY <1>1, <1>2, PTL DEF PrioritySpec

-----------------------------------------------------------------------------
(***************************************************************************)
(* Until two sets of workers overlap, no message is given out twice.  An   *)
(* id is ordered by the sorted set, held by one consumer, waits on a list  *)
(* or in the schedule, or is settled, and never two of these: a text that  *)
(* a purge left in the hash is not pending, and a message that the requeue *)
(* worker wrote as a whole never becomes so.  What the workers have read   *)
(* is still where they have read it (Listed), because nobody else takes it *)
(* away while theirs is the only set that runs.                            *)
(***************************************************************************)
Ordered == {m \in MessageId : IdOf(m) \in zset}
Held(c) == {e.id : e \in ToSet(processing[c])}
IdsIn(S) == {e.id : e \in S}
OneText(S) == \A e, f \in S : e.id = f.id => e = f

OnePlace ==
  /\ \A c, d \in Consumer : c # d => Held(c) \cap Held(d) = {}
  /\ \A c \in Consumer : Held(c) \cap (Ordered \union Waiting \union Settled) = {}
  /\ Ordered \cap (Waiting \union Settled) = {}
  /\ Waiting \cap Settled = {}
  /\ Ordered \union Waiting \union Settled \subseteq published
  /\ \A c \in Consumer : Held(c) \subseteq published

Apart ==
  /\ IdsIn(requeueList) \cap IdsIn(delayList) = {}
  /\ IdsIn(requeueList) \cap IdsIn(scheduled) = {}
  /\ IdsIn(delayList) \cap IdsIn(scheduled) = {}
  /\ OneText(requeueList) /\ OneText(delayList) /\ OneText(scheduled)

Listed ==
  \A w \in Worker :
    /\ requeueBatch[w] \subseteq requeueList
    /\ delayBatch[w] \subseteq delayList
    /\ dueIds[w] \subseteq IdsIn(scheduled)
    /\ dueBatch[w] \subseteq scheduled

OneSet ==
  /\ \A w \in Worker :
       status[w] = "off" =>
         requeueBatch[w] = {} /\ delayBatch[w] = {} /\ dueIds[w] = {} /\ dueBatch[w] = {}
  /\ \A w \in Worker : dueIds[w] = {} \/ dueBatch[w] = {}
  /\ ~overlapped =>
       \A v, w \in Worker : status[v] # "off" /\ status[w] # "off" => v = w

Once == ~overlapped => OnePlace /\ Apart /\ Listed

OnceInv == PriorityInv /\ OneSet /\ Once

\* Only StartWorkers and StopWorkers change which workers run, and those that
\* do not run have read nothing.
LEMMA OneSetStep ==
  ASSUME PriorityInv, OneSet, [PriorityNext]_pqVars
  PROVE  OneSet'
<1> USE DEF PriorityInv, PriorityTypeOK, OneSet, Status
<1>1. CASE UNCHANGED <<status, requeueBatch, delayBatch, dueIds, dueBatch, overlapped>>
  BY <1>1
<1>2. ASSUME NEW w \in Worker, WorkerStep(w)
      PROVE  OneSet'
  <2>1. CASE RequeueRead(w) BY <2>1 DEF RequeueRead
  <2>2. CASE RequeueExec(w) BY <2>2 DEF RequeueExec
  <2>3. CASE DelayRead(w) BY <2>3 DEF DelayRead
  <2>4. CASE DelayExec(w) BY <2>4 DEF DelayExec
  <2>5. CASE fetchIds(w)
    <3>1. /\ status[w] = "on" /\ dueBatch[w] = {}
          /\ UNCHANGED <<status, requeueBatch, delayBatch, dueBatch, overlapped>>
          /\ \A v \in Worker : v # w => dueIds'[v] = dueIds[v]
      BY <2>5 DEF fetchIds
    <3> QED BY <3>1
  <2>6. CASE fetchMessages(w)
    <3>1. status[w] # "off" BY <2>6 DEF fetchMessages
    <3>2. \A v \in Worker : status'[v] = "off" <=> status[v] = "off"
      BY <2>6, <3>1 DEF fetchMessages
    <3>3. /\ UNCHANGED <<requeueBatch, delayBatch, overlapped>>
          /\ \A v \in Worker : v # w => dueIds'[v] = dueIds[v] /\ dueBatch'[v] = dueBatch[v]
          /\ dueIds'[w] = {}
      BY <2>6 DEF fetchMessages
    <3> QED BY <3>1, <3>2, <3>3
  <2>7. CASE \E e \in dueBatch[w] : enqueue(w, e) BY <2>7 DEF enqueue
  <2>8. CASE StartWorkers(w) BY <2>8 DEF StartWorkers, batchVars
  <2>9. CASE StopWorkers(w) BY <2>9 DEF StopWorkers
  <2> QED BY <1>2, <2>1, <2>2, <2>3, <2>4, <2>5, <2>6, <2>7, <2>8, <2>9 DEF WorkerStep
<1>3. ASSUME NEW c \in Consumer,
             \/ dequeueWithPriority(c) \/ DequeueFails(c) \/ DequeueNothing(c)
             \/ nextTickFn(c) \/ Acknowledge(c) \/ Unacknowledge(c)
      PROVE  OneSet'
  <2>1. UNCHANGED workerVars
    BY <1>3 DEF dequeueWithPriority, DequeueFails, DequeueNothing, nextTickFn, Acknowledge,
                Unacknowledge
  <2> QED BY <1>1, <2>1 DEF workerVars, batchVars
<1>4. ASSUME NEW m \in MessageId, Produce(m) \/ deletePendingMessageWithPriority(m)
      PROVE  OneSet'
  <2>1. UNCHANGED workerVars BY <1>4 DEF Produce, deletePendingMessageWithPriority
  <2> QED BY <1>1, <2>1 DEF workerVars, batchVars
<1>5. CASE purgePriorityQueue
  <2>1. UNCHANGED workerVars BY <1>5 DEF purgePriorityQueue
  <2> QED BY <1>1, <2>1 DEF workerVars, batchVars
<1>6. CASE UNCHANGED pqVars BY <1>1, <1>6 DEF pqVars, workerVars, batchVars
<1> QED BY <1>2, <1>3, <1>4, <1>5, <1>6 DEF PriorityNext

\* A step after which every place holds what it held, or less.
LEMMA PlacesFrame ==
  ASSUME OnePlace, Ordered' \subseteq Ordered, Waiting' \subseteq Waiting,
         UNCHANGED <<settled, processing, published>>
  PROVE  OnePlace'
<1>1. Settled' = Settled BY DEF Settled
<1>2. \A c \in Consumer : Held(c)' = Held(c) BY DEF Held
<1> QED BY <1>1, <1>2 DEF OnePlace

\* A step that leaves the lists and the batches alone.
LEMMA ListsFrame ==
  ASSUME Apart, Listed,
         UNCHANGED <<requeueList, delayList, scheduled, requeueBatch, delayBatch, dueIds, dueBatch>>
  PROVE  Apart' /\ Listed' /\ Waiting' = Waiting
<1>1. Apart' BY DEF Apart, IdsIn, OneText
<1>2. Listed' BY DEF Listed, IdsIn
<1> QED BY <1>1, <1>2 DEF Waiting

\* What a consumer holds.
LEMMA HeldFacts ==
  ASSUME PriorityInv, NEW c \in Consumer
  PROVE  /\ stage[c] # "consuming" => Held(c) = {}
         /\ stage[c] = "consuming" =>
              \E e \in Entry : processing[c] = <<e>> /\ Held(c) = {e.id}
<1>1. Held(c) = {x.id : x \in ToSet(processing[c])} BY DEF Held
<1>2. ASSUME stage[c] # "consuming" PROVE Held(c) = {}
  <2>1. processing[c] = <<>> BY <1>2 DEF PriorityInv, HoldsOne
  <2>2. ToSet(processing[c]) = {} BY <2>1, OneElement
  <2> QED BY <1>1, <2>2
<1>3. ASSUME stage[c] = "consuming"
      PROVE  \E e \in Entry : processing[c] = <<e>> /\ Held(c) = {e.id}
  <2>1. PICK e \in Entry : processing[c] = <<e>> BY <1>3 DEF PriorityInv, HoldsOne
  <2>2. ToSet(processing[c]) = {e} BY <2>1, OneElement
  <2> QED BY <1>1, <2>1, <2>2
<1> QED BY <1>2, <1>3

\* The consumer c gives back its message, which goes to one other place.
LEMMA GiveBack ==
  ASSUME PriorityInv, OnePlace, Apart, Listed, NEW c \in Consumer, NEW e \in Entry,
         processing[c] = <<e>>, Held(c) = {e.id},
         processing' = [processing EXCEPT ![c] = Tail(@)],
         UNCHANGED <<zset, published, scheduled, workerVars>>,
         \/ settled' = settled \union {e} /\ UNCHANGED <<requeueList, delayList>>
         \/ requeueList' = requeueList \union {e} /\ UNCHANGED <<settled, delayList>>
         \/ delayList' = delayList \union {e} /\ UNCHANGED <<settled, requeueList>>
  PROVE  OnePlace' /\ Apart' /\ Listed'
<1>1. processing'[c] = <<>> /\ \A d \in Consumer : d # c => processing'[d] = processing[d]
  <2>1. Tail(processing[c]) = <<>> BY OneElement
  <2> QED BY <2>1 DEF PriorityInv, PriorityTypeOK
<1>2. Held(c)' = {} /\ \A d \in Consumer : d # c => Held(d)' = Held(d)
  BY <1>1, OneElement DEF Held
<1>3. PICK n : n = e.id OBVIOUS
<1>4. /\ n \notin Ordered /\ n \notin Waiting /\ n \notin Settled /\ n \in published
      /\ \A d \in Consumer : d # c => n \notin Held(d)
  BY <1>3 DEF OnePlace
<1>5. Ordered' = Ordered BY DEF Ordered
<1>6. \A f \in requeueList \union delayList \union scheduled : f.id # n BY <1>4 DEF Waiting
<1>7. /\ Waiting' \union Settled' = Waiting \union Settled \union {n}
      /\ Waiting' = Waiting \/ Settled' = Settled
      /\ Waiting' = Waiting \/ Waiting' = Waiting \union {n}
      /\ Settled' = Settled \/ Settled' = Settled \union {n}
  BY <1>3 DEF Waiting, Settled
<1>8. Apart'
  <2>1. OneText(requeueList') /\ OneText(delayList') /\ OneText(scheduled')
    BY <1>3, <1>6 DEF Apart, OneText
  <2>2. \A S, T : IdsIn(S) \cap IdsIn(T) = {} <=> \A x \in S, y \in T : x.id # y.id
    BY DEF IdsIn
  <2>3. /\ \A x \in requeueList', y \in delayList' : x.id # y.id
        /\ \A x \in requeueList', y \in scheduled' : x.id # y.id
        /\ \A x \in delayList', y \in scheduled' : x.id # y.id
    BY <1>3, <1>6, <2>2 DEF Apart
  <2>4. /\ IdsIn(requeueList') \cap IdsIn(delayList') = {}
        /\ IdsIn(requeueList') \cap IdsIn(scheduled') = {}
        /\ IdsIn(delayList') \cap IdsIn(scheduled') = {}
    BY <2>2, <2>3
  <2> QED BY <2>1, <2>4 DEF Apart, IdsIn, OneText
<1>9. \A d \in Consumer : Held(d)' \cap (Ordered' \union Waiting' \union Settled') = {}
  BY <1>2, <1>4, <1>5, <1>7 DEF OnePlace
<1>10. \A d, b \in Consumer : d # b => Held(d)' \cap Held(b)' = {} BY <1>2 DEF OnePlace
<1>11. Ordered' \cap (Waiting' \union Settled') = {} /\ Waiting' \cap Settled' = {}
  BY <1>4, <1>5, <1>7 DEF OnePlace
<1>12. Ordered' \union Waiting' \union Settled' \subseteq published'
  BY <1>4, <1>5, <1>7 DEF OnePlace
<1>13. \A d \in Consumer : Held(d)' \subseteq published' BY <1>2 DEF OnePlace
<1>14. Listed'
  <2>1. UNCHANGED <<requeueBatch, delayBatch, dueIds, dueBatch>> BY DEF workerVars, batchVars
  <2>2. requeueList \subseteq requeueList' /\ delayList \subseteq delayList' OBVIOUS
  <2> QED BY <2>1, <2>2 DEF Listed, IdsIn
<1> QED BY <1>8, <1>9, <1>10, <1>11, <1>12, <1>13, <1>14 DEF OnePlace

\* A worker that reads, starts or stops.
LEMMA ReadOnce ==
  ASSUME PriorityInv, OneSet, OnePlace, Apart, Listed, NEW w \in Worker,
         \/ RequeueRead(w) \/ DelayRead(w) \/ fetchIds(w) \/ fetchMessages(w)
         \/ StartWorkers(w) \/ StopWorkers(w)
  PROVE  OnePlace' /\ Apart' /\ Listed'
<1>1. UNCHANGED <<zset, hash, processing, requeueList, delayList, scheduled, settled, published>>
  BY ReadKeeps DEF orderVars, listVars
<1>2. Ordered' = Ordered /\ Waiting' = Waiting BY <1>1 DEF Ordered, Waiting
<1>3. OnePlace' BY <1>1, <1>2, PlacesFrame
<1>4. Apart' BY <1>1 DEF Apart, IdsIn, OneText
<1>5. \A v \in Worker : requeueBatch'[v] \subseteq requeueList
  BY DEF RequeueRead, DelayRead, fetchIds, fetchMessages, StartWorkers, StopWorkers, batchVars,
         PriorityInv, PriorityTypeOK, Listed
<1>6. \A v \in Worker : delayBatch'[v] \subseteq delayList
  BY DEF RequeueRead, DelayRead, fetchIds, fetchMessages, StartWorkers, StopWorkers, batchVars,
         PriorityInv, PriorityTypeOK, Listed
<1>7. \A v \in Worker : dueIds'[v] \subseteq IdsIn(scheduled)
  BY DEF RequeueRead, DelayRead, fetchIds, fetchMessages, StartWorkers, StopWorkers, batchVars,
         PriorityInv, PriorityTypeOK, Listed, IdsIn
<1>8. \A v \in Worker : dueBatch'[v] \subseteq scheduled
  BY DEF RequeueRead, DelayRead, fetchIds, fetchMessages, StartWorkers, StopWorkers, batchVars,
         PriorityInv, PriorityTypeOK, Listed
<1>9. IdsIn(scheduled)' = IdsIn(scheduled) BY <1>1 DEF IdsIn
<1>10. Listed' BY <1>1, <1>5, <1>6, <1>7, <1>8, <1>9 DEF Listed
<1> QED BY <1>3, <1>4, <1>10

\* While one set of workers runs, the others have read nothing.
LEMMA OthersIdle ==
  ASSUME OneSet, ~overlapped, NEW w \in Worker, NEW v \in Worker, v # w,
         \/ requeueBatch[w] # {} \/ delayBatch[w] # {} \/ dueBatch[w] # {}
  PROVE  requeueBatch[v] = {} /\ delayBatch[v] = {} /\ dueIds[v] = {} /\ dueBatch[v] = {}
BY DEF OneSet

\* What the requeue worker takes off its list becomes a member that is no id,
\* or goes to the LIFO list.
LEMMA RequeueOnce ==
  ASSUME PriorityInv, OneSet, ~overlapped, OnePlace, Apart, Listed,
         NEW w \in Worker, RequeueExec(w)
  PROVE  OnePlace' /\ Apart' /\ Listed'
<1>1. /\ requeueBatch[w] # {}
      /\ requeueList' = requeueList \ requeueBatch[w]
      /\ requeueBatch' = [requeueBatch EXCEPT ![w] = {}]
      /\ UNCHANGED <<processing, delayList, scheduled, settled, published, delayBatch, dueIds,
                     dueBatch>>
  BY LremFacts DEF RequeueExec
<1>2. \A k \in zset' : k.text = "id" => k \in zset
  <2>1. \A e : JsonOf(e).text = "json" BY DEF JsonOf
  <2> QED BY <2>1 DEF RequeueExec
<1>3. Ordered' \subseteq Ordered
  <2>1. \A m : IdOf(m).text = "id" BY DEF IdOf
  <2> QED BY <1>2, <2>1 DEF Ordered
<1>4. Waiting' \subseteq Waiting BY <1>1 DEF Waiting
<1>5. OnePlace' BY <1>1, <1>3, <1>4, PlacesFrame
<1>6. Apart' BY <1>1 DEF Apart, IdsIn, OneText
<1>7. Listed'
  <2>1. \A v \in Worker : requeueBatch'[v] = {}
    BY <1>1, OthersIdle DEF PriorityInv, PriorityTypeOK
  <2>2. IdsIn(scheduled)' = IdsIn(scheduled) BY <1>1 DEF IdsIn
  <2> QED BY <1>1, <2>1, <2>2 DEF Listed
<1> QED BY <1>5, <1>6, <1>7

\* The delay worker moves its batch from the list to the schedule.
LEMMA DelayOnce ==
  ASSUME PriorityInv, OneSet, ~overlapped, OnePlace, Apart, Listed,
         NEW w \in Worker, DelayExec(w)
  PROVE  OnePlace' /\ Apart' /\ Listed'
<1>1. PICK batch, again :
        /\ batch = delayBatch[w] /\ batch # {} /\ again = {incrAttempts(e) : e \in batch}
        /\ delayList' = delayList \ batch
        /\ scheduled' \in hsets(scheduled, again)
        /\ delayBatch' = [delayBatch EXCEPT ![w] = {}]
        /\ UNCHANGED <<zset, processing, requeueList, settled, published, requeueBatch, dueIds,
                       dueBatch>>
  BY LremFacts DEF DelayExec, orderVars
<1>2. batch \subseteq delayList /\ batch \subseteq Entry
  BY <1>1 DEF Listed, PriorityInv, PriorityTypeOK
<1>3. /\ \A x \in again : \E e \in batch : x = incrAttempts(e) /\ x.id = e.id
      /\ \A e \in batch : incrAttempts(e) \in again /\ incrAttempts(e).id = e.id
  BY <1>1, <1>2, AttemptCounted
<1>4. \A x \in scheduled : \A e \in again : x.id # e.id
  BY <1>2, <1>3 DEF Apart, IdsIn
<1>5. /\ scheduled' \subseteq scheduled \union again
      /\ scheduled \subseteq scheduled'
  BY <1>1, <1>4, HsetsFacts
<1>6. OneText(again)
  <2> SUFFICES ASSUME NEW x \in again, NEW y \in again, x.id = y.id PROVE x = y BY DEF OneText
  <2>1. PICK e \in batch, f \in batch : x = incrAttempts(e) /\ y = incrAttempts(f) /\ e.id = f.id
    BY <1>3
  <2>2. e = f BY <1>2, <2>1 DEF Apart, OneText
  <2> QED BY <2>1, <2>2
<1>7. OneText(scheduled')
  BY <1>4, <1>5, <1>6 DEF OneText, Apart
<1>8. IdsIn(scheduled') \subseteq IdsIn(scheduled) \union IdsIn(batch)
  BY <1>3, <1>5 DEF IdsIn
<1>9. IdsIn(delayList') \subseteq IdsIn(delayList) /\ IdsIn(delayList') \cap IdsIn(batch) = {}
  BY <1>1, <1>2 DEF IdsIn, Apart, OneText
<1>10. IdsIn(batch) \subseteq IdsIn(delayList) BY <1>2 DEF IdsIn
<1>11. OneText(delayList') BY <1>1 DEF Apart, OneText
<1>12. Apart'
  <2>1. IdsIn(requeueList') = IdsIn(requeueList) /\ OneText(requeueList') BY <1>1 DEF Apart
  <2>2. /\ IdsIn(requeueList') \cap IdsIn(delayList') = {}
        /\ IdsIn(requeueList') \cap IdsIn(scheduled') = {}
        /\ IdsIn(delayList') \cap IdsIn(scheduled') = {}
    BY <1>8, <1>9, <1>10, <2>1 DEF Apart
  <2> QED BY <1>7, <1>11, <2>1, <2>2 DEF Apart, IdsIn, OneText
<1>13. OnePlace'
  <2>1. Waiting = IdsIn(requeueList) \union IdsIn(delayList) \union IdsIn(scheduled)
    BY DEF Waiting, IdsIn
  <2>2. Waiting' = IdsIn(requeueList') \union IdsIn(delayList') \union IdsIn(scheduled')
    BY DEF Waiting, IdsIn
  <2>3. IdsIn(requeueList') = IdsIn(requeueList) BY <1>1
  <2>4. Waiting' \subseteq Waiting BY <1>8, <1>9, <1>10, <2>1, <2>2, <2>3
  <2>5. Ordered' = Ordered BY <1>1 DEF Ordered
  <2> QED BY <1>1, <2>4, <2>5, PlacesFrame
<1>14. Listed'
  <2>1. \A v \in Worker : delayBatch'[v] = {}
    BY <1>1, OthersIdle DEF PriorityInv, PriorityTypeOK
  <2>2. IdsIn(scheduled) \subseteq IdsIn(scheduled') BY <1>5 DEF IdsIn
  <2>3. IdsIn(scheduled)' = IdsIn(scheduled') BY DEF IdsIn
  <2> QED BY <1>1, <1>5, <2>1, <2>2, <2>3 DEF Listed
<1> QED BY <1>12, <1>13, <1>14

\* The schedule worker moves a message from the schedule to the sorted set or
\* to the LIFO list.
LEMMA EnqueueOnce ==
  ASSUME PriorityInv, OneSet, ~overlapped, OnePlace, Apart, Listed,
         NEW w \in Worker, NEW e \in dueBatch[w], enqueue(w, e)
  PROVE  OnePlace' /\ Apart' /\ Listed'
<1>1. PICK n \in MessageId : n = e.id BY DEF PriorityInv, PriorityTypeOK, Entry
<1>2. /\ scheduled' = {x \in scheduled : x.id # n}
      /\ zset' = zset \union {IdOf(n)} \/ zset' = zset
      /\ dueBatch' = [dueBatch EXCEPT ![w] = @ \ {e}]
      /\ UNCHANGED <<processing, requeueList, delayList, settled, published, requeueBatch,
                     delayBatch, dueIds>>
  BY <1>1 DEF enqueue, zpushhset, hdel, orderVars
<1>3. e \in scheduled BY DEF Listed
<1>4. Ordered' \subseteq Ordered \union {n}
  <2>1. \A m : IdOf(m) = IdOf(n) => m = n BY DEF IdOf
  <2> QED BY <1>2, <2>1 DEF Ordered
<1>5. n \in Waiting /\ Waiting' \subseteq Waiting /\ Settled' = Settled
  BY <1>1, <1>2, <1>3 DEF Waiting, Settled
<1>6. n \notin Waiting'
  <2>1. \A f \in requeueList \union delayList : f.id # n
    BY <1>1, <1>3 DEF Apart, IdsIn
  <2> QED BY <1>2, <2>1 DEF Waiting
<1>7. \A d \in Consumer : Held(d)' = Held(d) BY <1>2 DEF Held
<1>8. n \in published /\ n \notin Settled /\ \A d \in Consumer : n \notin Held(d)
  BY <1>5 DEF OnePlace
<1>9. \A d \in Consumer : Held(d)' \cap (Ordered' \union Waiting' \union Settled') = {}
  BY <1>4, <1>5, <1>7, <1>8 DEF OnePlace
<1>10. /\ Ordered' \cap (Waiting' \union Settled') = {} /\ Waiting' \cap Settled' = {}
       /\ Ordered' \union Waiting' \union Settled' \subseteq published'
  BY <1>2, <1>4, <1>5, <1>6, <1>8 DEF OnePlace
<1>11. OnePlace' BY <1>2, <1>7, <1>9, <1>10 DEF OnePlace
<1>12. Apart' BY <1>2 DEF Apart, IdsIn, OneText
<1>13. Listed'
  <2>1. \A v \in Worker : v # w => dueIds[v] = {} /\ dueBatch'[v] = {}
    BY <1>2, OthersIdle DEF PriorityInv, PriorityTypeOK
  <2>2. dueBatch'[w] \subseteq scheduled'
    <3>1. dueBatch'[w] = dueBatch[w] \ {e} BY <1>2 DEF PriorityInv, PriorityTypeOK
    <3>2. dueBatch[w] \subseteq scheduled BY DEF Listed
    <3>3. \A x \in scheduled : x.id = n => x = e BY <1>1, <1>3 DEF Apart, OneText
    <3> QED BY <1>2, <3>1, <3>2, <3>3
  <2>3. dueIds[w] = {} BY DEF OneSet
  <2> QED BY <1>2, <2>1, <2>2, <2>3 DEF Listed
<1> QED BY <1>11, <1>12, <1>13

\* Every step moves a message from one place to another, or out of sight.
LEMMA OnceStep ==
  ASSUME PriorityInv, OneSet, OnePlace, Apart, Listed, ~overlapped, [PriorityNext]_pqVars
  PROVE  OnePlace' /\ Apart' /\ Listed'
<1>1. ASSUME zset' \subseteq zset,
             UNCHANGED <<requeueList, delayList, scheduled, settled, processing, published,
                         requeueBatch, delayBatch, dueIds, dueBatch>>
      PROVE  OnePlace' /\ Apart' /\ Listed'
  <2>1. Ordered' \subseteq Ordered BY <1>1 DEF Ordered
  <2>2. Apart' /\ Listed' /\ Waiting' = Waiting BY <1>1, ListsFrame
  <2> QED BY <1>1, <2>1, <2>2, PlacesFrame
<1>2. ASSUME NEW c \in Consumer, dequeueWithPriority(c)
      PROVE  OnePlace' /\ Apart' /\ Listed'
  <2>1. PICK k \in zset, e \in hash :
          /\ k.text = "id" /\ e.id = k.id
          /\ zset' = zset \ {k}
          /\ processing' = [processing EXCEPT ![c] = Append(@, e)]
    BY <1>2 DEF dequeueWithPriority, FirstMembers, hget
  <2>2. PICK n \in MessageId : n = e.id /\ k = IdOf(n)
    <3>1. k \in IdMember BY <2>1 DEF PriorityInv, PriorityTypeOK, Member, IdMember, JsonMember
    <3> QED BY <2>1, <3>1 DEF IdMember, IdOf
  <2>3. processing[c] = <<>> /\ Held(c) = {}
    <3>1. stage[c] # "consuming" BY <1>2 DEF dequeueWithPriority
    <3> QED BY <3>1, HeldFacts DEF PriorityInv, HoldsOne
  <2>4. processing'[c] = <<e>> /\ \A d \in Consumer : d # c => processing'[d] = processing[d]
    BY <2>1, <2>3, OneElement DEF PriorityInv, PriorityTypeOK
  <2>5. Held(c)' = {n} /\ \A d \in Consumer : d # c => Held(d)' = Held(d)
    <3>1. ToSet(processing'[c]) = {e} BY <2>4, OneElement
    <3> QED BY <2>2, <2>4, <3>1 DEF Held
  <2>6. Ordered' \subseteq Ordered /\ n \in Ordered /\ n \notin Ordered'
    BY <2>1, <2>2 DEF Ordered
  <2>7. UNCHANGED <<requeueList, delayList, scheduled, settled, published, requeueBatch,
                    delayBatch, dueIds, dueBatch>>
    BY <1>2 DEF dequeueWithPriority, listVars, workerVars, batchVars
  <2>8. Waiting' = Waiting /\ Settled' = Settled /\ Apart' /\ Listed'
    <3>1. Settled' = Settled BY <2>7 DEF Settled
    <3> QED BY <2>7, <3>1, ListsFrame
  <2>9. n \in published /\ n \notin Waiting /\ n \notin Settled
        /\ \A d \in Consumer : n \notin Held(d)
    BY <2>6 DEF OnePlace
  <2>10. \A d, b \in Consumer : d # b => Held(d)' \cap Held(b)' = {}
    BY <2>5, <2>9 DEF OnePlace
  <2>11. \A d \in Consumer : Held(d)' \cap (Ordered' \union Waiting' \union Settled') = {}
    BY <2>5, <2>6, <2>8, <2>9 DEF OnePlace
  <2>12. \A d \in Consumer : Held(d)' \subseteq published'
    BY <2>5, <2>7, <2>9 DEF OnePlace
  <2>13. OnePlace' BY <2>6, <2>7, <2>8, <2>10, <2>11, <2>12 DEF OnePlace
  <2> QED BY <2>8, <2>13
<1>3. ASSUME NEW c \in Consumer, DequeueFails(c) \/ DequeueNothing(c) \/ nextTickFn(c)
      PROVE  OnePlace' /\ Apart' /\ Listed'
  <2>1. /\ zset' \subseteq zset
        /\ UNCHANGED <<requeueList, delayList, scheduled, settled, processing, published,
                       requeueBatch, delayBatch, dueIds, dueBatch>>
    BY <1>3 DEF DequeueFails, DequeueNothing, nextTickFn, orderVars, listVars, workerVars, batchVars
  <2> QED BY <1>1, <2>1
<1>4. ASSUME NEW c \in Consumer, Acknowledge(c)
      PROVE  OnePlace' /\ Apart' /\ Listed'
  <2>1. PICK e \in Entry : processing[c] = <<e>> /\ Held(c) = {e.id}
    BY <1>4, HeldFacts DEF Acknowledge
  <2>2. Head(processing[c]) = e BY <2>1, OneElement
  <2>3. /\ settled' = settled \union {e}
        /\ processing' = [processing EXCEPT ![c] = Tail(@)]
        /\ UNCHANGED <<zset, requeueList, delayList, scheduled, published, workerVars>>
    BY <1>4, <2>2 DEF Acknowledge, orderVars, listVars
  <2> QED BY <2>1, <2>3, GiveBack
<1>5. ASSUME NEW c \in Consumer, Unacknowledge(c)
      PROVE  OnePlace' /\ Apart' /\ Listed'
  <2>1. PICK e \in Entry : processing[c] = <<e>> /\ Held(c) = {e.id}
    BY <1>5, HeldFacts DEF Unacknowledge
  <2>2. Head(processing[c]) = e BY <2>1, OneElement
  <2>3. PICK op \in {"deadLetter", "delay", "requeue"} : op = retry(e, {}) BY DEF retry
  <2>4. /\ processing' = [processing EXCEPT ![c] = Tail(@)]
        /\ settled' = IF op = "deadLetter" THEN settled \union {e} ELSE settled
        /\ delayList' = IF op = "delay" THEN delayList \union {e} ELSE delayList
        /\ requeueList' = IF op = "requeue" THEN requeueList \union {e} ELSE requeueList
        /\ UNCHANGED <<zset, published, scheduled, workerVars>>
    BY <1>5, <2>2, <2>3 DEF Unacknowledge, orderVars
  <2>5. \/ settled' = settled \union {e} /\ UNCHANGED <<requeueList, delayList>>
        \/ requeueList' = requeueList \union {e} /\ UNCHANGED <<settled, delayList>>
        \/ delayList' = delayList \union {e} /\ UNCHANGED <<settled, requeueList>>
    BY <2>3, <2>4
  <2> QED BY <2>1, <2>4, <2>5, GiveBack
<1>6. ASSUME NEW w \in Worker, WorkerStep(w)
      PROVE  OnePlace' /\ Apart' /\ Listed'
  BY <1>6, ReadOnce, RequeueOnce, DelayOnce, EnqueueOnce DEF WorkerStep
<1>8. ASSUME NEW m \in MessageId, Produce(m)
      PROVE  OnePlace' /\ Apart' /\ Listed'
  <2>1. /\ m \notin published /\ published' = published \union {m}
        /\ zset' = zset \union {IdOf(m)}
        /\ UNCHANGED <<processing, requeueList, delayList, scheduled, settled, requeueBatch,
                       delayBatch, dueIds, dueBatch>>
    BY <1>8 DEF Produce, zpushhset, listVars, workerVars, batchVars
  <2>2. Ordered' \subseteq Ordered \union {m}
    <3>1. \A n : IdOf(n) = IdOf(m) => n = m BY DEF IdOf
    <3> QED BY <2>1, <3>1 DEF Ordered
  <2>3. Waiting' = Waiting /\ Settled' = Settled /\ \A d \in Consumer : Held(d)' = Held(d)
    BY <2>1 DEF Waiting, Settled, Held
  <2>4. m \notin Waiting /\ m \notin Settled /\ \A d \in Consumer : m \notin Held(d)
    BY <2>1 DEF OnePlace
  <2>5. \A d \in Consumer : Held(d)' \cap (Ordered' \union Waiting' \union Settled') = {}
    BY <2>2, <2>3, <2>4 DEF OnePlace
  <2>6. \A d \in Consumer : Held(d)' \subseteq published' BY <2>1, <2>3 DEF OnePlace
  <2>7. /\ Ordered' \cap (Waiting' \union Settled') = {}
        /\ Ordered' \union Waiting' \union Settled' \subseteq published'
    BY <2>1, <2>2, <2>3, <2>4 DEF OnePlace
  <2>8. OnePlace' BY <2>1, <2>3, <2>5, <2>6, <2>7 DEF OnePlace
  <2> QED BY <2>1, <2>8, ListsFrame
<1>9. ASSUME NEW m \in MessageId, deletePendingMessageWithPriority(m)
      PROVE  OnePlace' /\ Apart' /\ Listed'
  <2>1. /\ zset' \subseteq zset
        /\ UNCHANGED <<requeueList, delayList, scheduled, settled, processing, published,
                       requeueBatch, delayBatch, dueIds, dueBatch>>
    BY <1>9 DEF deletePendingMessageWithPriority, listVars, workerVars, batchVars
  <2> QED BY <1>1, <2>1
<1>10. CASE purgePriorityQueue \/ UNCHANGED pqVars
  <2>1. /\ zset' \subseteq zset
        /\ UNCHANGED <<requeueList, delayList, scheduled, settled, processing, published,
                       requeueBatch, delayBatch, dueIds, dueBatch>>
    BY <1>10 DEF purgePriorityQueue, pqVars, orderVars, listVars, workerVars, batchVars
  <2> QED BY <1>1, <2>1
<1> QED BY <1>2, <1>3, <1>4, <1>5, <1>6, <1>8, <1>9, <1>10 DEF PriorityNext

\* Once workers have overlapped, they have.
LEMMA OverlapStays ==
  ASSUME PriorityTypeOK, [PriorityNext]_pqVars, overlapped
  PROVE  overlapped'
<1>1. ASSUME NEW w \in Worker, WorkerStep(w) PROVE overlapped'
  BY <1>1 DEF WorkerStep, RequeueRead, RequeueExec, DelayRead, DelayExec, fetchIds, fetchMessages,
              enqueue, StartWorkers, StopWorkers
<1>2. CASE UNCHANGED workerVars BY <1>2 DEF workerVars
<1>3. (\E w \in Worker : WorkerStep(w)) \/ UNCHANGED workerVars
  BY DEF PriorityNext, pqVars, dequeueWithPriority, DequeueFails, DequeueNothing, nextTickFn,
         Acknowledge, Unacknowledge, Produce, deletePendingMessageWithPriority, purgePriorityQueue
<1> QED BY <1>1, <1>2, <1>3

\* Until two sets of workers overlap, no message of a priority queue is given
\* out twice, for any number of consumers and sets of workers one after the
\* other: killed between any two of their commands, a set leaves what it has
\* read to the next one, whatever is purged, deleted or requeued meanwhile.
THEOREM PriorityGivesOutOnce == PrioritySpec => []PriorityNoDuplicates
<1>1. PriorityInit => OnceInv
  <2> SUFFICES ASSUME PriorityInit PROVE OnceInv OBVIOUS
  <2>1. PriorityInv BY PriorityAssumption, InvariantInit
  <2>2. \A c \in Consumer : Held(c) = {}
    BY <2>1, HeldFacts DEF PriorityInit
  <2>3. Ordered = {} /\ Waiting = {} /\ Settled = {} BY DEF PriorityInit, Ordered, Waiting, Settled
  <2>4. OnePlace BY <2>2, <2>3 DEF OnePlace
  <2>5. Apart /\ Listed BY DEF PriorityInit, Apart, Listed, IdsIn, OneText
  <2>6. OneSet BY DEF PriorityInit, OneSet
  <2> QED BY <2>1, <2>4, <2>5, <2>6 DEF OnceInv, Once
<1>2. OnceInv /\ [PriorityNext]_pqVars => OnceInv'
  <2> SUFFICES ASSUME OnceInv, [PriorityNext]_pqVars PROVE OnceInv' OBVIOUS
  <2>1. PriorityInv /\ OneSet /\ Once BY DEF OnceInv
  <2>2. PriorityInv' BY <2>1, PriorityAssumption, InvariantStep
  <2>3. OneSet' BY <2>1, OneSetStep
  <2>4. ~overlapped' => ~overlapped BY <2>1, OverlapStays DEF PriorityInv
  <2>5. Once' BY <2>1, <2>4, OnceStep DEF Once
  <2> QED BY <2>2, <2>3, <2>5 DEF OnceInv
<1>3. OnceInv => PriorityNoDuplicates
  <2> SUFFICES ASSUME OnceInv, ~overlapped
               PROVE  (InWork \union Settled) \cap (Pending \union Waiting) = {}
    BY DEF PriorityNoDuplicates
  <2>1. OnePlace /\ PriorityInv BY DEF OnceInv, Once
  <2>2. Pending \subseteq Ordered
    BY <2>1 DEF Pending, Ordered, PriorityInv, PriorityTypeOK, Entry
  <2>3. \A m \in InWork : \E c \in Consumer : m \in Held(c) BY DEF InWork, Held
  <2> QED BY <2>1, <2>2, <2>3 DEF OnePlace
<1> QED BY <1>1, <1>2, <1>3, PTL DEF PrioritySpec
=============================================================================
