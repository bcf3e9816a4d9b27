-------------------------- MODULE SchedulerProofs --------------------------
(***************************************************************************)
(* Proofs about the schedule, for any messages, schedules and callers.     *)
(* For any number of schedule workers: the types, an id always has a text, *)
(* and a message that was removed unread does not come back.  For one      *)
(* schedule worker: no message is enqueued too often or too early.         *)
(***************************************************************************)
EXTENDS Scheduler, TLAPS, FiniteSetTheorems

\* The part of the type invariant that the argument needs.
BatchTypes ==
  /\ ids = [w \in Worker |-> ids[w]]
  /\ multis = [w \in Worker |-> multis[w]]
  /\ call \in [Caller -> Call]
  /\ target = [r \in Caller |-> target[r]]

\* Only messages that were produced are in the schedule, in a batch, named by
\* a caller or gone: a message that is produced later is none of these.
OnlyProduced ==
  /\ DOMAIN queueScheduled \subseteq produced
  /\ \A m : InBatch(m) => m \in produced
  /\ \A r \in Caller : call[r] # "idle" => target[r] \in produced
  /\ gone \subseteq produced

SchedInv == BatchTypes /\ OnlyProduced /\ IdsHaveTexts /\ GoneForGood

-----------------------------------------------------------------------------
(***************************************************************************)
(* The two commands that change the schedule.                              *)
(***************************************************************************)
\* ZADD with HSET adds the id to both.
LEMMA PutDomains ==
  ASSUME NEW m, NEW n, Put(m, n)
  PROVE  /\ DOMAIN queueScheduled' = DOMAIN queueScheduled \union {m}
         /\ DOMAIN scheduledMessages' = DOMAIN scheduledMessages \union {m}
BY DEF Put, With

\* ZREM with HDEL removes it from both.
LEMMA DropDomains ==
  ASSUME NEW m, Drop(m)
  PROVE  /\ DOMAIN queueScheduled' = DOMAIN queueScheduled \ {m}
         /\ DOMAIN scheduledMessages' = DOMAIN scheduledMessages \ {m}
BY DEF Drop, Without, Restrict

\* A step that keeps the batches, the callers and what is gone.
LEMMA SchedFrame ==
  ASSUME SchedInv,
         UNCHANGED <<ids, multis, call, target, gone, produced>>,
         DOMAIN queueScheduled' = DOMAIN queueScheduled,
         DOMAIN scheduledMessages' = DOMAIN scheduledMessages
  PROVE  SchedInv'
BY DEF SchedInv, BatchTypes, OnlyProduced, IdsHaveTexts, GoneForGood, InBatch

\* Initially the schedule is empty and nothing is under way.
LEMMA SchedInvInit == SchedInit => SchedInv
BY DEF SchedInit, SchedInv, BatchTypes, OnlyProduced, IdsHaveTexts, GoneForGood,
       InBatch, Call

-----------------------------------------------------------------------------
\* A message that is produced was neither scheduled, read nor removed before.
LEMMA ScheduleKeeps ==
  ASSUME SchedInv, NEW m \in MessageId, schedule(m)
  PROVE  SchedInv'
<1>1. PICK n \in getNextScheduledTimestamp(m, reset) : Put(m, n)
  BY DEF schedule
<1>2. /\ m \notin produced
      /\ produced' = produced \union {m}
      /\ UNCHANGED <<ids, multis, call, target, gone>>
  BY DEF schedule, workerVars, callVars, removedVars
<1>3. \A x : InBatch(x)' <=> InBatch(x)
  BY <1>2 DEF InBatch
<1>4. /\ DOMAIN queueScheduled' = DOMAIN queueScheduled \union {m}
      /\ DOMAIN scheduledMessages' = DOMAIN scheduledMessages \union {m}
  BY <1>1, PutDomains
<1>5. m \notin gone
  BY <1>2 DEF SchedInv, OnlyProduced
<1> QED BY <1>2, <1>3, <1>4, <1>5
        DEF SchedInv, BatchTypes, OnlyProduced, IdsHaveTexts, GoneForGood

\* Time changes no id and no text.
LEMMA TickKeeps ==
  ASSUME SchedInv, Tick
  PROVE  SchedInv'
BY SchedFrame DEF Tick, workerVars, callVars, removedVars

\* The worker reads ids of the schedule, so that none of them is gone.
LEMMA FetchIdsKeeps ==
  ASSUME SchedInv, NEW w \in Worker, fetchIds(w)
  PROVE  SchedInv'
<1>1. /\ ids' = [ids EXCEPT ![w] = {m \in DOMAIN queueScheduled :
                                       queueScheduled[m] = 0}]
      /\ UNCHANGED <<multis, call, target, gone, produced, queueScheduled,
                     scheduledMessages>>
  BY DEF fetchIds, scheduleVars, callVars, removedVars
<1>2. \A x : InBatch(x)' => InBatch(x) \/ x \in DOMAIN queueScheduled
  BY <1>1 DEF InBatch, SchedInv, BatchTypes
<1> QED BY <1>1, <1>2
        DEF SchedInv, BatchTypes, OnlyProduced, IdsHaveTexts, GoneForGood

\* What is sent was read before.
LEMMA FetchMessagesKeeps ==
  ASSUME SchedInv, NEW w \in Worker, fetchMessages(w)
  PROVE  SchedInv'
<1>1. PICK S \in SUBSET ids[w] :
        multis' = [multis EXCEPT ![w] = {MultiFor(m) : m \in S}]
  BY DEF fetchMessages
<1>2. /\ ids' = [ids EXCEPT ![w] = {}]
      /\ UNCHANGED <<call, target, gone, produced, queueScheduled,
                     scheduledMessages>>
  BY DEF fetchMessages, scheduleVars, callVars, removedVars
<1>3. \A k \in {MultiFor(m) : m \in S} : k.id \in ids[w]
  BY DEF MultiFor
<1>4. \A x : InBatch(x)' => InBatch(x)
  BY <1>1, <1>2, <1>3 DEF InBatch, SchedInv, BatchTypes
<1> QED BY <1>1, <1>2, <1>4
        DEF SchedInv, BatchTypes, OnlyProduced, IdsHaveTexts, GoneForGood

\* What is enqueued, and perhaps scheduled again, is in a batch, so that it is
\* not gone, even when it was deleted since it was read.
LEMMA EnqueueKeeps ==
  ASSUME SchedInv, NEW w \in Worker, NEW k \in multis[w], enqueue(w, k)
  PROVE  SchedInv'
<1>1. /\ multis' = [multis EXCEPT ![w] = @ \ {k}]
      /\ UNCHANGED <<ids, call, target, gone, produced>>
  BY DEF enqueue, Sends, callVars, removedVars
<1>2. \A x : InBatch(x)' => InBatch(x)
  BY <1>1 DEF InBatch, SchedInv, BatchTypes
<1>3. InBatch(k.id) /\ k.id \in produced /\ k.id \notin gone
  BY DEF InBatch, SchedInv, OnlyProduced, GoneForGood
<1>4. \/ /\ DOMAIN queueScheduled' = DOMAIN queueScheduled \union {k.id}
         /\ DOMAIN scheduledMessages' = DOMAIN scheduledMessages \union {k.id}
      \/ /\ DOMAIN queueScheduled' = DOMAIN queueScheduled \ {k.id}
         /\ DOMAIN scheduledMessages' = DOMAIN scheduledMessages \ {k.id}
  BY PutDomains, DropDomains DEF enqueue
<1> QED BY <1>1, <1>2, <1>3, <1>4
        DEF SchedInv, BatchTypes, OnlyProduced, IdsHaveTexts, GoneForGood

\* The end of a batch and the replacement of a dead worker change no id.
LEMMA WorkerEndsKeeps ==
  ASSUME SchedInv, NEW w \in Worker, BatchEnds(w) \/ TakeOver(w)
  PROVE  SchedInv'
BY SchedFrame DEF BatchEnds, TakeOver, scheduleVars, callVars, removedVars

\* A caller names a message that was produced; locking and releasing touch none.
LEMMA CallKeeps ==
  ASSUME SchedInv, NEW r \in Caller,
         \/ \E m \in produced : deleteScheduled(r, m)
         \/ lockFN(r)
         \/ releaseLock(r)
  PROVE  SchedInv'
<1>1. UNCHANGED <<ids, multis, gone, produced, queueScheduled, scheduledMessages>>
  BY DEF deleteScheduled, lockFN, releaseLock, workerVars, scheduleVars, removedVars
<1>2. \A x : InBatch(x)' <=> InBatch(x)
  BY <1>1 DEF InBatch
<1>3. IdsHaveTexts' /\ GoneForGood'
  BY <1>1, <1>2 DEF SchedInv, IdsHaveTexts, GoneForGood
<1>4. BatchTypes' /\ OnlyProduced'
  BY <1>1, <1>2 DEF SchedInv, BatchTypes, OnlyProduced, deleteScheduled, lockFN,
                    releaseLock, Call
<1> QED BY <1>3, <1>4 DEF SchedInv

\* What leaves the schedule is gone only if no worker has read it.
LEMMA LeaveKeeps ==
  ASSUME SchedInv, NEW S \in SUBSET produced, Leave(S),
         UNCHANGED <<ids, multis, target, produced>>,
         call' \in [Caller -> Call],
         \A r \in Caller : call'[r] # "idle" => call[r] # "idle",
         DOMAIN queueScheduled' = DOMAIN queueScheduled \ S,
         \/ DOMAIN scheduledMessages' = DOMAIN scheduledMessages \ S
         \/ DOMAIN scheduledMessages' = DOMAIN scheduledMessages
  PROVE  SchedInv'
<1>1. \A x : InBatch(x)' <=> InBatch(x)
  BY DEF InBatch
<1>2. gone' = gone \union {m \in S : ~InBatch(m)}
  BY DEF Leave
<1> QED BY <1>1, <1>2
        DEF SchedInv, BatchTypes, OnlyProduced, IdsHaveTexts, GoneForGood

\* A deletion removes id and text together.
LEMMA DeleteKeeps ==
  ASSUME SchedInv, NEW r \in Caller, DeleteExec(r)
  PROVE  SchedInv'
<1>1. target[r] \in produced
  BY DEF DeleteExec, SchedInv, OnlyProduced
<1>2. /\ call' \in [Caller -> Call]
      /\ \A q \in Caller : call'[q] # "idle" => call[q] # "idle"
  BY DEF DeleteExec, SchedInv, BatchTypes, Call
<1>3. UNCHANGED <<ids, multis, target, produced>> /\ Leave({target[r]})
  BY DEF DeleteExec, workerVars
<1>4. /\ DOMAIN queueScheduled' = DOMAIN queueScheduled \ {target[r]}
      /\ DOMAIN scheduledMessages' = DOMAIN scheduledMessages \ {target[r]}
  BY DropDomains DEF DeleteExec
<1> QED BY <1>1, <1>2, <1>3, <1>4, LeaveKeeps

\* A purge removes the ids and leaves the texts.
LEMMA PurgeKeeps ==
  ASSUME SchedInv, purgeScheduledMessagesQueue
  PROVE  SchedInv'
<1>1. DOMAIN queueScheduled \in SUBSET produced
  BY DEF SchedInv, OnlyProduced
<1>2. call' \in [Caller -> Call] /\ UNCHANGED call
  BY DEF purgeScheduledMessagesQueue, callVars, SchedInv, BatchTypes
<1>3. /\ UNCHANGED <<ids, multis, target, produced>>
      /\ Leave(DOMAIN queueScheduled)
      /\ DOMAIN queueScheduled' = DOMAIN queueScheduled \ DOMAIN queueScheduled
      /\ DOMAIN scheduledMessages' = DOMAIN scheduledMessages
  BY DEF purgeScheduledMessagesQueue, workerVars, callVars
<1> QED BY <1>1, <1>2, <1>3, LeaveKeeps

\* Every step preserves the invariant.
LEMMA SchedInvNext == SchedInv /\ [SchedNext]_schedVars => SchedInv'
<1> SUFFICES ASSUME SchedInv, [SchedNext]_schedVars
             PROVE  SchedInv'
  OBVIOUS
<1>1. CASE UNCHANGED schedVars
  BY <1>1, SchedFrame DEF schedVars, scheduleVars, workerVars, callVars, removedVars
<1>2. ASSUME NEW m \in MessageId, schedule(m)
      PROVE  SchedInv'
  BY <1>2, ScheduleKeeps
<1>3. CASE Tick
  BY <1>3, TickKeeps
<1>4. ASSUME NEW w \in Worker, ScheduleWorkerStep(w)
      PROVE  SchedInv'
  BY <1>4, FetchIdsKeeps, FetchMessagesKeeps, EnqueueKeeps, WorkerEndsKeeps
     DEF ScheduleWorkerStep
<1>5. ASSUME NEW r \in Caller,
             \/ \E m \in produced : deleteScheduled(r, m)
             \/ lockFN(r)
             \/ DeleteExec(r)
             \/ releaseLock(r)
      PROVE  SchedInv'
  BY <1>5, CallKeeps, DeleteKeeps
<1>6. CASE purgeScheduledMessagesQueue
  BY <1>6, PurgeKeeps
<1> QED BY <1>1, <1>2, <1>3, <1>4, <1>5, <1>6 DEF SchedNext

-----------------------------------------------------------------------------
\* No id of the schedule is without its text, whatever is enqueued, repeated,
\* deleted and purged at once and by however many workers and callers.
THEOREM IdsAlwaysHaveTexts == SchedSpec => []IdsHaveTexts
<1>1. SchedInv => IdsHaveTexts
  BY DEF SchedInv
<1> QED BY <1>1, SchedInvInit, SchedInvNext, PTL DEF SchedSpec

\* A scheduled message that is deleted or purged before any schedule worker
\* has read it is neither scheduled nor enqueued again.
THEOREM RemovedUnreadIsGone == SchedSpec => []GoneForGood
<1>1. SchedInv => GoneForGood
  BY DEF SchedInv
<1> QED BY <1>1, SchedInvInit, SchedInvNext, PTL DEF SchedSpec

-----------------------------------------------------------------------------
(***************************************************************************)
(* Arithmetic: clocks, ages and the next timestamp of a message.           *)
(***************************************************************************)
\* The remainder of a sum of multiples and a rest.
LEMMA RestOf ==
  ASSUME NEW q \in Nat, NEW C \in Nat \ {0}, NEW r \in 0..(C - 1)
  PROVE  (C * q + r) % C = r
OBVIOUS

\* A number is a multiple and its remainder.
LEMMA Division ==
  ASSUME NEW a \in Nat, NEW C \in Nat \ {0}
  PROVE  /\ a % C \in 0..(C - 1)
         /\ \E q \in Nat : a = C * q + (a % C)
<1>1. a % C \in 0..(C - 1) OBVIOUS
<1>2. \E q \in Nat : a = C * q + (a % C) OBVIOUS
<1> QED BY <1>1, <1>2

\* The remainder of the next number.
LEMMA NextRest ==
  ASSUME NEW a \in Nat, NEW C \in Nat \ {0}
  PROVE  /\ a % C = C - 1 => (a + 1) % C = 0
         /\ a % C # C - 1 => (a + 1) % C = (a % C) + 1
<1>1. PICK r \in 0..(C - 1) : r = a % C BY Division
<1>2. PICK q \in Nat : a = C * q + r BY <1>1, Division
<1>3. CASE r = C - 1
  <2>1. a + 1 = C * (q + 1) + 0 /\ q + 1 \in Nat /\ 0 \in 0..(C - 1) BY <1>2, <1>3
  <2> QED BY <1>1, <1>3, <2>1, RestOf
<1>4. CASE r # C - 1
  <2>1. a + 1 = C * q + (r + 1) /\ r + 1 \in 0..(C - 1) BY <1>2, <1>4
  <2> QED BY <1>1, <1>4, <2>1, RestOf
<1> QED BY <1>3, <1>4

\* Tick either reaches an instant of a CRON expression or comes one unit
\* closer to it, also when the clock starts again.
LEMMA NextInstant ==
  ASSUME NEW t \in 0..(Cycle - 1), NEW C \in Nat \ {0}, Cycle \in Nat \ {0},
         NEW u, u = (t + 1) % Cycle
  PROVE  /\ u \in 0..(Cycle - 1)
         /\ t % C \in 0..(C - 1)
         /\ u % C = 0 \/ u % C = (t % C) + 1
<1>1. t \in Nat /\ t + 1 \in Nat /\ u \in 0..(Cycle - 1) BY Division
<1>2. CASE t = Cycle - 1
  <2>1. t + 1 = Cycle * 1 + 0 /\ 0 \in 0..(Cycle - 1) /\ 1 \in Nat BY <1>2
  <2>2. u = 0 BY <2>1, RestOf
  <2>3. 0 = C * 0 + 0 /\ 0 \in 0..(C - 1) /\ 0 \in Nat OBVIOUS
  <2>4. u % C = 0 BY <2>2, <2>3, RestOf
  <2>5. t % C \in 0..(C - 1) BY <1>1, Division
  <2> QED BY <1>1, <2>4, <2>5
<1>3. CASE t # Cycle - 1
  <2>1. t + 1 = Cycle * 0 + (t + 1) /\ t + 1 \in 0..(Cycle - 1) /\ 0 \in Nat BY <1>3
  <2>2. u = t + 1 BY <2>1, RestOf
  <2>3. t % C \in 0..(C - 1) BY <1>1, Division
  <2>4. u % C = 0 \/ u % C = (t % C) + 1 BY <1>1, <2>2, NextRest
  <2> QED BY <1>1, <2>3, <2>4
<1> QED BY <1>2, <1>3

\* The age at which counting stops is no less than any time a message waits.
LEMMA MaxAgeFacts ==
  ASSUME NEW m \in MessageId
  PROVE  /\ MaxAge(m) \in Nat /\ MaxAge(m) >= 1
         /\ MaxAge(m) >= ScheduledDelay[m] /\ MaxAge(m) >= ScheduledPeriod[m]
<1>1. PICK a \in Nat, b \in Nat : a = ScheduledDelay[m] /\ b = ScheduledPeriod[m]
  BY SchedulerAssumption
<1>2. PICK S : S = {1, a, b} OBVIOUS
<1>3. \E x \in S : \A y \in S : x >= y BY <1>2
<1>4. Max(S) \in S /\ \A y \in S : Max(S) >= y BY <1>3 DEF Max
<1>5. MaxAge(m) = Max(S) BY <1>1, <1>2 DEF MaxAge
<1> QED BY <1>1, <1>2, <1>4, <1>5

\* The time until the next instant.
ToInstant(m, wait) == ScheduledCron[m] > 0 /\ wait = ScheduledCron[m] - (clock % ScheduledCron[m])

\* A text of m that is scheduled.
TextFits(m, t) ==
  t \in Text /\ t.repeatCount <= ScheduledRepeat[m] /\ (ScheduledDelay[m] > 0 => t.delayed)

\* What getNextScheduledTimestamp returns: the delay, a repeat, an instant of
\* the CRON expression, or nothing.
LEMMA NextCases ==
  ASSUME NEW m \in MessageId, NEW t \in Text, clock \in 0..(Cycle - 1),
         t.repeatCount <= ScheduledRepeat[m], NEW next, next = getNextScheduledTimestamp(m, t)
  PROVE  \/ next = {}
         \/ \E n : /\ next = {n} /\ n.wait \in Nat /\ TextFits(m, n.text)
                   /\ \/ /\ ScheduledDelay[m] > 0 /\ ~t.delayed
                         /\ n.wait = ScheduledDelay[m] /\ n.text.repeatCount = t.repeatCount
                      \/ /\ ScheduledDelay[m] = 0 \/ t.delayed
                         /\ ScheduledCron[m] = 0 \/ t.cronFired
                         /\ n.wait = ScheduledPeriod[m]
                         /\ n.text.repeatCount = t.repeatCount + 1
                      \/ /\ ScheduledDelay[m] = 0 \/ t.delayed
                         /\ ToInstant(m, n.wait) /\ n.wait > 0
<1>1. /\ ScheduledDelay[m] \in Nat /\ ScheduledRepeat[m] \in Nat /\ ScheduledPeriod[m] \in Nat
      /\ ScheduledCron[m] \in Nat /\ Cycle \in Nat \ {0}
  BY SchedulerAssumption
<1>2. t.delayed \in BOOLEAN /\ t.cronFired \in BOOLEAN /\ t.repeatCount \in Nat BY DEF Text
<1>3. CASE ScheduledDelay[m] > 0 /\ ~t.delayed
  <2>1. PICK n : n = Due(ScheduledDelay[m], [t EXCEPT !.delayed = TRUE]) OBVIOUS
  <2>2. next = {n} BY <1>3, <2>1 DEF getNextScheduledTimestamp
  <2>3. /\ n.wait = ScheduledDelay[m] /\ n.text \in Text /\ n.text.delayed
        /\ n.text.repeatCount = t.repeatCount
    BY <2>1 DEF Due, Text
  <2> QED BY <1>1, <1>3, <2>2, <2>3 DEF TextFits
<1>4. CASE ~(ScheduledDelay[m] > 0 /\ ~t.delayed)
  <2>1. next = CronOrRepeat(m, t) /\ (ScheduledDelay[m] = 0 \/ t.delayed)
    BY <1>1, <1>4 DEF getNextScheduledTimestamp
  <2>2. CASE cronWait(m) = {} \/ RepeatsFirst(m, t)
    <3>1. next = Repeated(m, t) BY <2>1, <2>2 DEF CronOrRepeat
    <3>2. ScheduledCron[m] = 0 \/ t.cronFired
      BY <1>1, <2>2 DEF cronWait, RepeatsFirst
    <3>3. CASE t.repeatCount + 1 <= ScheduledRepeat[m]
      <4>1. PICK n : n = Due(ScheduledPeriod[m], [t EXCEPT !.repeatCount = @ + 1]) OBVIOUS
      <4>2. next = {n} BY <3>1, <3>3, <4>1 DEF Repeated, repeatWait
      <4>3. /\ n.wait = ScheduledPeriod[m] /\ n.text \in Text /\ n.text.delayed = t.delayed
            /\ n.text.repeatCount = t.repeatCount + 1
        BY <1>2, <4>1 DEF Due, Text
      <4> QED BY <1>1, <2>1, <3>2, <3>3, <4>2, <4>3 DEF TextFits
    <3>4. CASE ~(t.repeatCount + 1 <= ScheduledRepeat[m])
      BY <3>1, <3>4 DEF Repeated, repeatWait
    <3> QED BY <3>3, <3>4
  <2>3. CASE ~(cronWait(m) = {} \/ RepeatsFirst(m, t))
    <3>1. PICK C \in Nat \ {0} : C = ScheduledCron[m] BY <1>1, <2>3 DEF cronWait
    <3>2. PICK c : c = C - (clock % C) OBVIOUS
    <3>3. cronWait(m) = {c} /\ ToInstant(m, c) BY <3>1, <3>2 DEF cronWait, ToInstant
    <3>4. c \in Nat /\ c > 0
      <4>1. clock % C \in 0..(C - 1) BY <1>1, Division
      <4> QED BY <3>1, <3>2, <4>1
    <3>5. PICK n : n = Due(c, [t EXCEPT !.repeatCount = 0, !.cronFired = TRUE]) OBVIOUS
    <3>6. next = {n} BY <2>1, <2>3, <3>3, <3>5 DEF CronOrRepeat
    <3>7. n.wait = c /\ n.text \in Text /\ n.text.delayed = t.delayed /\ n.text.repeatCount = 0
      BY <1>2, <3>5 DEF Due, Text
    <3> QED BY <1>1, <2>1, <3>3, <3>4, <3>6, <3>7 DEF TextFits
  <2> QED BY <2>2, <2>3
<1> QED BY <1>3, <1>4

-----------------------------------------------------------------------------
(***************************************************************************)
(* The type invariant, with what a text of the schedule says.              *)
(***************************************************************************)
ScheduleTypes ==
  /\ DOMAIN queueScheduled \subseteq MessageId
  /\ \A m \in DOMAIN queueScheduled : queueScheduled[m] \in Nat
  /\ DOMAIN scheduledMessages \subseteq MessageId
  /\ \A m \in DOMAIN scheduledMessages : TextFits(m, scheduledMessages[m])

\* What a MULTI does after it has enqueued message m.
NextFits(m, next) ==
  next = {} \/ \E n : next = {n} /\ n.wait \in Nat /\ TextFits(m, n.text)

MultiTypes ==
  \A w \in Worker : \A k \in multis[w] : k.id \in MessageId /\ NextFits(k.id, k.next)

HistoryTypes ==
  /\ produced \subseteq MessageId
  /\ sent \in [MessageId -> 0..MaxSent]
  /\ started \subseteq produced
  /\ age = [m \in MessageId |-> age[m]]
  /\ \A m \in MessageId : age[m] \in 0..MaxAge(m)
  /\ gone \subseteq removed /\ removed \subseteq produced

SchedTypes ==
  /\ clock \in 0..(Cycle - 1)
  /\ ScheduleTypes
  /\ pc \in [Worker -> Pc]
  /\ ids \in [Worker -> SUBSET MessageId]
  /\ MultiTypes
  /\ lock \in Caller \union {NoOne}
  /\ target \in [Caller -> MessageId \union {NoOne}]
  /\ HistoryTypes

\* The stronger statement is about the same types.
LEMMA TypesImply == SchedInv /\ SchedTypes => SchedTypeOK
<1> SUFFICES ASSUME SchedInv, SchedTypes PROVE SchedTypeOK OBVIOUS
<1>1. \A m \in DOMAIN scheduledMessages :
        scheduledMessages[m] \in Text /\ scheduledMessages[m].repeatCount <= ScheduledRepeat[m]
  BY DEF SchedTypes, ScheduleTypes, TextFits
<1>2. ASSUME NEW w \in Worker, NEW k \in multis[w]
      PROVE  /\ k.id \in MessageId
             /\ Cardinality(k.next) <= 1
             /\ \A n \in k.next : n.wait \in Nat /\ n.text \in Text
  <2>1. k.id \in MessageId /\ NextFits(k.id, k.next) BY DEF SchedTypes, MultiTypes
  <2>2. CASE k.next = {} BY <2>1, <2>2, FS_EmptySet
  <2>3. CASE k.next # {}
    <3>1. PICK n : k.next = {n} /\ n.wait \in Nat /\ n.text \in Text
      BY <2>1, <2>3 DEF NextFits, TextFits
    <3>2. Cardinality({n}) = 1 BY FS_Singleton
    <3> QED BY <2>1, <3>1, <3>2
  <2> QED BY <2>2, <2>3
<1> QED BY <1>1, <1>2 DEF SchedTypes, ScheduleTypes, HistoryTypes, SchedTypeOK, SchedInv, BatchTypes

\* ZADD with HSET of a message, and ZREM with HDEL, keep the types.
LEMMA ScheduleTypesKept ==
  ASSUME ScheduleTypes
  PROVE  /\ \A m \in MessageId : \A n :
              Put(m, n) /\ n.wait \in Nat /\ TextFits(m, n.text) => ScheduleTypes'
         /\ \A m : Drop(m) => ScheduleTypes'
<1>1. ASSUME NEW m \in MessageId, NEW n, Put(m, n), n.wait \in Nat, TextFits(m, n.text)
      PROVE  ScheduleTypes'
  <2>1. /\ DOMAIN queueScheduled' = DOMAIN queueScheduled \union {m}
        /\ DOMAIN scheduledMessages' = DOMAIN scheduledMessages \union {m}
    BY <1>1, PutDomains
  <2>2. \A x \in DOMAIN queueScheduled' :
          queueScheduled'[x] = IF x = m THEN n.wait ELSE queueScheduled[x]
    BY <1>1 DEF Put, With
  <2>3. \A x \in DOMAIN scheduledMessages' :
          scheduledMessages'[x] = IF x = m THEN n.text ELSE scheduledMessages[x]
    BY <1>1 DEF Put, With
  <2> QED BY <1>1, <2>1, <2>2, <2>3 DEF ScheduleTypes
<1>2. ASSUME NEW m, Drop(m) PROVE ScheduleTypes'
  <2>1. /\ DOMAIN queueScheduled' = DOMAIN queueScheduled \ {m}
        /\ DOMAIN scheduledMessages' = DOMAIN scheduledMessages \ {m}
    BY <1>2, DropDomains
  <2>2. /\ \A x \in DOMAIN queueScheduled' : queueScheduled'[x] = queueScheduled[x]
        /\ \A x \in DOMAIN scheduledMessages' : scheduledMessages'[x] = scheduledMessages[x]
    BY <1>2 DEF Drop, Without, Restrict
  <2> QED BY <2>1, <2>2 DEF ScheduleTypes
<1> QED BY <1>1, <1>2

\* The next timestamp of a text that fits does.
LEMMA NextTypes ==
  ASSUME NEW m \in MessageId, NEW t \in Text, clock \in 0..(Cycle - 1),
         t.repeatCount <= ScheduledRepeat[m]
  PROVE  NextFits(m, getNextScheduledTimestamp(m, t))
<1>1. PICK next : next = getNextScheduledTimestamp(m, t) OBVIOUS
<1>2. NextFits(m, next) BY <1>1, NextCases DEF NextFits
<1> QED BY <1>1, <1>2

\* Every step keeps the types.
LEMMA SchedTypesNext ==
  ASSUME SchedInv, SchedTypes, [SchedNext]_schedVars
  PROVE  SchedTypes'
<1> USE DEF SchedTypes, scheduleVars, workerVars, callVars, sentVars, removedVars
<1>1. CASE UNCHANGED schedVars
  BY <1>1 DEF schedVars, ScheduleTypes, MultiTypes, HistoryTypes
<1>2. ASSUME NEW m \in MessageId, schedule(m)
      PROVE  SchedTypes'
  <2>1. reset \in Text /\ reset.repeatCount <= ScheduledRepeat[m]
    BY SchedulerAssumption DEF reset, Text
  <2>2. NextFits(m, getNextScheduledTimestamp(m, reset)) BY <2>1, NextTypes
  <2>3. PICK n \in getNextScheduledTimestamp(m, reset) : Put(m, n) BY <1>2 DEF schedule
  <2>4. n.wait \in Nat /\ TextFits(m, n.text) BY <2>2, <2>3 DEF NextFits
  <2>5. ScheduleTypes' BY <2>3, <2>4, ScheduleTypesKept
  <2>6. MultiTypes' BY <1>2 DEF schedule, MultiTypes
  <2>7. HistoryTypes'
    <3>1. age' = [age EXCEPT ![m] = 0] BY <1>2 DEF schedule
    <3>2. age' = [x \in MessageId |-> age'[x]] /\ \A x \in MessageId : age'[x] \in 0..MaxAge(x)
      BY <3>1, MaxAgeFacts DEF HistoryTypes
    <3> QED BY <1>2, <3>2 DEF schedule, HistoryTypes
  <2> QED BY <1>2, <2>5, <2>6, <2>7 DEF schedule
<1>3. CASE Tick
  <2>1. /\ clock' = (clock + 1) % Cycle
        /\ queueScheduled' = [m \in DOMAIN queueScheduled |->
                                IF queueScheduled[m] > 0 THEN queueScheduled[m] - 1 ELSE 0]
        /\ age' = [m \in MessageId |-> IF age[m] < MaxAge(m) THEN age[m] + 1 ELSE age[m]]
        /\ UNCHANGED <<scheduledMessages, pc, ids, multis, lock, call, target, produced, started,
                       removed, gone>>
    BY <1>3 DEF Tick
  <2>2. \E f \in [MessageId -> BOOLEAN] : sent' = [m \in MessageId |-> IF f[m] THEN 0 ELSE sent[m]]
    <3> DEFINE f == [m \in MessageId |->
                       ScheduledCron[m] > 0 /\ ((clock + 1) % Cycle) % ScheduledCron[m] = 0]
    <3>1. f \in [MessageId -> BOOLEAN] OBVIOUS
    <3>2. sent' = [m \in MessageId |-> IF f[m] THEN 0 ELSE sent[m]] BY <1>3 DEF Tick
    <3> QED BY <3>1, <3>2
  <2>3. clock' \in 0..(Cycle - 1)
    <3>1. clock + 1 \in Nat /\ Cycle \in Nat \ {0} BY SchedulerAssumption
    <3> QED BY <2>1, <3>1, Division
  <2>4. ScheduleTypes' BY <2>1 DEF ScheduleTypes
  <2>5. MultiTypes' BY <2>1 DEF MultiTypes
  <2>6. \A m \in MessageId : age'[m] \in 0..MaxAge(m) BY <2>1, MaxAgeFacts DEF HistoryTypes
  <2>7. sent' \in [MessageId -> 0..MaxSent] BY <2>2, SchedulerAssumption DEF HistoryTypes
  <2>8. age' = [m \in MessageId |-> age'[m]] BY <2>1
  <2>9. HistoryTypes' BY <2>1, <2>6, <2>7, <2>8 DEF HistoryTypes
  <2> QED BY <2>1, <2>3, <2>4, <2>5, <2>9
<1>4. ASSUME NEW w \in Worker, fetchIds(w)
      PROVE  SchedTypes'
  <2>1. MultiTypes' /\ ScheduleTypes' /\ HistoryTypes'
    BY <1>4 DEF fetchIds, MultiTypes, ScheduleTypes, HistoryTypes
  <2>2. ids' \in [Worker -> SUBSET MessageId] /\ pc' \in [Worker -> Pc]
    BY <1>4 DEF fetchIds, ScheduleTypes, Pc
  <2> QED BY <1>4, <2>1, <2>2 DEF fetchIds
<1>5. ASSUME NEW w \in Worker, fetchMessages(w)
      PROVE  SchedTypes'
  <2>1. PICK S \in SUBSET (ids[w] \cap DOMAIN scheduledMessages) :
          multis' = [multis EXCEPT ![w] = {MultiFor(m) : m \in S}]
    BY <1>5 DEF fetchMessages
  <2>2. /\ ids' = [ids EXCEPT ![w] = {}]
        /\ pc' = [pc EXCEPT ![w] = "enqueuing"] \/ pc' = [pc EXCEPT ![w] = "panicking"]
        /\ UNCHANGED <<clock, queueScheduled, scheduledMessages, lock, call, target, produced,
                       sent, started, age, removed, gone>>
    BY <1>5 DEF fetchMessages
  <2>3. ASSUME NEW m \in S PROVE MultiFor(m).id \in MessageId
                                 /\ NextFits(MultiFor(m).id, MultiFor(m).next)
    <3>1. m \in MessageId /\ TextFits(m, scheduledMessages[m]) BY <2>1 DEF ScheduleTypes
    <3>2. NextFits(m, getNextScheduledTimestamp(m, scheduledMessages[m]))
      BY <3>1, NextTypes DEF TextFits
    <3>3. MultiFor(m).id = m /\ MultiFor(m).next = getNextScheduledTimestamp(m, scheduledMessages[m])
      BY DEF MultiFor
    <3> QED BY <3>1, <3>2, <3>3
  <2>4. /\ multis'[w] = {MultiFor(m) : m \in S}
        /\ \A v \in Worker : v # w => multis'[v] = multis[v]
    BY <2>1 DEF SchedInv, BatchTypes
  <2>5. MultiTypes' BY <2>3, <2>4 DEF MultiTypes
  <2>6. ScheduleTypes' /\ HistoryTypes' BY <2>2 DEF ScheduleTypes, HistoryTypes
  <2>7. pc' \in [Worker -> Pc] /\ ids' \in [Worker -> SUBSET MessageId] BY <2>2 DEF Pc
  <2> QED BY <2>2, <2>5, <2>6, <2>7
<1>6. ASSUME NEW w \in Worker, NEW k \in multis[w], enqueue(w, k)
      PROVE  SchedTypes'
  <2>1. k.id \in MessageId /\ NextFits(k.id, k.next) BY DEF MultiTypes
  <2>2. k.id \in produced BY DEF SchedInv, OnlyProduced, InBatch
  <2>3. ScheduleTypes'
    <3>1. ASSUME NEW n \in k.next, Put(k.id, n) PROVE ScheduleTypes'
      <4>1. n.wait \in Nat /\ TextFits(k.id, n.text) BY <2>1 DEF NextFits
      <4> QED BY <2>1, <3>1, <4>1, ScheduleTypesKept
    <3>2. CASE Drop(k.id) BY <3>2, ScheduleTypesKept
    <3> QED BY <1>6, <3>1, <3>2 DEF enqueue
  <2>4. /\ multis' = [multis EXCEPT ![w] = @ \ {k}]
        /\ sent' = [sent EXCEPT ![k.id] = IF @ < MaxSent THEN @ + 1 ELSE @]
        /\ started' = started \union {k.id}
        /\ age' = [age EXCEPT ![k.id] = 0]
        /\ UNCHANGED <<clock, pc, ids, lock, call, target, produced, removed, gone>>
    BY <1>6 DEF enqueue, Sends
  <2>5. MultiTypes' BY <2>4 DEF MultiTypes, SchedInv, BatchTypes
  <2>6. age' = [x \in MessageId |-> age'[x]] /\ \A x \in MessageId : age'[x] \in 0..MaxAge(x)
    BY <2>4, MaxAgeFacts DEF HistoryTypes
  <2>7. sent' \in [MessageId -> 0..MaxSent]
    <3>1. sent[k.id] \in 0..MaxSent BY <2>1 DEF HistoryTypes
    <3>2. (IF sent[k.id] < MaxSent THEN sent[k.id] + 1 ELSE sent[k.id]) \in 0..MaxSent
      BY <3>1, SchedulerAssumption
    <3> QED BY <2>4, <3>2 DEF HistoryTypes
  <2>8. HistoryTypes' BY <2>2, <2>4, <2>6, <2>7 DEF HistoryTypes
  <2> QED BY <2>3, <2>4, <2>5, <2>8
<1>7. ASSUME NEW w \in Worker, BatchEnds(w) \/ TakeOver(w)
      PROVE  SchedTypes'
  <2>1. MultiTypes' /\ ScheduleTypes' /\ HistoryTypes'
    BY <1>7 DEF BatchEnds, TakeOver, MultiTypes, ScheduleTypes, HistoryTypes
  <2> QED BY <1>7, <2>1 DEF BatchEnds, TakeOver, Pc
<1>8. ASSUME NEW r \in Caller,
             (\E m \in produced : deleteScheduled(r, m)) \/ lockFN(r) \/ releaseLock(r)
      PROVE  SchedTypes'
  <2>1. MultiTypes' /\ ScheduleTypes' /\ HistoryTypes'
    BY <1>8 DEF deleteScheduled, lockFN, releaseLock, MultiTypes, ScheduleTypes, HistoryTypes
  <2> QED BY <1>8, <2>1 DEF deleteScheduled, lockFN, releaseLock, HistoryTypes
<1>9. ASSUME NEW r \in Caller, DeleteExec(r)
      PROVE  SchedTypes'
  <2>1. target[r] \in produced BY <1>9 DEF DeleteExec, SchedInv, OnlyProduced
  <2>2. ScheduleTypes' BY <1>9, ScheduleTypesKept DEF DeleteExec
  <2>3. MultiTypes' BY <1>9 DEF DeleteExec, MultiTypes
  <2>4. HistoryTypes' BY <1>9, <2>1 DEF DeleteExec, HistoryTypes, Leave
  <2> QED BY <1>9, <2>2, <2>3, <2>4 DEF DeleteExec
<1>10. CASE purgeScheduledMessagesQueue
  <2>1. DOMAIN queueScheduled \subseteq produced BY DEF SchedInv, OnlyProduced
  <2>2. ScheduleTypes' BY <1>10 DEF purgeScheduledMessagesQueue, ScheduleTypes
  <2>3. MultiTypes' BY <1>10 DEF purgeScheduledMessagesQueue, MultiTypes
  <2>4. HistoryTypes' BY <1>10, <2>1 DEF purgeScheduledMessagesQueue, HistoryTypes, Leave
  <2> QED BY <1>10, <2>2, <2>3, <2>4 DEF purgeScheduledMessagesQueue
<1> HIDE DEF SchedTypes
<1> QED BY <1>1, <1>2, <1>3, <1>4, <1>5, <1>6, <1>7, <1>8, <1>9, <1>10
        DEF SchedNext, ScheduleWorkerStep

\* Initially.
LEMMA SchedTypesInit == SchedInit => SchedTypes
<1> SUFFICES ASSUME SchedInit PROVE SchedTypes OBVIOUS
<1>1. DOMAIN queueScheduled = {} /\ DOMAIN scheduledMessages = {} BY DEF SchedInit
<1>2. \A m \in MessageId : age[m] \in 0..MaxAge(m) BY MaxAgeFacts DEF SchedInit
<1> QED BY <1>1, <1>2, SchedulerAssumption
        DEF SchedInit, SchedTypes, ScheduleTypes, MultiTypes, HistoryTypes, Pc

\* Every variable of the schedule keeps its type; in particular the worker
\* never counts a repeat too many in a text, whoever else touches it.
THEOREM SchedTypeCorrect == SchedSpec => []SchedTypeOK
<1>1. SchedInv /\ SchedTypes /\ [SchedNext]_schedVars => (SchedInv /\ SchedTypes)'
  BY SchedInvNext, SchedTypesNext
<1> QED BY <1>1, SchedInvInit, SchedTypesInit, TypesImply, PTL DEF SchedSpec

-----------------------------------------------------------------------------
(***************************************************************************)
(* How often and how early a message is enqueued.  Two schedule workers    *)
(* would both enqueue what they have both read, so that these results are  *)
(* about one; the lock of WorkersProofs sees to that.                      *)
(*                                                                         *)
(* A text announces a delivery.  It is within the bound when its counter   *)
(* has kept up with the deliveries (May), or when the delivery waits for   *)
(* the next CRON instant, at which the count starts again (ToInstant).     *)
(***************************************************************************)
OneWorker == \A v, w \in Worker : v = w

\* How often the code enqueues a message, from one CRON instant to the next if
\* it has one: the end of a delay and an instant are deliveries of their own,
\* before the repeats.
Limit(m) == IF ScheduledCron[m] = 0 /\ ScheduledDelay[m] = 0 THEN ScheduledRepeat[m]
                                                            ELSE ScheduledRepeat[m] + 1

\* After s deliveries, the one that text t announces is within the bound.
May(m, s, t) ==
  IF ScheduledCron[m] = 0 /\ ScheduledDelay[m] = 0 THEN s < t.repeatCount
                                                   ELSE s <= t.repeatCount

\* The time a message that has been enqueued waits at least.
GapAfter(m) == IF ScheduledCron[m] = 0 THEN ScheduledPeriod[m] ELSE 0

Read(m) == \E w \in Worker : m \in ids[w]
Sending(m) == \E w \in Worker : \E k \in multis[w] : k.id = m

\* A worker has ids between its two reads and MULTIs after the second, one
\* for each message.
BatchPhases ==
  \A w \in Worker :
    /\ ids[w] # {} => pc[w] = "fetched"
    /\ multis[w] # {} => pc[w] \in {"enqueuing", "panicking"}
    /\ \A k, l \in multis[w] : k.id = l.id => k = l

\* What is in the schedule.
ScheduledFit ==
  \A m \in DOMAIN queueScheduled : ~Sending(m) =>
    /\ queueScheduled[m] + age[m] >= Gap(m)
    /\ \/ May(m, sent[m], scheduledMessages[m])
       \/ ToInstant(m, queueScheduled[m]) /\ ~Read(m)

\* What the worker has read the id of.
ReadFit ==
  \A m \in MessageId : Read(m) =>
    /\ age[m] >= Gap(m)
    /\ m \in DOMAIN scheduledMessages => May(m, sent[m], scheduledMessages[m])

\* What is about to be enqueued, and scheduled again.
MultisFit ==
  \A w \in Worker : \A k \in multis[w] :
    /\ age[k.id] >= Gap(k.id)
    /\ sent[k.id] + 1 <= Limit(k.id)
    /\ \A n \in k.next : /\ n.wait >= GapAfter(k.id)
                         /\ \/ May(k.id, sent[k.id] + 1, n.text)
                            \/ ToInstant(k.id, n.wait)

Counted == \A m \in MessageId : sent[m] <= Limit(m) /\ (m \notin produced => sent[m] = 0)

Budget == BatchPhases /\ ScheduledFit /\ ReadFit /\ MultisFit /\ Counted

\* The numbers that the argument is about.
LEMMA Numbers ==
  ASSUME SchedTypes, NEW m \in MessageId
  PROVE  /\ ScheduledDelay[m] \in Nat /\ ScheduledRepeat[m] \in Nat /\ ScheduledPeriod[m] \in Nat
         /\ ScheduledCron[m] \in Nat /\ Gap(m) \in Nat /\ GapAfter(m) \in Nat /\ Limit(m) \in Nat
         /\ sent[m] \in Nat /\ age[m] \in Nat /\ MaxAge(m) \in Nat
         /\ Gap(m) <= MaxAge(m) /\ (m \in started => Gap(m) = GapAfter(m))
<1>1. /\ ScheduledDelay[m] \in Nat /\ ScheduledRepeat[m] \in Nat /\ ScheduledPeriod[m] \in Nat
      /\ ScheduledCron[m] \in Nat
  BY SchedulerAssumption
<1>2. Gap(m) \in Nat /\ GapAfter(m) \in Nat /\ Limit(m) \in Nat
  BY <1>1 DEF Gap, GapAfter, Limit
<1>3. MaxAge(m) \in Nat /\ MaxAge(m) >= ScheduledDelay[m] /\ MaxAge(m) >= ScheduledPeriod[m]
  BY MaxAgeFacts
<1>4. sent[m] \in Nat /\ age[m] \in Nat BY <1>3 DEF SchedTypes, HistoryTypes
<1>5. Gap(m) <= MaxAge(m) /\ (m \in started => Gap(m) = GapAfter(m))
  BY <1>1, <1>3 DEF Gap, GapAfter
<1> QED BY <1>1, <1>2, <1>3, <1>4, <1>5

\* Fewer deliveries leave more room, and there is room for one more.
LEMMA MayFacts ==
  ASSUME NEW m \in MessageId, NEW t, TextFits(m, t), NEW s \in Nat, May(m, s, t)
  PROVE  s + 1 <= Limit(m) /\ \A r \in Nat : r <= s => May(m, r, t)
<1>1. /\ ScheduledDelay[m] \in Nat /\ ScheduledRepeat[m] \in Nat /\ ScheduledCron[m] \in Nat
  BY SchedulerAssumption
<1>2. t.repeatCount \in Nat /\ t.repeatCount <= ScheduledRepeat[m] BY DEF TextFits, Text
<1>3. s + 1 <= Limit(m) BY <1>1, <1>2 DEF May, Limit
<1>4. \A r \in Nat : r <= s => May(m, r, t) BY <1>1, <1>2 DEF May
<1> QED BY <1>3, <1>4

\* A step that changes no batch and at most takes messages out of the schedule.
LEMMA BudgetFrame ==
  ASSUME SchedInv, SchedTypes, Budget, SchedInv', SchedTypes',
         UNCHANGED <<clock, ids, multis, sent, started, age>>,
         \A w \in Worker : pc'[w] = pc[w] \/ (ids[w] = {} /\ multis[w] = {}),
         produced \subseteq produced',
         DOMAIN queueScheduled' \subseteq DOMAIN queueScheduled,
         \A m \in DOMAIN queueScheduled' : queueScheduled'[m] = queueScheduled[m],
         DOMAIN scheduledMessages' \subseteq DOMAIN scheduledMessages,
         \A m \in DOMAIN scheduledMessages' : scheduledMessages'[m] = scheduledMessages[m]
  PROVE  Budget'
<1>1. /\ \A m : Read(m)' <=> Read(m)
      /\ \A m : Sending(m)' <=> Sending(m)
      /\ \A m, x : ToInstant(m, x)' <=> ToInstant(m, x)
      /\ \A m : Gap(m)' = Gap(m)
  BY DEF Read, Sending, ToInstant, Gap
<1>2. BatchPhases' BY DEF BatchPhases, Budget
<1>3. DOMAIN queueScheduled' \subseteq DOMAIN scheduledMessages' BY DEF SchedInv, IdsHaveTexts
<1>4. ScheduledFit'
  <2> SUFFICES ASSUME NEW m \in DOMAIN queueScheduled', ~Sending(m)'
               PROVE  /\ queueScheduled'[m] + age'[m] >= Gap(m)'
                      /\ \/ May(m, sent'[m], scheduledMessages'[m])
                         \/ ToInstant(m, queueScheduled[m])' /\ ~Read(m)'
    BY DEF ScheduledFit
  <2>1. queueScheduled'[m] = queueScheduled[m] /\ scheduledMessages'[m] = scheduledMessages[m]
    BY <1>3
  <2>2. /\ queueScheduled[m] + age[m] >= Gap(m)
        /\ \/ May(m, sent[m], scheduledMessages[m])
           \/ ToInstant(m, queueScheduled[m]) /\ ~Read(m)
    BY <1>1 DEF Budget, ScheduledFit
  <2>3. ToInstant(m, queueScheduled[m])' <=> ToInstant(m, queueScheduled[m])
    BY <2>1 DEF ToInstant
  <2> QED BY <1>1, <2>1, <2>2, <2>3
<1>5. ReadFit' BY <1>1 DEF Budget, ReadFit
<1>6. MultisFit' BY <1>1 DEF Budget, MultisFit
<1>7. Counted' BY DEF Budget, Counted
<1> QED BY <1>2, <1>4, <1>5, <1>6, <1>7 DEF Budget

\* A message that is produced waits for its first delivery.
LEMMA ScheduleBudget ==
  ASSUME SchedInv, SchedTypes, Budget, SchedTypes', NEW m \in MessageId, schedule(m)
  PROVE  Budget'
<1>1. PICK n \in getNextScheduledTimestamp(m, reset) : Put(m, n) BY DEF schedule
<1>2. /\ m \notin produced /\ produced' = produced \union {m}
      /\ age' = [age EXCEPT ![m] = 0]
      /\ UNCHANGED <<clock, pc, ids, multis, sent, started>>
  BY DEF schedule, workerVars
<1>3. /\ \A x : Read(x)' <=> Read(x)
      /\ \A x : Sending(x)' <=> Sending(x)
      /\ \A x, y : ToInstant(x, y)' <=> ToInstant(x, y)
      /\ \A x : Gap(x)' = Gap(x)
  BY <1>2 DEF Read, Sending, ToInstant, Gap
<1>4. /\ DOMAIN queueScheduled' = DOMAIN queueScheduled \union {m}
      /\ DOMAIN scheduledMessages' = DOMAIN scheduledMessages \union {m}
  BY <1>1, PutDomains
<1>5. /\ \A x \in DOMAIN queueScheduled' :
           queueScheduled'[x] = IF x = m THEN n.wait ELSE queueScheduled[x]
      /\ \A x \in DOMAIN scheduledMessages' :
           scheduledMessages'[x] = IF x = m THEN n.text ELSE scheduledMessages[x]
  BY <1>1 DEF Put, With
<1>6. ~Read(m) /\ ~Sending(m) /\ m \notin started /\ sent[m] = 0
  BY <1>2 DEF Read, Sending, InBatch, SchedInv, OnlyProduced, SchedTypes, HistoryTypes, Budget, Counted
<1>7. age'[m] = 0 /\ \A x \in MessageId : x # m => age'[x] = age[x]
  BY <1>2 DEF SchedTypes, HistoryTypes
<1>8. n.wait \in Nat /\ n.wait >= Gap(m) /\ (May(m, 0, n.text) \/ ToInstant(m, n.wait))
  <2>1. /\ reset \in Text /\ reset.repeatCount = 0 /\ reset.delayed = FALSE /\ reset.cronFired = FALSE
        /\ reset.repeatCount <= ScheduledRepeat[m] /\ clock \in 0..(Cycle - 1)
    BY SchedulerAssumption DEF reset, Text, SchedTypes
  <2>2. PICK next : next = getNextScheduledTimestamp(m, reset) OBVIOUS
  <2>3. /\ n.wait \in Nat /\ TextFits(m, n.text)
        /\ \/ /\ ScheduledDelay[m] > 0
              /\ n.wait = ScheduledDelay[m] /\ n.text.repeatCount = 0
           \/ /\ ScheduledDelay[m] = 0 /\ ScheduledCron[m] = 0
              /\ n.wait = ScheduledPeriod[m] /\ n.text.repeatCount = 1
           \/ ScheduledDelay[m] = 0 /\ ToInstant(m, n.wait)
    <3>1. next # {} BY <1>1, <2>2
    <3>2. n \in next BY <1>1, <2>2
    <3>3. PICK p : /\ next = {p} /\ p.wait \in Nat /\ TextFits(m, p.text)
                   /\ \/ /\ ScheduledDelay[m] > 0 /\ ~reset.delayed
                         /\ p.wait = ScheduledDelay[m] /\ p.text.repeatCount = reset.repeatCount
                      \/ /\ ScheduledDelay[m] = 0 \/ reset.delayed
                         /\ ScheduledCron[m] = 0 \/ reset.cronFired
                         /\ p.wait = ScheduledPeriod[m]
                         /\ p.text.repeatCount = reset.repeatCount + 1
                      \/ /\ ScheduledDelay[m] = 0 \/ reset.delayed
                         /\ ToInstant(m, p.wait) /\ p.wait > 0
      BY <2>1, <2>2, <3>1, NextCases
    <3>4. p = n BY <3>2, <3>3
    <3> QED BY <2>1, <3>3, <3>4
  <2>4. ScheduledCron[m] \in Nat /\ ScheduledDelay[m] \in Nat BY Numbers
  <2>5. May(m, 0, n.text) \/ ToInstant(m, n.wait) BY <2>3, <2>4 DEF May
  <2>6. n.wait >= Gap(m) BY <1>6, <2>3, <2>4 DEF Gap, ToInstant
  <2> QED BY <2>3, <2>5, <2>6
<1>9. BatchPhases' BY <1>2 DEF Budget, BatchPhases
<1>10. ScheduledFit'
  <2> SUFFICES ASSUME NEW x \in DOMAIN queueScheduled', ~Sending(x)'
               PROVE  /\ queueScheduled'[x] + age'[x] >= Gap(x)'
                      /\ \/ May(x, sent'[x], scheduledMessages'[x])
                         \/ ToInstant(x, queueScheduled[x])' /\ ~Read(x)'
    BY DEF ScheduledFit
  <2>1. ToInstant(x, queueScheduled[x])' <=> ToInstant(x, queueScheduled'[x])
    BY <1>2 DEF ToInstant
  <2>2. CASE x = m
    <3>1. queueScheduled'[m] = n.wait /\ scheduledMessages'[m] = n.text BY <1>4, <1>5
    <3> QED BY <1>2, <1>3, <1>6, <1>7, <1>8, <2>1, <2>2, <3>1
  <2>3. CASE x # m
    <3>1. x \in DOMAIN queueScheduled /\ x \in DOMAIN scheduledMessages /\ x \in MessageId
      BY <1>4, <2>3 DEF SchedInv, IdsHaveTexts, SchedTypes, ScheduleTypes
    <3>2. queueScheduled'[x] = queueScheduled[x] /\ scheduledMessages'[x] = scheduledMessages[x]
      BY <1>4, <1>5, <2>3, <3>1
    <3> QED BY <1>2, <1>3, <1>7, <2>1, <2>3, <3>1, <3>2 DEF Budget, ScheduledFit
  <2> QED BY <2>2, <2>3
<1>11. ReadFit'
  <2> SUFFICES ASSUME NEW x \in MessageId, Read(x)'
               PROVE  /\ age'[x] >= Gap(x)'
                      /\ x \in DOMAIN scheduledMessages' => May(x, sent'[x], scheduledMessages'[x])
    BY DEF ReadFit
  <2>1. x # m /\ Read(x) BY <1>3, <1>6
  <2> QED BY <1>2, <1>3, <1>4, <1>5, <1>7, <2>1 DEF Budget, ReadFit
<1>12. MultisFit'
  <2> SUFFICES ASSUME NEW w \in Worker, NEW k \in multis'[w]
               PROVE  /\ age'[k.id] >= Gap(k.id)'
                      /\ sent'[k.id] + 1 <= Limit(k.id)
                      /\ \A p \in k.next : /\ p.wait >= GapAfter(k.id)
                                           /\ \/ May(k.id, sent'[k.id] + 1, p.text)
                                              \/ ToInstant(k.id, p.wait)'
    BY DEF MultisFit
  <2>1. k \in multis[w] BY <1>2
  <2>2. k.id # m /\ k.id \in MessageId BY <1>6, <2>1 DEF Sending, SchedTypes, MultiTypes
  <2> QED BY <1>2, <1>3, <1>7, <2>1, <2>2 DEF Budget, MultisFit
<1>13. Counted' BY <1>2 DEF Budget, Counted
<1> QED BY <1>9, <1>10, <1>11, <1>12, <1>13 DEF Budget

\* Time passes while nothing is being sent: what is due stays due, and a count
\* starts again exactly when the wait for its instant ends.
LEMMA TickBudget ==
  ASSUME SchedInv, SchedTypes, Budget, SchedTypes', Tick
  PROVE  Budget'
<1>1. /\ clock' = (clock + 1) % Cycle
      /\ queueScheduled' = [m \in DOMAIN queueScheduled |->
                              IF queueScheduled[m] > 0 THEN queueScheduled[m] - 1 ELSE 0]
      /\ age' = [m \in MessageId |-> IF age[m] < MaxAge(m) THEN age[m] + 1 ELSE age[m]]
      /\ UNCHANGED <<scheduledMessages, pc, ids, multis, produced, started>>
      /\ \A w \in Worker : multis[w] = {}
  BY DEF Tick, InFlight, workerVars
<1>2. \A m \in MessageId :
        sent'[m] = IF ScheduledCron[m] > 0 /\ clock' % ScheduledCron[m] = 0 THEN 0 ELSE sent[m]
  BY DEF Tick
<1>3. \A m \in MessageId : sent'[m] <= sent[m] /\ sent'[m] \in Nat
  BY <1>2, Numbers
<1>4. /\ \A m : Read(m)' <=> Read(m)
      /\ \A m : Gap(m)' = Gap(m)
      /\ \A m : ~Sending(m)
  BY <1>1 DEF Read, Sending, Gap
<1>5. \A m \in MessageId : age'[m] >= Gap(m) \/ age'[m] = age[m] + 1
  BY <1>1, Numbers
<1>6. \A m \in MessageId : age[m] >= Gap(m) => age'[m] >= Gap(m)
  BY <1>5, Numbers
<1>7. BatchPhases' BY <1>1 DEF Budget, BatchPhases
<1>8. \A m \in MessageId : m \in DOMAIN scheduledMessages /\ May(m, sent[m], scheduledMessages[m])
                             => May(m, sent'[m], scheduledMessages[m])
  BY <1>3, MayFacts, Numbers DEF SchedTypes, ScheduleTypes
<1>9. ScheduledFit'
  <2> SUFFICES ASSUME NEW m \in DOMAIN queueScheduled'
               PROVE  /\ queueScheduled'[m] + age'[m] >= Gap(m)'
                      /\ \/ May(m, sent'[m], scheduledMessages'[m])
                         \/ ToInstant(m, queueScheduled[m])' /\ ~Read(m)'
    BY DEF ScheduledFit
  <2>1. m \in DOMAIN queueScheduled /\ m \in DOMAIN scheduledMessages /\ m \in MessageId
        /\ queueScheduled[m] \in Nat
    BY <1>1 DEF SchedInv, IdsHaveTexts, SchedTypes, ScheduleTypes
  <2>2. queueScheduled'[m] = IF queueScheduled[m] > 0 THEN queueScheduled[m] - 1 ELSE 0
    BY <1>1, <2>1
  <2>3. /\ queueScheduled[m] + age[m] >= Gap(m)
        /\ \/ May(m, sent[m], scheduledMessages[m])
           \/ ToInstant(m, queueScheduled[m]) /\ ~Read(m)
    BY <1>4, <2>1 DEF Budget, ScheduledFit
  <2>4. queueScheduled'[m] + age'[m] >= Gap(m)'
    <3>1. age[m] \in Nat /\ Gap(m) \in Nat /\ age'[m] \in Nat
      BY <1>1, <2>1, Numbers
    <3> QED BY <1>4, <1>5, <2>1, <2>2, <2>3, <3>1
  <2>5. CASE May(m, sent[m], scheduledMessages[m]) BY <1>1, <1>8, <2>1, <2>4, <2>5
  <2>6. CASE ToInstant(m, queueScheduled[m]) /\ ~Read(m)
    <3>1. PICK C \in Nat \ {0} : C = ScheduledCron[m]
      BY <2>1, <2>6, Numbers DEF ToInstant
    <3>2. PICK r : r = clock % C OBVIOUS
    <3>3. PICK u : u = clock' % C OBVIOUS
    <3>4. r \in 0..(C - 1) /\ (u = 0 \/ u = r + 1)
      <4>1. clock \in 0..(Cycle - 1) /\ Cycle \in Nat \ {0} BY SchedulerAssumption DEF SchedTypes
      <4> QED BY <1>1, <3>2, <3>3, <4>1, NextInstant
    <3>5. queueScheduled[m] = C - r BY <2>6, <3>1, <3>2 DEF ToInstant
    <3>6. CASE u = 0
      <4>1. sent'[m] = 0 BY <1>2, <2>1, <3>1, <3>3, <3>6
      <4>2. TextFits(m, scheduledMessages[m]) BY <2>1 DEF SchedTypes, ScheduleTypes
      <4>3. May(m, 0, scheduledMessages[m]) BY <3>1, <4>2 DEF May, TextFits, Text
      <4> QED BY <1>1, <2>4, <4>1, <4>3
    <3>7. CASE u = r + 1
      <4>1. queueScheduled'[m] = C - u BY <2>2, <3>4, <3>5, <3>7
      <4>2. ToInstant(m, queueScheduled[m])' BY <3>1, <3>3, <4>1 DEF ToInstant
      <4> QED BY <1>4, <2>4, <2>6, <4>2
    <3> QED BY <3>4, <3>6, <3>7
  <2> QED BY <2>3, <2>5, <2>6
<1>10. ReadFit' BY <1>1, <1>4, <1>6, <1>8 DEF Budget, ReadFit
<1>11. MultisFit' BY <1>1 DEF MultisFit
<1>12. Counted' BY <1>1, <1>3, Numbers DEF Budget, Counted
<1> QED BY <1>7, <1>9, <1>10, <1>11, <1>12 DEF Budget

\* The first read of the worker: what is due is within the bound, as the wait
\* for an instant is over only when the instant has come.
LEMMA FetchIdsBudget ==
  ASSUME OneWorker, SchedInv, SchedTypes, Budget, NEW w \in Worker, fetchIds(w)
  PROVE  Budget'
<1>1. PICK due : due = {m \in DOMAIN queueScheduled : queueScheduled[m] = 0} OBVIOUS
<1>2. /\ pc[w] = "waiting" /\ ids' = [ids EXCEPT ![w] = due] /\ pc' = [pc EXCEPT ![w] = "fetched"]
      /\ UNCHANGED <<clock, queueScheduled, scheduledMessages, multis, produced, sent, started, age>>
  BY <1>1 DEF fetchIds, scheduleVars, sentVars
<1>3. multis[w] = {} /\ ids'[w] = due /\ pc'[w] = "fetched"
  BY <1>2 DEF Budget, BatchPhases, SchedTypes
<1>4. \A v \in Worker : v = w BY DEF OneWorker
<1>5. /\ \A m : ~Sending(m) /\ ~Sending(m)'
      /\ \A m : Read(m)' <=> m \in due
      /\ \A m : Gap(m)' = Gap(m)
  BY <1>2, <1>3, <1>4 DEF Sending, Read, Gap
<1>6. BatchPhases' BY <1>2, <1>3, <1>4 DEF BatchPhases
<1>7. ASSUME NEW m \in due
      PROVE  /\ m \in DOMAIN queueScheduled /\ m \in MessageId
             /\ age[m] >= Gap(m) /\ May(m, sent[m], scheduledMessages[m])
  <2>1. m \in DOMAIN queueScheduled /\ queueScheduled[m] = 0 /\ m \in MessageId
    BY <1>1 DEF SchedTypes, ScheduleTypes
  <2>2. /\ queueScheduled[m] + age[m] >= Gap(m)
        /\ May(m, sent[m], scheduledMessages[m]) \/ ToInstant(m, queueScheduled[m])
    BY <1>5, <2>1 DEF Budget, ScheduledFit
  <2>3. ~ToInstant(m, 0)
    <3> SUFFICES ASSUME ToInstant(m, 0) PROVE FALSE OBVIOUS
    <3>1. PICK C \in Nat \ {0} : C = ScheduledCron[m] BY <2>1, Numbers DEF ToInstant
    <3>2. clock % C \in 0..(C - 1)
      <4>1. clock \in 0..(Cycle - 1) /\ Cycle \in Nat \ {0} BY SchedulerAssumption DEF SchedTypes
      <4> QED BY <4>1, Division
    <3> QED BY <3>1, <3>2 DEF ToInstant
  <2>4. age[m] >= Gap(m) BY <2>1, <2>2, Numbers
  <2> QED BY <2>1, <2>2, <2>3, <2>4
<1>8. ScheduledFit'
  <2> SUFFICES ASSUME NEW m \in DOMAIN queueScheduled'
               PROVE  /\ queueScheduled'[m] + age'[m] >= Gap(m)'
                      /\ \/ May(m, sent'[m], scheduledMessages'[m])
                         \/ ToInstant(m, queueScheduled[m])' /\ ~Read(m)'
    BY DEF ScheduledFit
  <2>1. ToInstant(m, queueScheduled[m])' <=> ToInstant(m, queueScheduled[m])
    BY <1>2 DEF ToInstant
  <2>2. m \in DOMAIN queueScheduled BY <1>2
  <2>3. /\ queueScheduled[m] + age[m] >= Gap(m)
        /\ May(m, sent[m], scheduledMessages[m]) \/ ToInstant(m, queueScheduled[m])
    BY <1>5, <2>2 DEF Budget, ScheduledFit
  <2> QED BY <1>2, <1>5, <1>7, <2>1, <2>3
<1>9. ReadFit' BY <1>2, <1>5, <1>7 DEF ReadFit
<1>10. MultisFit' BY <1>2, <1>3, <1>4 DEF MultisFit
<1>11. Counted' BY <1>2 DEF Budget, Counted
<1> QED BY <1>6, <1>8, <1>9, <1>10, <1>11 DEF Budget

\* The second read: each MULTI enqueues what its text announced, and its next
\* text announces one more, or waits for an instant.
LEMMA FetchMessagesBudget ==
  ASSUME OneWorker, SchedInv, SchedTypes, Budget, NEW w \in Worker, fetchMessages(w)
  PROVE  Budget'
<1>1. PICK S : /\ S \subseteq ids[w] /\ S \subseteq DOMAIN scheduledMessages
               /\ multis' = [multis EXCEPT ![w] = {MultiFor(m) : m \in S}]
               /\ pc' = [pc EXCEPT ![w] = "enqueuing"] \/ pc' = [pc EXCEPT ![w] = "panicking"]
  <2>1. CASE ids[w] \cap DOMAIN scheduledMessages = ids[w] BY <2>1 DEF fetchMessages
  <2>2. CASE ids[w] \cap DOMAIN scheduledMessages # ids[w]
    <3>1. /\ \E before \in SUBSET (ids[w] \cap DOMAIN scheduledMessages) :
               multis' = [multis EXCEPT ![w] = {MultiFor(m) : m \in before}]
          /\ pc' = [pc EXCEPT ![w] = "panicking"]
      BY <2>2 DEF fetchMessages
    <3> QED BY <3>1
  <2> QED BY <2>1, <2>2
<1>2. /\ pc[w] = "fetched" /\ ids' = [ids EXCEPT ![w] = {}]
      /\ UNCHANGED <<clock, queueScheduled, scheduledMessages, produced, sent, started, age>>
  BY DEF fetchMessages, scheduleVars, sentVars
<1>3. /\ multis[w] = {} /\ ids'[w] = {} /\ multis'[w] = {MultiFor(m) : m \in S}
      /\ pc'[w] \in {"enqueuing", "panicking"}
  BY <1>1, <1>2 DEF Budget, BatchPhases, SchedTypes, SchedInv, BatchTypes
<1>4. \A v \in Worker : v = w BY DEF OneWorker
<1>5. /\ \A m : ~Sending(m) /\ ~Read(m)'
      /\ \A m \in S : Read(m)
      /\ \A m : Gap(m)' = Gap(m)
      /\ \A m, x : ToInstant(m, x)' <=> ToInstant(m, x)
  BY <1>1, <1>2, <1>3, <1>4 DEF Sending, Read, Gap, ToInstant
<1>6. \A m : MultiFor(m).id = m BY DEF MultiFor
<1>7. BatchPhases'
  <2>1. \A k, l \in multis'[w] : k.id = l.id => k = l BY <1>3, <1>6
  <2> QED BY <1>3, <1>4, <2>1 DEF BatchPhases
<1>8. ScheduledFit'
  <2> SUFFICES ASSUME NEW m \in DOMAIN queueScheduled'
               PROVE  /\ queueScheduled'[m] + age'[m] >= Gap(m)'
                      /\ \/ May(m, sent'[m], scheduledMessages'[m])
                         \/ ToInstant(m, queueScheduled[m])' /\ ~Read(m)'
    BY DEF ScheduledFit
  <2>1. ToInstant(m, queueScheduled[m])' <=> ToInstant(m, queueScheduled[m])
    BY <1>2 DEF ToInstant
  <2>2. m \in DOMAIN queueScheduled BY <1>2
  <2>3. /\ queueScheduled[m] + age[m] >= Gap(m)
        /\ May(m, sent[m], scheduledMessages[m]) \/ ToInstant(m, queueScheduled[m])
    BY <1>5, <2>2 DEF Budget, ScheduledFit
  <2> QED BY <1>2, <1>5, <2>1, <2>3
<1>9. ReadFit' BY <1>5 DEF ReadFit
<1>10. MultisFit'
  <2> SUFFICES ASSUME NEW k \in multis'[w]
               PROVE  /\ age'[k.id] >= Gap(k.id)'
                      /\ sent'[k.id] + 1 <= Limit(k.id)
                      /\ \A n \in k.next : /\ n.wait >= GapAfter(k.id)
                                           /\ \/ May(k.id, sent'[k.id] + 1, n.text)
                                              \/ ToInstant(k.id, n.wait)'
    BY <1>4 DEF MultisFit
  <2>1. PICK m \in S : k = MultiFor(m) BY <1>3
  <2>2. PICK t : t = scheduledMessages[m] OBVIOUS
  <2>3. PICK next : next = getNextScheduledTimestamp(m, t) OBVIOUS
  <2>4. k.id = m /\ k.next = next BY <2>1, <2>2, <2>3 DEF MultiFor
  <2>5. m \in DOMAIN scheduledMessages /\ m \in MessageId
    BY <1>1, <2>1 DEF SchedTypes, ScheduleTypes
  <2>6. TextFits(m, t) BY <2>2, <2>5 DEF SchedTypes, ScheduleTypes
  <2>7. age[m] >= Gap(m) /\ May(m, sent[m], t) BY <1>5, <2>1, <2>2, <2>5 DEF Budget, ReadFit
  <2>8. /\ ScheduledDelay[m] \in Nat /\ ScheduledPeriod[m] \in Nat /\ ScheduledCron[m] \in Nat
        /\ sent[m] \in Nat
    BY <2>5, Numbers
  <2>9. sent[m] + 1 <= Limit(m) BY <2>5, <2>6, <2>7, <2>8, MayFacts
  <2>10. t \in Text /\ t.repeatCount \in Nat /\ t.repeatCount <= ScheduledRepeat[m]
         /\ (ScheduledDelay[m] > 0 => t.delayed) /\ clock \in 0..(Cycle - 1)
    BY <2>6 DEF TextFits, Text, SchedTypes
  <2>11. ASSUME NEW n \in next
         PROVE  n.wait >= GapAfter(m) /\ (May(m, sent[m] + 1, n.text) \/ ToInstant(m, n.wait))
    <3>1. PICK p : /\ next = {p} /\ p.wait \in Nat /\ TextFits(m, p.text)
                   /\ \/ /\ ScheduledDelay[m] > 0 /\ ~t.delayed
                         /\ p.wait = ScheduledDelay[m] /\ p.text.repeatCount = t.repeatCount
                      \/ /\ ScheduledDelay[m] = 0 \/ t.delayed
                         /\ ScheduledCron[m] = 0 \/ t.cronFired
                         /\ p.wait = ScheduledPeriod[m]
                         /\ p.text.repeatCount = t.repeatCount + 1
                      \/ /\ ScheduledDelay[m] = 0 \/ t.delayed
                         /\ ToInstant(m, p.wait) /\ p.wait > 0
      <4>1. next # {} OBVIOUS
      <4> QED BY <2>3, <2>5, <2>10, <4>1, NextCases
    <3>2. p = n BY <3>1
    <3>3. CASE n.wait = ScheduledPeriod[m] /\ n.text.repeatCount = t.repeatCount + 1
      <4>1. n.wait >= GapAfter(m) BY <2>8, <3>3 DEF GapAfter
      <4>2. May(m, sent[m] + 1, n.text) BY <2>7, <2>8, <2>10, <3>3 DEF May
      <4> QED BY <4>1, <4>2
    <3>4. CASE ToInstant(m, n.wait) /\ n.wait > 0
      BY <2>8, <3>1, <3>2, <3>4 DEF GapAfter, ToInstant
    <3> QED BY <2>10, <3>1, <3>2, <3>3, <3>4
  <2> QED BY <1>2, <1>5, <2>4, <2>7, <2>9, <2>11
<1>11. Counted' BY <1>2 DEF Budget, Counted
<1> QED BY <1>7, <1>8, <1>9, <1>10, <1>11 DEF Budget

\* One MULTI: the delivery is counted, and the text that takes the place of
\* the old one has room for another.
LEMMA EnqueueBudget ==
  ASSUME OneWorker, SchedInv, SchedTypes, Budget, SchedTypes',
         NEW w \in Worker, NEW k \in multis[w], enqueue(w, k)
  PROVE  Budget'
<1>1. PICK m \in MessageId : m = k.id BY DEF SchedTypes, MultiTypes
<1>2. /\ multis' = [multis EXCEPT ![w] = @ \ {k}]
      /\ sent' = [sent EXCEPT ![m] = IF @ < MaxSent THEN @ + 1 ELSE @]
      /\ started' = started \union {m}
      /\ age' = [age EXCEPT ![m] = 0]
      /\ UNCHANGED <<clock, pc, ids, produced>>
  BY <1>1 DEF enqueue, Sends
<1>3. \A v \in Worker : v = w BY DEF OneWorker
<1>4. multis'[w] = multis[w] \ {k} /\ pc[w] \in {"enqueuing", "panicking"} /\ ids[w] = {}
  BY <1>2 DEF SchedInv, BatchTypes, Budget, BatchPhases
<1>5. /\ \A x : ~Read(x) /\ ~Read(x)'
      /\ ~Sending(m)'
      /\ \A x : x # m => (Sending(x)' <=> Sending(x))
  <2>1. \A x : ~Read(x) /\ ~Read(x)' BY <1>2, <1>3, <1>4 DEF Read
  <2>2. \A l \in multis'[w] : l \in multis[w] /\ l.id # m
    BY <1>1, <1>4 DEF Budget, BatchPhases
  <2>3. ~Sending(m)' BY <1>3, <2>2 DEF Sending
  <2>4. \A x : x # m => (Sending(x)' <=> Sending(x)) BY <1>1, <1>3, <1>4 DEF Sending
  <2> QED BY <2>1, <2>3, <2>4
<1>6. /\ \A x \in MessageId : x # m => sent'[x] = sent[x] /\ age'[x] = age[x] /\ Gap(x)' = Gap(x)
      /\ age'[m] = 0
  <2>1. \A x \in MessageId : x # m => Gap(x)' = Gap(x) BY <1>2 DEF Gap
  <2>2. age'[m] = 0 /\ \A x \in MessageId : x # m => age'[x] = age[x]
    BY <1>2 DEF SchedTypes, HistoryTypes
  <2>3. \A x \in MessageId : x # m => sent'[x] = sent[x]
    BY <1>2 DEF SchedTypes, HistoryTypes
  <2> QED BY <2>1, <2>2, <2>3
<1>7. Gap(m)' = GapAfter(m)
  <2>1. m \in started' BY <1>2
  <2> QED BY <2>1 DEF Gap, GapAfter
<1>8. sent[m] \in Nat /\ sent'[m] \in Nat /\ sent'[m] <= sent[m] + 1 /\ Limit(m) \in Nat
  BY <1>2, Numbers, SchedulerAssumption DEF SchedTypes, HistoryTypes
<1>9. /\ sent[m] + 1 <= Limit(m)
      /\ \A n \in k.next : /\ n.wait >= GapAfter(m)
                           /\ May(m, sent[m] + 1, n.text) \/ ToInstant(m, n.wait)
  BY <1>1 DEF Budget, MultisFit
<1>10. \A x, y : ToInstant(x, y)' <=> ToInstant(x, y) BY <1>2 DEF ToInstant
<1>11. BatchPhases' BY <1>2, <1>3, <1>4 DEF Budget, BatchPhases
<1>12. ASSUME NEW x \in DOMAIN queueScheduled', ~Sending(x)', x # m,
              x \in DOMAIN queueScheduled, queueScheduled'[x] = queueScheduled[x],
              scheduledMessages'[x] = scheduledMessages[x]
       PROVE  /\ queueScheduled'[x] + age'[x] >= Gap(x)'
              /\ \/ May(x, sent'[x], scheduledMessages'[x])
                 \/ ToInstant(x, queueScheduled[x])' /\ ~Read(x)'
  <2>1. x \in MessageId BY DEF SchedTypes, ScheduleTypes
  <2>2. ToInstant(x, queueScheduled[x])' <=> ToInstant(x, queueScheduled[x])
    BY <1>2, <1>12 DEF ToInstant
  <2>3. /\ queueScheduled[x] + age[x] >= Gap(x)
        /\ May(x, sent[x], scheduledMessages[x]) \/ ToInstant(x, queueScheduled[x])
    BY <1>5, <1>12 DEF Budget, ScheduledFit
  <2> QED BY <1>5, <1>6, <1>12, <2>1, <2>2, <2>3
<1>13. ScheduledFit'
  <2> SUFFICES ASSUME NEW x \in DOMAIN queueScheduled', ~Sending(x)'
               PROVE  /\ queueScheduled'[x] + age'[x] >= Gap(x)'
                      /\ \/ May(x, sent'[x], scheduledMessages'[x])
                         \/ ToInstant(x, queueScheduled[x])' /\ ~Read(x)'
    BY DEF ScheduledFit
  <2>1. ASSUME NEW n \in k.next, Put(m, n)
        PROVE  /\ queueScheduled'[x] + age'[x] >= Gap(x)'
               /\ \/ May(x, sent'[x], scheduledMessages'[x])
                  \/ ToInstant(x, queueScheduled[x])' /\ ~Read(x)'
    <3>1. /\ DOMAIN queueScheduled' = DOMAIN queueScheduled \union {m}
          /\ DOMAIN scheduledMessages' = DOMAIN scheduledMessages \union {m}
      BY <2>1, PutDomains
    <3>2. /\ \A y \in DOMAIN queueScheduled' :
               queueScheduled'[y] = IF y = m THEN n.wait ELSE queueScheduled[y]
          /\ \A y \in DOMAIN scheduledMessages' :
               scheduledMessages'[y] = IF y = m THEN n.text ELSE scheduledMessages[y]
      BY <2>1 DEF Put, With
    <3>3. CASE x = m
      <4>1. queueScheduled'[m] = n.wait /\ scheduledMessages'[m] = n.text BY <3>1, <3>2
      <4>2. ToInstant(m, queueScheduled[m])' <=> ToInstant(m, n.wait)
        BY <1>2, <4>1 DEF ToInstant
      <4>3. n.wait \in Nat /\ TextFits(m, n.text)
        BY <1>1, <2>1 DEF SchedTypes, MultiTypes, NextFits
      <4>4. May(m, sent[m] + 1, n.text) => May(m, sent'[m], n.text)
        <5>1. sent[m] + 1 \in Nat BY <1>8
        <5> QED BY <1>8, <4>3, <5>1, MayFacts
      <4>5. queueScheduled'[m] + age'[m] >= Gap(m)'
        BY <1>6, <1>7, <1>9, <4>1, <4>3
      <4> QED BY <1>5, <1>9, <3>3, <4>1, <4>2, <4>4, <4>5
    <3>4. CASE x # m
      <4>1. x \in DOMAIN queueScheduled /\ x \in DOMAIN scheduledMessages
        BY <3>1, <3>4 DEF SchedInv, IdsHaveTexts
      <4>2. queueScheduled'[x] = queueScheduled[x] /\ scheduledMessages'[x] = scheduledMessages[x]
        BY <3>1, <3>2, <3>4, <4>1
      <4> QED BY <1>12, <3>4, <4>1, <4>2
    <3> QED BY <3>3, <3>4
  <2>2. ASSUME Drop(m)
        PROVE  /\ queueScheduled'[x] + age'[x] >= Gap(x)'
               /\ \/ May(x, sent'[x], scheduledMessages'[x])
                  \/ ToInstant(x, queueScheduled[x])' /\ ~Read(x)'
    <3>1. /\ DOMAIN queueScheduled' = DOMAIN queueScheduled \ {m}
          /\ DOMAIN scheduledMessages' = DOMAIN scheduledMessages \ {m}
      BY <2>2, DropDomains
    <3>2. /\ \A y \in DOMAIN queueScheduled' : queueScheduled'[y] = queueScheduled[y]
          /\ \A y \in DOMAIN scheduledMessages' : scheduledMessages'[y] = scheduledMessages[y]
      BY <2>2 DEF Drop, Without, Restrict
    <3>3. x # m /\ x \in DOMAIN queueScheduled /\ x \in DOMAIN scheduledMessages'
      BY <3>1 DEF SchedInv, IdsHaveTexts
    <3> QED BY <1>12, <3>2, <3>3
  <2> QED BY <1>1, <2>1, <2>2 DEF enqueue
<1>14. ReadFit' BY <1>5 DEF ReadFit
<1>15. MultisFit'
  <2> SUFFICES ASSUME NEW l \in multis'[w]
               PROVE  /\ age'[l.id] >= Gap(l.id)'
                      /\ sent'[l.id] + 1 <= Limit(l.id)
                      /\ \A n \in l.next : /\ n.wait >= GapAfter(l.id)
                                           /\ \/ May(l.id, sent'[l.id] + 1, n.text)
                                              \/ ToInstant(l.id, n.wait)'
    BY <1>3 DEF MultisFit
  <2>1. l \in multis[w] /\ l.id # m /\ l.id \in MessageId
    BY <1>1, <1>4 DEF Budget, BatchPhases, SchedTypes, MultiTypes
  <2> QED BY <1>6, <1>10, <2>1 DEF Budget, MultisFit
<1>16. Counted'
  <2>1. m \in produced BY <1>1 DEF SchedInv, OnlyProduced, InBatch
  <2> QED BY <1>2, <1>6, <1>8, <1>9, <2>1 DEF Budget, Counted
<1> QED BY <1>11, <1>13, <1>14, <1>15, <1>16 DEF Budget

\* A deletion or a purge only takes out of the schedule; the other steps of
\* the worker and of the callers leave it alone.
LEMMA RestBudget ==
  ASSUME SchedInv, SchedTypes, Budget, SchedInv', SchedTypes',
         \/ \E w \in Worker : BatchEnds(w) \/ TakeOver(w)
         \/ \E r \in Caller : \/ \E m \in produced : deleteScheduled(r, m)
                              \/ lockFN(r) \/ DeleteExec(r) \/ releaseLock(r)
         \/ purgeScheduledMessagesQueue
         \/ UNCHANGED schedVars
  PROVE  Budget'
<1>1. ASSUME NEW w \in Worker, BatchEnds(w) \/ TakeOver(w) PROVE Budget'
  <2>1. /\ UNCHANGED <<clock, ids, multis, sent, started, age, produced, queueScheduled,
                       scheduledMessages>>
        /\ \A v \in Worker : v # w => pc'[v] = pc[v]
    BY <1>1 DEF BatchEnds, TakeOver, scheduleVars, sentVars, SchedTypes
  <2>2. ids[w] = {} /\ multis[w] = {}
    BY <1>1 DEF BatchEnds, TakeOver, Budget, BatchPhases
  <2> QED BY <2>1, <2>2, BudgetFrame
<1>2. ASSUME NEW r \in Caller,
             \/ \E m \in produced : deleteScheduled(r, m)
             \/ lockFN(r)
             \/ releaseLock(r)
      PROVE  Budget'
  <2>1. UNCHANGED <<clock, ids, multis, sent, started, age, pc, produced, queueScheduled,
                    scheduledMessages>>
    BY <1>2 DEF deleteScheduled, lockFN, releaseLock, scheduleVars, workerVars, sentVars
  <2> QED BY <2>1, BudgetFrame
<1>3. ASSUME NEW r \in Caller, DeleteExec(r) PROVE Budget'
  <2>1. /\ UNCHANGED <<clock, ids, multis, sent, started, age, pc, produced>>
        /\ Drop(target[r])
    BY <1>3 DEF DeleteExec, workerVars, sentVars
  <2>2. /\ DOMAIN queueScheduled' \subseteq DOMAIN queueScheduled
        /\ DOMAIN scheduledMessages' \subseteq DOMAIN scheduledMessages
    BY <2>1, DropDomains
  <2>3. /\ \A m \in DOMAIN queueScheduled' : queueScheduled'[m] = queueScheduled[m]
        /\ \A m \in DOMAIN scheduledMessages' : scheduledMessages'[m] = scheduledMessages[m]
    BY <2>1 DEF Drop, Without, Restrict
  <2> QED BY <2>1, <2>2, <2>3, BudgetFrame
<1>4. ASSUME purgeScheduledMessagesQueue PROVE Budget'
  <2>1. /\ UNCHANGED <<clock, ids, multis, sent, started, age, pc, produced, scheduledMessages>>
        /\ DOMAIN queueScheduled' = {}
    BY <1>4 DEF purgeScheduledMessagesQueue, workerVars, sentVars
  <2> QED BY <2>1, BudgetFrame
<1>5. ASSUME UNCHANGED schedVars PROVE Budget'
  <2>1. UNCHANGED <<clock, ids, multis, sent, started, age, pc, produced, queueScheduled,
                    scheduledMessages>>
    BY <1>5 DEF schedVars, scheduleVars, workerVars, sentVars
  <2> QED BY <2>1, BudgetFrame
<1> QED BY <1>1, <1>2, <1>3, <1>4, <1>5

\* The inductive invariant of one schedule worker.
BudgetInv == SchedInv /\ SchedTypes /\ Budget

LEMMA BudgetInit == SchedInit => BudgetInv
<1> SUFFICES ASSUME SchedInit PROVE Budget BY SchedInvInit, SchedTypesInit DEF BudgetInv
<1>1. \A m \in MessageId : sent[m] = 0 /\ sent[m] <= Limit(m)
  BY SchedTypesInit, Numbers DEF SchedInit
<1>2. DOMAIN queueScheduled = {} BY DEF SchedInit
<1> QED BY <1>1, <1>2
        DEF SchedInit, Budget, BatchPhases, ScheduledFit, ReadFit, Read, MultisFit, Counted

LEMMA BudgetNext == OneWorker /\ BudgetInv /\ [SchedNext]_schedVars => BudgetInv'
<1> SUFFICES ASSUME OneWorker, BudgetInv, [SchedNext]_schedVars PROVE BudgetInv' OBVIOUS
<1>1. SchedInv /\ SchedTypes /\ Budget /\ SchedInv' /\ SchedTypes'
  BY SchedInvNext, SchedTypesNext DEF BudgetInv
<1>2. CASE \E m \in MessageId : schedule(m) BY <1>1, <1>2, ScheduleBudget DEF BudgetInv
<1>3. CASE Tick BY <1>1, <1>3, TickBudget DEF BudgetInv
<1>4. ASSUME NEW w \in Worker, ScheduleWorkerStep(w) PROVE BudgetInv'
  <2>1. CASE fetchIds(w) BY <1>1, <2>1, FetchIdsBudget DEF BudgetInv
  <2>2. CASE fetchMessages(w) BY <1>1, <2>2, FetchMessagesBudget DEF BudgetInv
  <2>3. CASE \E k \in multis[w] : enqueue(w, k) BY <1>1, <2>3, EnqueueBudget DEF BudgetInv
  <2>4. CASE BatchEnds(w) \/ TakeOver(w) BY <1>1, <2>4, RestBudget DEF BudgetInv
  <2> QED BY <1>4, <2>1, <2>2, <2>3, <2>4 DEF ScheduleWorkerStep
<1>5. CASE \E r \in Caller : \/ \E m \in produced : deleteScheduled(r, m)
                             \/ lockFN(r) \/ DeleteExec(r) \/ releaseLock(r)
  BY <1>1, <1>5, RestBudget DEF BudgetInv
<1>6. CASE purgeScheduledMessagesQueue BY <1>1, <1>6, RestBudget DEF BudgetInv
<1>7. CASE UNCHANGED schedVars BY <1>1, <1>7, RestBudget DEF BudgetInv
<1> QED BY <1>2, <1>3, <1>4, <1>5, <1>6, <1>7 DEF SchedNext

\* A step that counts a delivery is the MULTI of a message that has waited.
LEMMA SentInTime ==
  ASSUME BudgetInv, [SchedNext]_schedVars, NEW m \in MessageId, sent'[m] > sent[m]
  PROVE  age[m] >= Gap(m)
<1>1. sent[m] \in Nat BY Numbers DEF BudgetInv
<1>2. sent'[m] # sent[m] BY <1>1
<1>3. ~Tick
  <2>1. Tick => sent'[m] = 0 \/ sent'[m] = sent[m] BY DEF Tick
  <2> QED BY <1>1, <2>1
<1>4. PICK w \in Worker : \E k \in multis[w] : enqueue(w, k)
  <2>1. sent' # sent BY <1>2
  <2> QED BY <1>3, <2>1
          DEF SchedNext, schedVars, sentVars, schedule, ScheduleWorkerStep, fetchIds, fetchMessages,
              BatchEnds, TakeOver, deleteScheduled, lockFN, DeleteExec, releaseLock,
              purgeScheduledMessagesQueue
<1>5. PICK k \in multis[w] : enqueue(w, k) BY <1>4
<1>6. k.id = m
  BY <1>2, <1>5 DEF enqueue, Sends, BudgetInv, SchedTypes, HistoryTypes
<1> QED BY <1>5, <1>6 DEF BudgetInv, Budget, MultisFit

\* That is what is promised, and one more for a combined message.
LEMMA LimitIsPromised ==
  ASSUME NEW m \in MessageId
  PROVE  /\ ~Combined(m) => Limit(m) = Promised(m)
         /\ Combined(m) => Limit(m) = Promised(m) + 1
<1>1. PICK d \in Nat, r \in Nat, c \in Nat :
        d = ScheduledDelay[m] /\ r = ScheduledRepeat[m] /\ c = ScheduledCron[m]
  BY SchedulerAssumption
<1>2. d + r + c > 0 BY <1>1, SchedulerAssumption
<1>3. Promised(m) = IF r > 0 THEN r ELSE 1 BY <1>1 DEF Promised
<1>4. Limit(m) = IF c = 0 /\ d = 0 THEN r ELSE r + 1 BY <1>1 DEF Limit
<1>5. Combined(m) <=> r > 0 /\ d + c > 0 BY <1>1 DEF Combined
<1> QED BY <1>2, <1>3, <1>4, <1>5

\* One schedule worker never enqueues a message that is only repeated, only
\* delayed or only given a CRON expression more often than promised, for any
\* delay, number of repeats, period and CRON expression, however late its
\* reads are and whatever is deleted, purged or produced between them.
THEOREM NeverTooOften ==
  ASSUME OneWorker
  PROVE  SchedSpec => []DeliveriesBounded
<1>1. BudgetInv /\ [SchedNext]_schedVars => BudgetInv' BY BudgetNext
<1>2. BudgetInv => DeliveriesBounded
  BY LimitIsPromised DEF BudgetInv, Budget, Counted, DeliveriesBounded
<1> QED BY <1>1, <1>2, BudgetInit, PTL DEF SchedSpec

\* One whose repeats follow a delay or a CRON instant it enqueues at most once
\* more than promised: the delivery that the code does not count as a repeat.
THEOREM AtMostOneTooMany ==
  ASSUME OneWorker
  PROVE  SchedSpec => []OneTooMany
<1>1. BudgetInv /\ [SchedNext]_schedVars => BudgetInv' BY BudgetNext
<1>2. BudgetInv => OneTooMany
  BY LimitIsPromised DEF BudgetInv, Budget, Counted, OneTooMany
<1> QED BY <1>1, <1>2, BudgetInit, PTL DEF SchedSpec

\* Nor does it enqueue one before its delay, or its period since the last
\* time, is over: a step that counts a delivery of a message finds it aged.
THEOREM NeverTooEarly ==
  ASSUME OneWorker
  PROVE  SchedSpec => NeverEarly
<1>1. BudgetInv /\ [SchedNext]_schedVars => BudgetInv' BY BudgetNext
<1>2. BudgetInv /\ [SchedNext]_schedVars
        => [\A m \in MessageId : sent'[m] > sent[m] => age[m] >= Gap(m)]_schedVars
  BY SentInTime
<1> QED BY <1>1, <1>2, BudgetInit, PTL DEF SchedSpec, NeverEarly
=============================================================================
