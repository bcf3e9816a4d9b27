----------------------------- MODULE Scheduler -----------------------------
(***************************************************************************)
(* Scheduled messages: the producer that schedules them, the schedule      *)
(* worker that enqueues the ones that are due and computes their next      *)
(* timestamps, and the callers that delete or purge them meanwhile.        *)
(*                                                                         *)
(* The schedule is a sorted set of ids (keyQueueScheduled) and a hash from *)
(* ids to texts (keyScheduledMessages).  A timestamp is kept as the time   *)
(* that is left until it, so that time needs no bound: Tick lets one unit  *)
(* of it pass.  The worker may be arbitrarily late with its reads; the     *)
(* MULTIs of a batch reach Redis in the unit in which they were computed.  *)
(***************************************************************************)
EXTENDS Naturals, FiniteSetsExt, Functions

CONSTANTS
  MessageId,        \* the messages, each published once
  ScheduledDelay,   \* ScheduledDelay[m]: scheduledDelay, 0 = not set
  ScheduledRepeat,  \* ScheduledRepeat[m]: scheduledRepeat
  ScheduledPeriod,  \* ScheduledPeriod[m]: scheduledPeriod, 0 = not set
  ScheduledCron,    \* ScheduledCron[m]: time from one instant of its CRON
                    \* expression to the next, 0 = not set
  Worker,           \* the schedule workers that run at the same time
  Caller,           \* the callers of deleteScheduledMessage, once each
  NoOne,            \* no caller, or no message
  Cycle,            \* the clock counts modulo Cycle
  MaxProduced,      \* bound: how many of the messages are produced
  MaxSent           \* bound: where the history variable sent stops counting

ASSUME SchedulerAssumption ==
  /\ ScheduledDelay \in [MessageId -> Nat]
  /\ ScheduledRepeat \in [MessageId -> Nat]
  /\ ScheduledPeriod \in [MessageId -> Nat]
  /\ ScheduledCron \in [MessageId -> Nat]
  /\ Cycle \in Nat \ {0}
  /\ \A m \in MessageId :
       /\ ScheduledDelay[m] + ScheduledRepeat[m] + ScheduledCron[m] > 0
       /\ ScheduledCron[m] > 0 => Cycle % ScheduledCron[m] = 0
  /\ NoOne \notin Caller \union MessageId
  /\ MaxProduced \in Nat /\ MaxSent \in Nat

VARIABLES
  clock,              \* the time of day
  queueScheduled,     \* the sorted set: id -> time left
  scheduledMessages,  \* the hash: id -> text
  pc,                 \* pc[w]: where schedule worker w is
  ids,                \* ids[w]: what ZRANGEBYSCORE has returned to it
  multis,             \* multis[w]: its MULTIs on their way
  lock,               \* keyLockDeleteScheduledMessage
  call,               \* call[r]: where the call of r is
  target,             \* target[r]: the message that r deletes
  produced,           \* the messages produced (history)
  sent,               \* sent[m]: times m was enqueued, since the last CRON
                      \* instant if it has one (history)
  started,            \* the messages that were enqueued (history)
  age,                \* age[m]: time since m was produced or enqueued (history)
  removed,            \* the messages deleted or purged (history)
  gone                \* those of them that no worker had read (history)

scheduleVars == <<queueScheduled, scheduledMessages>>
workerVars == <<pc, ids, multis>>
callVars == <<lock, call, target>>
sentVars == <<sent, started, age>>
removedVars == <<removed, gone>>
schedVars == <<clock, scheduleVars, workerVars, callVars, produced, sentVars,
               removedVars>>

\* What the text of a message says about its schedule, beside the constants.
Text == [delayed : BOOLEAN, cronFired : BOOLEAN, repeatCount : Nat]

\* Message.reset.
reset == [delayed |-> FALSE, cronFired |-> FALSE, repeatCount |-> 0]

Pc == {"waiting", "fetched", "enqueuing", "panicking", "dead"}
Call == {"idle", "asked", "locked", "releasing", "deleted", "refused"}

\* Beyond this age it no longer matters how old message m is.
MaxAge(m) == Max({1, ScheduledDelay[m], ScheduledPeriod[m]})

-----------------------------------------------------------------------------
(***************************************************************************)
(* ScheduleHandler.getNextScheduledTimestamp, as a set of at most one      *)
(* record: the time left until the timestamp, and the text it goes with.   *)
(***************************************************************************)
Due(wait, t) == [wait |-> wait, text |-> t]

\* parseExpression(...).next(): strictly later than now.
cronWait(m) ==
  IF ScheduledCron[m] > 0 THEN {ScheduledCron[m] - (clock % ScheduledCron[m])} ELSE {}

\* Mutant: the repeat that is being scheduled is not counted.
RepeatOffByOne(m, t) ==
  IF t.repeatCount + 1 < ScheduledRepeat[m] THEN {ScheduledPeriod[m]} ELSE {}

repeatWait(m, t) ==
  IF t.repeatCount + 1 <= ScheduledRepeat[m] THEN {ScheduledPeriod[m]} ELSE {}

\* Mutant: the repeat is not counted in the text.
RepeatedUncounted(m, t) == {Due(r, t) : r \in repeatWait(m, t)}

Repeated(m, t) ==
  {Due(r, [t EXCEPT !.repeatCount = @ + 1]) : r \in repeatWait(m, t)}

\* A repeat comes before the next CRON instant, and not before the first one.
RepeatsFirst(m, t) ==
  t.cronFired /\ \E r \in repeatWait(m, t), c \in cronWait(m) : r < c

CronOrRepeat(m, t) ==
  IF cronWait(m) = {} \/ RepeatsFirst(m, t)
    THEN Repeated(m, t)
    ELSE {Due(c, [t EXCEPT !.repeatCount = 0, !.cronFired = TRUE]) : c \in cronWait(m)}

\* Mutant: the delay comes after CRON and repeat.
DelayLast(m, t) ==
  IF CronOrRepeat(m, t) # {} THEN CronOrRepeat(m, t)
  ELSE IF ScheduledDelay[m] > 0 /\ ~t.delayed
    THEN {Due(ScheduledDelay[m], [t EXCEPT !.delayed = TRUE])}
    ELSE {}

\* Mutant: the text does not record that the delay is over.
DelayAgain(m, t) ==
  IF ScheduledDelay[m] > 0 /\ ~t.delayed
    THEN {Due(ScheduledDelay[m], t)}
    ELSE CronOrRepeat(m, t)

getNextScheduledTimestamp(m, t) ==
  IF ScheduledDelay[m] > 0 /\ ~t.delayed
    THEN {Due(ScheduledDelay[m], [t EXCEPT !.delayed = TRUE])}
    ELSE CronOrRepeat(m, t)

Multi == [id : MessageId, next : SUBSET [wait : Nat, text : Text]]

SchedTypeOK ==
  /\ clock \in 0..(Cycle - 1)
  /\ DOMAIN queueScheduled \subseteq MessageId
  /\ \A m \in DOMAIN queueScheduled : queueScheduled[m] \in Nat
  /\ DOMAIN scheduledMessages \subseteq MessageId
  /\ \A m \in DOMAIN scheduledMessages :
       /\ scheduledMessages[m] \in Text
       /\ scheduledMessages[m].repeatCount <= ScheduledRepeat[m]
  /\ pc \in [Worker -> Pc]
  /\ ids \in [Worker -> SUBSET MessageId]
  /\ \A w \in Worker : \A k \in multis[w] :
       /\ k.id \in MessageId
       /\ Cardinality(k.next) <= 1
       /\ \A n \in k.next : n.wait \in Nat /\ n.text \in Text
  /\ lock \in Caller \union {NoOne}
  /\ call \in [Caller -> Call]
  /\ target \in [Caller -> MessageId \union {NoOne}]
  /\ produced \subseteq MessageId
  /\ sent \in [MessageId -> 0..MaxSent]
  /\ started \subseteq produced
  /\ \A m \in MessageId : age[m] \in 0..MaxAge(m)
  /\ gone \subseteq removed /\ removed \subseteq produced

SchedInit ==
  /\ clock = 0
  /\ queueScheduled = <<>>
  /\ scheduledMessages = <<>>
  /\ pc = [w \in Worker |-> "waiting"]
  /\ ids = [w \in Worker |-> {}]
  /\ multis = [w \in Worker |-> {}]
  /\ lock = NoOne
  /\ call = [r \in Caller |-> "idle"]
  /\ target = [r \in Caller |-> NoOne]
  /\ produced = {}
  /\ sent = [m \in MessageId |-> 0]
  /\ started = {}
  /\ age = [m \in MessageId |-> 0]
  /\ removed = {}
  /\ gone = {}

-----------------------------------------------------------------------------
With(f, m, v) == [x \in DOMAIN f \union {m} |-> IF x = m THEN v ELSE f[x]]

\* ZADD and HSET, ZREM and HDEL.
Put(m, n) ==
  /\ queueScheduled' = With(queueScheduled, m, n.wait)
  /\ scheduledMessages' = With(scheduledMessages, m, n.text)

Without(f, m) == Restrict(f, DOMAIN f \ {m})

Drop(m) ==
  /\ queueScheduled' = Without(queueScheduled, m)
  /\ scheduledMessages' = Without(scheduledMessages, m)

\* produceMessage of a schedulable message: reset it, then schedule it.
schedule(m) ==
  /\ m \notin produced /\ Cardinality(produced) < MaxProduced
  /\ produced' = produced \union {m}
  /\ \E n \in getNextScheduledTimestamp(m, reset) : Put(m, n)
  /\ age' = [age EXCEPT ![m] = 0]
  /\ UNCHANGED <<clock, workerVars, callVars, sent, started, removedVars>>

InFlight == \E w \in Worker : multis[w] # {}

\* A unit of time passes.
Tick ==
  LET next == (clock + 1) % Cycle
      instant(m) == ScheduledCron[m] > 0 /\ next % ScheduledCron[m] = 0
  IN
  /\ ~InFlight
  /\ clock' = next
  /\ queueScheduled' = [m \in DOMAIN queueScheduled |->
                          IF queueScheduled[m] > 0 THEN queueScheduled[m] - 1 ELSE 0]
  /\ sent' = [m \in MessageId |-> IF instant(m) THEN 0 ELSE sent[m]]
  /\ age' = [m \in MessageId |-> IF age[m] < MaxAge(m) THEN age[m] + 1 ELSE age[m]]
  /\ UNCHANGED <<scheduledMessages, workerVars, callVars, produced, started,
                 removedVars>>

-----------------------------------------------------------------------------
(***************************************************************************)
(* The schedule worker: enqueueScheduledMessages, then the next tick.      *)
(***************************************************************************)
fetchIds(w) ==
  LET due == {m \in DOMAIN queueScheduled : queueScheduled[m] = 0} IN
  /\ pc[w] = "waiting"
  /\ due # {}
  /\ ids' = [ids EXCEPT ![w] = due]
  /\ pc' = [pc EXCEPT ![w] = "fetched"]
  /\ UNCHANGED <<clock, scheduleVars, multis, callVars, produced, sentVars,
                 removedVars>>

MultiFor(m) ==
  [id |-> m, next |-> getNextScheduledTimestamp(m, scheduledMessages[m])]

\* Mutant: every text of the hash is fetched.
FetchAll(w) ==
  /\ pc[w] = "fetched"
  /\ multis' = [multis EXCEPT ![w] = {MultiFor(m) : m \in DOMAIN scheduledMessages}]
  /\ ids' = [ids EXCEPT ![w] = {}]
  /\ pc' = [pc EXCEPT ![w] = "enqueuing"]
  /\ UNCHANGED <<clock, scheduleVars, callVars, produced, sentVars, removedVars>>

\* HMGET replies: a MULTI per message.  Where the hash has no text for an id,
\* the message that is built from null has no queue, and enqueue throws: the
\* messages before it are enqueued, those after it are not.
fetchMessages(w) ==
  LET found == ids[w] \cap DOMAIN scheduledMessages IN
  /\ pc[w] = "fetched"
  /\ \/ /\ found = ids[w]
        /\ multis' = [multis EXCEPT ![w] = {MultiFor(m) : m \in found}]
        /\ pc' = [pc EXCEPT ![w] = "enqueuing"]
     \/ /\ found # ids[w]
        /\ \E before \in SUBSET found :
             multis' = [multis EXCEPT ![w] = {MultiFor(m) : m \in before}]
        /\ pc' = [pc EXCEPT ![w] = "panicking"]
  /\ ids' = [ids EXCEPT ![w] = {}]
  /\ UNCHANGED <<clock, scheduleVars, callVars, produced, sentVars, removedVars>>

Sends(w, k) ==
  /\ k \in multis[w]
  /\ multis' = [multis EXCEPT ![w] = @ \ {k}]
  /\ sent' = [sent EXCEPT ![k.id] = IF @ < MaxSent THEN @ + 1 ELSE @]
  /\ started' = started \union {k.id}
  /\ age' = [age EXCEPT ![k.id] = 0]
  /\ UNCHANGED <<clock, pc, ids, callVars, produced, removedVars>>

\* One MULTI: RPUSH the message, and schedule it again or remove it.
enqueue(w, k) ==
  /\ Sends(w, k)
  /\ \/ \E n \in k.next : Put(k.id, n)
     \/ k.next = {} /\ Drop(k.id)

\* The batch is done and the ticker armed, or the exception ends the worker.
BatchEnds(w) ==
  /\ pc[w] \in {"enqueuing", "panicking"}
  /\ multis[w] = {}
  /\ pc' = [pc EXCEPT ![w] = IF @ = "panicking" THEN "dead" ELSE "waiting"]
  /\ UNCHANGED <<clock, scheduleVars, ids, multis, callVars, produced, sentVars,
                 removedVars>>

\* The worker of another consumer takes the place of one that has died.
TakeOver(w) ==
  /\ pc[w] = "dead"
  /\ pc' = [pc EXCEPT ![w] = "waiting"]
  /\ UNCHANGED <<clock, scheduleVars, ids, multis, callVars, produced, sentVars,
                 removedVars>>

-----------------------------------------------------------------------------
(***************************************************************************)
(* Deleting one scheduled message, and purging all of them.                *)
(***************************************************************************)
deleteScheduled(r, m) ==
  /\ call[r] = "idle"
  /\ call' = [call EXCEPT ![r] = "asked"]
  /\ target' = [target EXCEPT ![r] = m]
  /\ UNCHANGED <<clock, scheduleVars, workerVars, lock, produced, sentVars,
                 removedVars>>

\* LockManager.lockFN: one try.
lockFN(r) ==
  /\ call[r] = "asked"
  /\ IF lock = NoOne
       THEN lock' = r /\ call' = [call EXCEPT ![r] = "locked"]
       ELSE lock' = lock /\ call' = [call EXCEPT ![r] = "refused"]
  /\ UNCHANGED <<clock, scheduleVars, workerVars, target, produced, sentVars,
                 removedVars>>

\* A schedule worker has read the id of m and not yet finished with it.
InBatch(m) ==
  \E w \in Worker : m \in ids[w] \/ \E k \in multis[w] : k.id = m

\* History: the messages of S leave the schedule.
Leave(S) ==
  /\ removed' = removed \union S
  /\ gone' = gone \union {m \in S : ~InBatch(m)}

\* Mutant: the id stays in the sorted set.
DeleteTextOnly(r) ==
  /\ call[r] = "locked"
  /\ scheduledMessages' = Without(scheduledMessages, target[r])
  /\ Leave({target[r]})
  /\ call' = [call EXCEPT ![r] = "releasing"]
  /\ UNCHANGED <<clock, queueScheduled, workerVars, lock, target, produced, sentVars>>

\* HDEL and ZREM in a MULTI, whether or not the message is there.
DeleteExec(r) ==
  /\ call[r] = "locked"
  /\ Drop(target[r])
  /\ Leave({target[r]})
  /\ call' = [call EXCEPT ![r] = "releasing"]
  /\ UNCHANGED <<clock, workerVars, lock, target, produced, sentVars>>

releaseLock(r) ==
  /\ call[r] = "releasing"
  /\ lock' = NoOne
  /\ call' = [call EXCEPT ![r] = "deleted"]
  /\ UNCHANGED <<clock, scheduleVars, workerVars, target, produced, sentVars,
                 removedVars>>

\* DEL of the sorted set only.
purgeScheduledMessagesQueue ==
  /\ queueScheduled # <<>>
  /\ queueScheduled' = <<>>
  /\ Leave(DOMAIN queueScheduled)
  /\ UNCHANGED <<clock, scheduledMessages, workerVars, callVars, produced, sentVars>>

-----------------------------------------------------------------------------
ScheduleWorkerStep(w) ==
  \/ fetchIds(w)
  \/ fetchMessages(w)
  \/ \E k \in multis[w] : enqueue(w, k)
  \/ BatchEnds(w)
  \/ TakeOver(w)

SchedNext ==
  \/ \E m \in MessageId : schedule(m)
  \/ Tick
  \/ \E w \in Worker : ScheduleWorkerStep(w)
  \/ \E r \in Caller :
       \/ \E m \in produced : deleteScheduled(r, m)
       \/ lockFN(r)
       \/ DeleteExec(r)
       \/ releaseLock(r)
  \/ purgeScheduledMessagesQueue

SchedSpec == SchedInit /\ [][SchedNext]_schedVars

\* Time passes, the ticker of the worker fires and Redis replies; a dead
\* worker is replaced (Takeover of ConsumerWorkers).
SchedFairSpec ==
  /\ SchedSpec
  /\ WF_schedVars(Tick)
  /\ \A w \in Worker : WF_schedVars(ScheduleWorkerStep(w))

-----------------------------------------------------------------------------
(***************************************************************************)
(* Properties.                                                             *)
(***************************************************************************)

\* How often a message should be enqueued, in all or from one CRON instant to
\* the next: N times with setScheduledRepeat(N), as docs/api/message.md counts
\* ("enqueued N times", "5 times every hour"), otherwise once.
Promised(m) == IF ScheduledRepeat[m] > 0 THEN ScheduledRepeat[m] ELSE 1

\* Repeats that follow a delay or a CRON instant.
Combined(m) == ScheduledRepeat[m] > 0 /\ ScheduledDelay[m] + ScheduledCron[m] > 0

\* A message that is repeated, delayed or given a CRON expression, and not two
\* of them with a repeat, is never enqueued more often than promised, however
\* late the worker is and whatever is deleted or purged in the middle of a
\* batch.
DeliveriesBounded ==
  \A m \in MessageId : ~Combined(m) => sent[m] <= Promised(m)

\* The code delivers a combined message at the end of its delay, and at every
\* instant of its CRON expression, and then counts N repeats: once more than
\* docs/api/message.md says, and than test00006 of tests/scheduling-messages
\* expects of a delay (test00004 expects it of a CRON expression).  This
\* divergence goes no further than that one delivery.
OneTooMany ==
  \A m \in MessageId : Combined(m) => sent[m] <= Promised(m) + 1

\* The time a message waits for before its next delivery at least.
Gap(m) == IF ScheduledDelay[m] > 0 /\ m \notin started THEN ScheduledDelay[m]
          ELSE IF ScheduledCron[m] = 0 THEN ScheduledPeriod[m] ELSE 0

\* No message is enqueued early: not before its delay, and not before its
\* period has passed since the last time.
NeverEarly ==
  [][\A m \in MessageId : sent'[m] > sent[m] => age[m] >= Gap(m)]_schedVars

\* An id of the sorted set always has its text: otherwise it would end every
\* schedule worker that comes to it, and its consumer, one after the other.
IdsHaveTexts == DOMAIN queueScheduled \subseteq DOMAIN scheduledMessages

\* A message that is deleted or purged while no worker has read it does not
\* come back, neither to the schedule nor to a batch.
GoneForGood ==
  \A m \in gone : m \notin DOMAIN queueScheduled /\ ~InBatch(m)

\* Every scheduled message is enqueued at least as often as promised, and one
\* with a CRON expression again and again, unless it is deleted or purged: no
\* delivery is skipped when a worker dies in the middle of a batch.
AllDelivered ==
  \A m \in MessageId :
    IF ScheduledCron[m] > 0
      THEN (m \in produced /\ age[m] > 0) ~> (age[m] = 0 \/ m \in removed)
      ELSE m \in produced ~> (sent[m] >= Promised(m) \/ m \in removed)

\* setScheduledRepeat(3) with a delay: the message is published three times
\* and "no more messages are published".
RepeatedAsTested ==
  \A m \in MessageId :
    ScheduledCron[m] = 0 /\ ScheduledRepeat[m] > 0 => sent[m] <= ScheduledRepeat[m]

\* setScheduledCron with setScheduledRepeat(N): "delivered N times" from one
\* CRON instant to the next.
RepeatedAsDocumented ==
  \A m \in MessageId :
    ScheduledCron[m] > 0 /\ ScheduledRepeat[m] > 0 => sent[m] <= ScheduledRepeat[m]

\* A deletion that is answered without an error is final.
DeletedIsGone ==
  \A r \in Caller : call[r] = "deleted" => target[r] \notin DOMAIN queueScheduled

\* Deleting a scheduled message does not end a schedule worker.
WorkersSurvive == \A w \in Worker : pc[w] # "dead"

\* The hash holds no text that nothing leads to.
TextsReachable == DOMAIN scheduledMessages \subseteq DOMAIN queueScheduled
=============================================================================
