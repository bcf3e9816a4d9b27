--------------------------- MODULE RequeueWorker ----------------------------
(***************************************************************************)
(* The requeue worker of the consumer w: reads the oldest-pushed end of    *)
(* the requeue list and then, in one MULTI, removes each message it read   *)
(* and pushes it, with its attempts incremented, to the left end of its    *)
(* queue.  Between the two commands the list may change.                   *)
(***************************************************************************)
EXTENDS RedisStore

CONSTANT BatchSize     \* how many messages one tick reads (100 in the code)

ASSUME BatchSizeAssumption == BatchSize \in Nat \ {0}

VARIABLE requeueBatch  \* requeueBatch[w]: what the last LRANGE returned

RequeueTypeOK == requeueBatch \in [Consumer -> Seq(Entry)]

RequeueInit == requeueBatch = [w \in Consumer |-> <<>>]

lrange(list) == SubSeq(list, 1, Min({Len(list), BatchSize}))

\* LREM list 1 e, for each message of the batch: the list after each of them.
lremSteps(list, batch) ==
  LET after[n \in 0..Len(batch)] ==
        IF n = 0 THEN list ELSE RemoveFirst(after[n - 1], batch[n])
  IN  after
lrem(list, batch) == lremSteps(list, batch)[Len(batch)]

\* LPUSH of each message of the batch to its own queue.
lpushSteps(batch) ==
  LET after[n \in 0..Len(batch)] ==
        IF n = 0 THEN queue
        ELSE [after[n - 1] EXCEPT ![Home[batch[n].id]] =
                                    <<incrAttempts(batch[n])>> \o @]
  IN  after
lpush(batch) == lpushSteps(batch)[Len(batch)]

RequeueRead(w) ==
  /\ requeueBatch[w] = <<>>
  /\ requeueList # <<>>
  /\ requeueBatch' = [requeueBatch EXCEPT ![w] = lrange(requeueList)]
  /\ UNCHANGED storeVars

\* Mutant: LREM is missing from the MULTI.
RequeueAndKeep(w) ==
  /\ requeueBatch[w] # <<>>
  /\ queue' = lpush(requeueBatch[w])
  /\ requeueBatch' = [requeueBatch EXCEPT ![w] = <<>>]
  /\ UNCHANGED <<processing, requeueList, delayList, acknowledged, deadLetter,
                 index, heartbeat, published, elapsed>>

RequeueExec(w) ==
  /\ requeueBatch[w] # <<>>
  /\ requeueList' = lrem(requeueList, requeueBatch[w])
  /\ queue' = lpush(requeueBatch[w])
  /\ requeueBatch' = [requeueBatch EXCEPT ![w] = <<>>]
  /\ UNCHANGED <<processing, delayList, acknowledged, deadLetter,
                 index, heartbeat, published, elapsed>>
=============================================================================
