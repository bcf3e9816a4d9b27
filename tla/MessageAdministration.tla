----------------------- MODULE MessageAdministration -----------------------
(***************************************************************************)
(* Deleting, requeuing and purging stored messages of one queue through    *)
(* MessageManager and QueueManager, while its consumers (without           *)
(* priorities) work.  A caller names a message by the id and the position  *)
(* (sequence id) it had in a listing.  A deletion holds a lock of its      *)
(* list, reads the position and removes by text; a requeue reads the       *)
(* position and removes and enqueues in a MULTI, without a lock.           *)
(***************************************************************************)
EXTENDS Integers, SequencesExt

CONSTANTS
  MessageId,        \* the messages that can be published
  Stamp,            \* what else a text says: times and attempts
  Consumer,         \* the consumers of the queue
  Caller,           \* the callers of the two managers
  NoOne,            \* not a caller
  MaxRequests       \* bound: requests issued in a behaviour

ASSUME AdminAssumption ==
  /\ NoOne \notin Caller
  /\ MaxRequests \in Nat

VARIABLES
  list,             \* keyQueue, keyQueueAcknowledgedMessages, keyQueueDL
  withPriority,     \* texts of keyPendingMessagesWithPriority, one per id
  processing,       \* processing[c]: keyQueueProcessing
  lock,             \* lock[l]: who holds keyLockDelete...Message
  listing,          \* listing[r]: what r was last shown of a list
  request,          \* request[r]: what r asked for
  pc,               \* pc[r]: where the call of r is
  found,            \* found[r]: the text it has read, in a set
  answer,           \* answer[r]: what its callback was given
  requests,         \* requests issued so far
  published,        \* messages published so far
  delivered,        \* messages a consumer has received (history)
  removed,          \* who removed what (history)
  moved,            \* messages a requeue has taken out of a list (history)
  copied,           \* messages a requeue enqueued and did not find (history)
  lapsed            \* lists whose lock expired under a call (history)

redisVars == <<list, withPriority, processing>>
callVars == <<lock, listing, request, pc, found, answer, requests>>
historyVars == <<delivered, removed, moved, copied, lapsed>>
adminVars == <<redisVars, callVars, published, historyVars>>

ListName == {"pending", "acknowledged", "deadLetter"}
Text == [id : MessageId, stamp : Stamp]
Item == [list : ListName, at : Nat, id : MessageId]
Request == [op : {"delete", "requeue"}, list : ListName, at : Nat,
            id : MessageId, withPriority : BOOLEAN]
Pc == {"idle", "asked", "locked", "read", "releasing", "answered", "crashed"}
Answer == {"ok", "notFound", "couldNotLock"}

Ids(texts) == {t.id : t \in texts}

AdminTypeOK ==
  /\ list \in [ListName -> Seq(Text)]
  /\ withPriority \subseteq Text
  /\ processing \in [Consumer -> Seq(Text)]
  /\ lock \in [ListName -> Caller \union {NoOne}]
  /\ listing \in [Caller -> SUBSET Item]
  /\ \A r \in Caller : request[r] \in Request \/ pc[r] = "idle"
  /\ pc \in [Caller -> Pc]
  /\ found \in [Caller -> SUBSET Text]
  /\ answer \in [Caller -> Answer]
  /\ requests \in 0..MaxRequests
  /\ published \subseteq MessageId
  /\ delivered \subseteq MessageId
  /\ removed \subseteq (Caller \union {NoOne}) \X MessageId
  /\ moved \subseteq MessageId
  /\ copied \subseteq MessageId
  /\ lapsed \subseteq ListName

AdminInit ==
  /\ list = [l \in ListName |-> <<>>]
  /\ withPriority = {}
  /\ processing = [c \in Consumer |-> <<>>]
  /\ lock = [l \in ListName |-> NoOne]
  /\ listing = [r \in Caller |-> {}]
  /\ request = [r \in Caller |-> <<>>]
  /\ pc = [r \in Caller |-> "idle"]
  /\ found = [r \in Caller |-> {}]
  /\ answer = [r \in Caller |-> "ok"]
  /\ requests = 0
  /\ published = {}
  /\ delivered = {}
  /\ removed = {}
  /\ moved = {}
  /\ copied = {}
  /\ lapsed = {}

-----------------------------------------------------------------------------
(***************************************************************************)
(* Producers and consumers, one step per list operation.                   *)
(***************************************************************************)
Produce(m) ==
  /\ m \notin published
  /\ \E s \in Stamp :
       list' = [list EXCEPT !["pending"] = Append(@, [id |-> m, stamp |-> s])]
  /\ published' = published \union {m}
  /\ UNCHANGED <<withPriority, processing, callVars, historyVars>>

\* BRPOPLPUSH takes the last element.
dequeue(c) ==
  /\ processing[c] = <<>>
  /\ list["pending"] # <<>>
  /\ processing' = [processing EXCEPT ![c] = <<Last(list["pending"])>>]
  /\ list' = [list EXCEPT !["pending"] = Front(@)]
  /\ delivered' = delivered \union {Last(list["pending"]).id}
  /\ UNCHANGED <<withPriority, callVars, published, removed, moved, copied, lapsed>>

\* acknowledge and deadLetterMessage push to the right of their list.
Settle(c, l) ==
  /\ processing[c] # <<>>
  /\ list' = [list EXCEPT ![l] = @ \o processing[c]]
  /\ processing' = [processing EXCEPT ![c] = <<>>]
  /\ UNCHANGED <<withPriority, callVars, published, historyVars>>

\* A retry ends with LPUSH: every position in the queue moves by one.
Retry(c) ==
  /\ processing[c] # <<>>
  /\ \E s \in Stamp \ {processing[c][1].stamp} :
       list' = [list EXCEPT !["pending"] =
                  <<[processing[c][1] EXCEPT !.stamp = s]>> \o @]
  /\ processing' = [processing EXCEPT ![c] = <<>>]
  /\ UNCHANGED <<withPriority, callVars, published, historyVars>>

-----------------------------------------------------------------------------
(***************************************************************************)
(* The calls.  A caller may come back to a listing that is no longer true. *)
(***************************************************************************)
InFlight == {r \in Caller : pc[r] \in {"asked", "locked", "read", "releasing"}}

\* LLEN, then LRANGE: an item is a message and its position from 0.
getPaginatedListMessages(r, l) ==
  /\ pc[r] \in {"idle", "answered"}
  /\ requests < MaxRequests
  /\ listing' = [listing EXCEPT ![r] =
       {[list |-> l, at |-> i - 1, id |-> list[l][i].id] : i \in 1..Len(list[l])}]
  /\ UNCHANGED <<redisVars, lock, request, pc, found, answer, requests,
                 published, historyVars>>

\* A call of MessageManager for an item of a listing, however old that is.
Ask(r, op, priority) ==
  /\ pc[r] \in {"idle", "answered"}
  /\ requests < MaxRequests
  /\ op = "delete" => ~priority
  /\ \E item \in listing[r] :
       /\ op = "requeue" => item.list # "pending"
       /\ request' = [request EXCEPT ![r] =
            [op |-> op, list |-> item.list, at |-> item.at, id |-> item.id,
             withPriority |-> priority]]
  /\ pc' = [pc EXCEPT ![r] = "asked"]
  /\ requests' = requests + 1
  /\ UNCHANGED <<redisVars, lock, listing, found, answer, published, historyVars>>

\* Mutant: a lock that is held does not stop the next deletion.
LockIgnored(r) ==
  /\ pc[r] = "asked" /\ request[r].op = "delete"
  /\ lock' = [lock EXCEPT ![request[r].list] = r]
  /\ pc' = [pc EXCEPT ![r] = "locked"]
  /\ UNCHANGED <<redisVars, listing, request, found, answer, requests, published,
                 historyVars>>

\* LockManager.lockFN: one try, a failed one is answered with an error.
lockFN(r) ==
  LET l == request[r].list IN
  /\ pc[r] = "asked" /\ request[r].op = "delete"
  /\ \/ /\ lock[l] = NoOne
        /\ lock' = [lock EXCEPT ![l] = r]
        /\ pc' = [pc EXCEPT ![r] = "locked"]
        /\ UNCHANGED answer
     \/ /\ lock[l] # NoOne
        /\ pc' = [pc EXCEPT ![r] = "answered"]
        /\ answer' = [answer EXCEPT ![r] = "couldNotLock"]
        /\ UNCHANGED lock
  /\ UNCHANGED <<redisVars, listing, request, found, requests, published, historyVars>>

\* LRANGE at one position: the text there, if it is one of the message asked for.
lrange(r) ==
  LET q == request[r] IN
  {list[q.list][i] : i \in {j \in 1..Len(list[q.list]) :
                              j = q.at + 1 /\ list[q.list][j].id = q.id}}

\* A missing message is an error, which deletePendingMessage takes for success.
MissingIs(l) == IF l = "pending" THEN "ok" ELSE "notFound"

\* A deletion reads under its lock, a requeue right away.
getListMessageAtSequenceId(r) ==
  LET missing == lrange(r) = {}
      deletion == pc[r] = "locked" IN
  /\ deletion \/ (pc[r] = "asked" /\ request[r].op = "requeue")
  /\ found' = [found EXCEPT ![r] = lrange(r)]
  /\ pc' = [pc EXCEPT ![r] = IF ~missing THEN "read"
                             ELSE IF deletion THEN "releasing" ELSE "answered"]
  /\ answer' = [answer EXCEPT ![r] =
       IF missing THEN MissingIs(request[r].list) ELSE "ok"]
  /\ UNCHANGED <<redisVars, lock, listing, request, requests, published, historyVars>>

Lrem(s, texts) == RemoveFirstMatch(s, LAMBDA t : t \in texts)
lremOne(l, texts) == [list EXCEPT ![l] = Lrem(@, texts)]

\* The texts that LREM took away, as history: r removed that message.
TakenBy(r, l, texts) ==
  {<<r, t.id>> : t \in texts \cap ToSet(list[l])}

\* Mutant: the message is removed at its position, not by its text.
DeleteAtPosition(r) ==
  LET q == request[r] IN
  /\ pc[r] = "read" /\ q.op = "delete"
  /\ list' = IF q.at < Len(list[q.list])
               THEN [list EXCEPT ![q.list] = RemoveAt(@, q.at + 1)] ELSE list
  /\ removed' = removed \union TakenBy(r, q.list, found[r])
  /\ pc' = [pc EXCEPT ![r] = "releasing"]
  /\ UNCHANGED <<withPriority, processing, lock, listing, request, found, answer,
                 requests, published, delivered, moved, copied,
                 lapsed>>

\* LREM, whose reply, the number of elements removed, is not looked at.
deleteListMessageAtSequenceId(r) ==
  LET l == request[r].list IN
  /\ pc[r] = "read" /\ request[r].op = "delete"
  /\ list' = lremOne(l, found[r])
  /\ removed' = removed \union TakenBy(r, l, found[r])
  /\ pc' = [pc EXCEPT ![r] = "releasing"]
  /\ UNCHANGED <<withPriority, processing, lock, listing, request, found, answer,
                 requests, published, delivered, moved, copied,
                 lapsed>>

\* Mutant: lockFN releases the lock only when the function succeeded.
ReleaseOnSuccess(r) ==
  LET l == request[r].list IN
  /\ pc[r] = "releasing"
  /\ lock' = IF lock[l] = r /\ found[r] # {} THEN [lock EXCEPT ![l] = NoOne]
             ELSE lock
  /\ pc' = [pc EXCEPT ![r] = "answered"]
  /\ found' = [found EXCEPT ![r] = {}]
  /\ UNCHANGED <<redisVars, listing, request, answer, requests, published,
                 historyVars>>

\* lockManager.quit, then the callback; a lock that has expired is not ours.
releaseLock(r) ==
  LET l == request[r].list IN
  /\ pc[r] = "releasing"
  /\ lock' = IF lock[l] = r THEN [lock EXCEPT ![l] = NoOne] ELSE lock
  /\ pc' = [pc EXCEPT ![r] = "answered"]
  /\ found' = [found EXCEPT ![r] = {}]
  /\ UNCHANGED <<redisVars, listing, request, answer, requests, published,
                 historyVars>>

\* History: whether the LREM of a requeue finds the text that was read.
RequeueHistory(r) ==
  LET taken == Ids(found[r] \cap ToSet(list[request[r].list])) IN
  /\ moved' = moved \union taken
  /\ copied' = copied \union ({request[r].id} \ taken)

\* Mutant: the MULTI holds LREM only.
RequeueDrops(r) ==
  /\ pc[r] = "read" /\ request[r].op = "requeue"
  /\ list' = lremOne(request[r].list, found[r])
  /\ pc' = [pc EXCEPT ![r] = "answered"]
  /\ found' = [found EXCEPT ![r] = {}]
  /\ RequeueHistory(r)
  /\ UNCHANGED <<withPriority, processing, lock, listing, request, answer, requests,
                 published, delivered, removed, lapsed>>

\* Mutant: the MULTI holds the enqueuing only.
RequeueCopies(r) ==
  /\ pc[r] = "read" /\ request[r].op = "requeue"
  /\ \E s \in Stamp :
       list' = [list EXCEPT !["pending"] =
                  Append(@, [id |-> request[r].id, stamp |-> s])]
  /\ pc' = [pc EXCEPT ![r] = "answered"]
  /\ found' = [found EXCEPT ![r] = {}]
  /\ RequeueHistory(r)
  /\ UNCHANGED <<withPriority, processing, lock, listing, request, answer, requests,
                 published, delivered, removed, lapsed>>

\* MULTI of LREM and of the enqueuing of the message with its counters reset;
\* the message is enqueued whether or not LREM has found it.
requeueListMessage(r) ==
  LET q == request[r]
      left == lremOne(q.list, found[r]) IN
  /\ pc[r] = "read" /\ q.op = "requeue"
  /\ \E s \in Stamp :
       LET again == [id |-> q.id, stamp |-> s] IN
       IF q.withPriority
         THEN /\ list' = left
              /\ withPriority' = {t \in withPriority : t.id # q.id} \union {again}
         ELSE /\ list' = [left EXCEPT !["pending"] = Append(@, again)]
              /\ UNCHANGED withPriority
  /\ pc' = [pc EXCEPT ![r] = "answered"]
  /\ found' = [found EXCEPT ![r] = {}]
  /\ RequeueHistory(r)
  /\ UNCHANGED <<processing, lock, listing, request, answer, requests,
                 published, delivered, removed, lapsed>>

\* purgeQueue, purgeAcknowledgedMessagesQueue, purgeDeadLetterQueue: one DEL.
purge(l) ==
  /\ requests < MaxRequests
  /\ list[l] # <<>>
  /\ list' = [list EXCEPT ![l] = <<>>]
  /\ removed' = removed \union ({NoOne} \X Ids(ToSet(list[l])))
  /\ requests' = requests + 1
  /\ UNCHANGED <<withPriority, processing, lock, listing, request, pc, found, answer,
                 published, delivered, moved, copied,
                 lapsed>>

\* The process of a caller dies in the middle of a call.
Crash(r) ==
  /\ r \in InFlight
  /\ pc' = [pc EXCEPT ![r] = "crashed"]
  /\ UNCHANGED <<redisVars, lock, listing, request, found, answer, requests,
                 published, historyVars>>

LockExpires(l) ==
  /\ lock[l] # NoOne
  /\ lock' = [lock EXCEPT ![l] = NoOne]
  /\ lapsed' = IF lock[l] \in InFlight THEN lapsed \union {l} ELSE lapsed
  /\ UNCHANGED <<redisVars, listing, request, pc, found, answer, requests,
                 published, delivered, removed, moved, copied>>

-----------------------------------------------------------------------------
CallStep(r) ==
  \/ lockFN(r)
  \/ getListMessageAtSequenceId(r)
  \/ deleteListMessageAtSequenceId(r)
  \/ releaseLock(r)
  \/ requeueListMessage(r)

AdminNext ==
  \/ \E m \in MessageId : Produce(m)
  \/ \E c \in Consumer :
       \/ dequeue(c)
       \/ Retry(c)
       \/ \E l \in {"acknowledged", "deadLetter"} : Settle(c, l)
  \/ \E r \in Caller :
       \/ CallStep(r)
       \/ Crash(r)
       \/ \E l \in ListName : getPaginatedListMessages(r, l)
       \/ \E op \in {"delete", "requeue"}, p \in BOOLEAN : Ask(r, op, p)
  \/ \E l \in ListName : purge(l) \/ LockExpires(l)

AdminSpec == AdminInit /\ [][AdminNext]_adminVars

-----------------------------------------------------------------------------
InLists == UNION {Ids(ToSet(list[l])) : l \in ListName}
InWork(c) == Ids(ToSet(processing[c]))
Stored == InLists \union Ids(withPriority) \union UNION {InWork(c) : c \in Consumer}

\* Whatever concurrent requests, consumers and expiring locks do to the
\* positions, a call only ever takes the message it names out of a list: the
\* position is read in one command and the text removed in a later one.
OnlyTheNamedMessage ==
  [][\A r \in Caller : \A l \in ListName :
       pc[r] = "read" /\ pc'[r] \in {"releasing", "answered"}
         => Ids(ToSet(list[l]) \ ToSet(list'[l])) \subseteq {request[r].id}]_adminVars

\* No message is lost by a requeue, a deletion of another message, or a crash
\* in the middle of one: a published message is stored until it is deleted or
\* purged.
AdminNothingLost ==
  \A m \in published : m \in Stored \/ \E r \in Caller \union {NoOne} : <<r, m>> \in removed

\* A message is delivered to one consumer at a time, also after it was
\* requeued on demand, unless a requeue enqueued it although it was no longer
\* where it had been read: no other interleaving makes a second copy.
AdminDeliveredToOne ==
  \A c, d \in Consumer : c # d => InWork(c) \cap InWork(d) \subseteq copied

\* Of several callers that delete the same message of the acknowledged or
\* dead-letter list at once, only the one that removed it is told so, as long
\* as the lock around reading and removing does not expire and no one who
\* does not take it, a requeue or a purge, was there first.
OnlyTheDeleterIsTold ==
  \A r \in Caller :
    /\ pc[r] = "answered" /\ answer[r] = "ok"
    /\ request[r].op = "delete" /\ request[r].list \notin {"pending"} \union lapsed
    /\ <<NoOne, request[r].id>> \notin removed /\ request[r].id \notin moved
    => <<r, request[r].id>> \in removed

\* What deletePendingMessage answers success for is no longer pending, unless
\* it was delivered (and came back for another attempt).
PendingDeleteIsTrue ==
  \A r \in Caller :
    /\ pc[r] = "answered" /\ answer[r] = "ok"
    /\ request[r].op = "delete" /\ request[r].list = "pending"
    => request[r].id \notin Ids(ToSet(list["pending"]))
       \/ request[r].id \in delivered

\* No deletion leaves its lock behind, on its error paths neither: who holds
\* one is in the middle of a call for that list, or has died in it, so that
\* only the expiry frees the lock.
LockInCall ==
  \A l \in ListName :
    lock[l] # NoOne =>
      /\ pc[lock[l]] \in {"locked", "read", "releasing", "crashed"}
      /\ request[lock[l]].op = "delete" /\ request[lock[l]].list = l
=============================================================================
