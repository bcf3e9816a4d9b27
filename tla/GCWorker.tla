------------------------------ MODULE GCWorker ------------------------------
(***************************************************************************)
(* The garbage collector, a child process of the consumer w whose workers  *)
(* run.  On each tick it lists the registered processing queues and        *)
(* inspects them concurrently: is the owner alive, what does its queue     *)
(* hold, give that message another delivery, destroy the queue.  Each of   *)
(* these is one command, and other clients may run theirs in between.      *)
(***************************************************************************)
EXTENDS RedisStore

(***************************************************************************)
(* gc[w][c]: the next command about the processing queue of c: "alive"     *)
(* (HGET of the heartbeat), "inspect" (LRANGE 0 0), one of RetryOp (the    *)
(* move broker.retry chose), "destroy".                                    *)
(***************************************************************************)
VARIABLE gc

GCTask == {"idle", "alive", "inspect", "destroy"} \union RetryOp

GCTypeOK == gc \in [Consumer -> [Consumer -> GCTask]]

GCInit == gc = [w \in Consumer |-> [c \in Consumer |-> "idle"]]

\* Mutant: the age of a heartbeat is not looked at.
AnyHeartbeatIsAlive(w, c) ==
  /\ QueueOf[w].ns = QueueOf[c].ns
  /\ heartbeat[c] # "none"

\* Heartbeat.isAlive, called by the worker of w: the key is made of the
\* queue name and id of c and of the namespace of the worker.
isAlive(w, c) ==
  /\ QueueOf[w].ns = QueueOf[c].ns
  /\ heartbeat[c] = "fresh"

\* The keys of a queue of that name, in the namespace of the worker.
KeysOf(w, c) == [ns |-> QueueOf[w].ns, name |-> QueueOf[c].name]

SetTask(w, c, t) == gc' = [gc EXCEPT ![w][c] = t]

\* onTick: SMEMBERS; the queue of the parent is skipped.
GCTick(w) ==
  /\ \A c \in Consumer : gc[w][c] = "idle"
  /\ index \ {w} # {}
  /\ gc' = [gc EXCEPT ![w] = [c \in Consumer |-> IF c \in index \ {w}
                                                  THEN "alive" ELSE "idle"]]
  /\ UNCHANGED storeVars

handleProcessingQueue(w, c) ==
  /\ gc[w][c] = "alive"
  /\ SetTask(w, c, IF isAlive(w, c) THEN "idle" ELSE "inspect")
  /\ UNCHANGED storeVars

\* Mutant: the queue is destroyed without looking into it.
DestroyUnseen(w, c) ==
  /\ gc[w][c] = "inspect"
  /\ SetTask(w, c, "destroy")
  /\ UNCHANGED storeVars

handleOfflineConsumer(w, c) ==
  /\ gc[w][c] = "inspect"
  /\ SetTask(w, c, IF processing[c] = <<>> THEN "destroy"
                   ELSE retry(Head(processing[c]), elapsed))
  /\ UNCHANGED storeVars

Collect(w, c) ==
  /\ gc[w][c] \in RetryOp
  /\ Settle(gc[w][c], c, KeysOf(w, c))
  /\ SetTask(w, c, "destroy")
  /\ UNCHANGED <<index, heartbeat, published, elapsed>>

\* QueueManager.deleteProcessingQueue: SREM, HDEL and DEL in one MULTI.
destroyProcessingQueue(w, c) ==
  /\ gc[w][c] = "destroy"
  /\ index' = index \ {c}
  /\ processing' = [processing EXCEPT ![c] = <<>>]
  /\ SetTask(w, c, "idle")
  /\ UNCHANGED <<queue, requeueList, delayList, acknowledged, deadLetter,
                 heartbeat, published, elapsed>>
=============================================================================
