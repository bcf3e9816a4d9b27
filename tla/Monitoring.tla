----------------------------- MODULE Monitoring -----------------------------
(***************************************************************************)
(* The monitor: consumers and producers report their rates, consumers also *)
(* their heartbeats, and every monitor server runs a stats worker.  The    *)
(* workers compete for a lock; the one that holds it reads the reports and *)
(* the queue of the instances, one command at a time, and publishes what   *)
(* it found to the subscribed servers.                                     *)
(*                                                                         *)
(* The rates themselves are left out: a report is an entry that is fresh   *)
(* or has expired.                                                         *)
(***************************************************************************)
EXTENDS Naturals, FiniteSets, TLC

CONSTANTS
  Consumer,
  Producer,
  Server,
  Message,
  NoServer,    \* the lock is free
  Fleets       \* bound: the sets of instances and messages side by side

Instance == Consumer \union Producer

ASSUME MonitoringAssumption ==
  NoServer \notin Server /\ Fleets \subseteq SUBSET (Instance \union Message)

VARIABLES
  status,      \* status[i]: the state of the consumer or producer i
  heartbeats,  \* keyIndexHeartbeats: the consumers it has an entry for
  rates,       \* keyIndexRates: the instances it has an entry for
  stale,       \* those whose entry is more than 1000 ms old
  place,       \* place[m]: where message m is
  phase,       \* phase[s]: the state of monitor server s
  pc,          \* pc[s]: the next command of its stats worker
  data,        \* data[s]: what the worker collected in this tick
  lock,        \* keyLockWorkerStats
  lapsed,      \* history: the lock of a running worker expired
  published    \* the instances of the last statistics

instanceVars == <<status, heartbeats, rates, stale, place>>
serverVars == <<phase, pc, data, lock, lapsed, published>>
monitorVars == <<instanceVars, serverVars>>

Lists == {"pending", "deadLettered", "acknowledged"}
Place == Lists \union {"absent", "processing"}
Phase == {"off", "up", "stopping", "gone"}
Step == {"idle", "getRates", "deleteExpired", "getHeartbeats", "getQueueSize",
         "publish", "stopped"}

NoData == [rated |-> {}, expired |-> {}, resources |-> {}, sizes |-> <<>>]

MonitorTypeOK ==
  /\ status \in [Instance -> {"absent", "down", "up", "crashed"}]
  /\ heartbeats \subseteq Consumer
  /\ rates \subseteq Instance /\ stale \subseteq rates
  /\ place \in [Message -> Place]
  /\ phase \in [Server -> Phase]
  /\ pc \in [Server -> Step]
  /\ \A s \in Server :
       /\ data[s].rated \subseteq Instance
       /\ data[s].expired \subseteq Instance \ data[s].rated
       /\ data[s].resources \subseteq Consumer
       /\ DOMAIN data[s].sizes \subseteq Lists
  /\ lock \in Server \union {NoServer}
  /\ lapsed \in BOOLEAN
  /\ published \subseteq Instance

MonitorInit ==
  /\ \E fleet \in Fleets :
       /\ status = [i \in Instance |-> IF i \in fleet THEN "down" ELSE "absent"]
       /\ place = [m \in Message |-> IF m \in fleet THEN "pending" ELSE "absent"]
  /\ heartbeats = {}
  /\ rates = {}
  /\ stale = {}
  /\ phase = [s \in Server |-> "off"]
  /\ pc = [s \in Server |-> "stopped"]
  /\ data = [s \in Server |-> NoData]
  /\ lock = NoServer
  /\ lapsed = FALSE
  /\ published = {}

-----------------------------------------------------------------------------
(***************************************************************************)
(* Consumers and producers.                                                *)
(***************************************************************************)
Start(i) ==
  /\ status[i] = "down"
  /\ status' = [status EXCEPT ![i] = "up"]
  /\ UNCHANGED <<heartbeats, rates, stale, place, serverVars>>

\* shutdown() removes the heartbeat and leaves the rates to expire.
Stop(i) ==
  /\ status[i] = "up"
  /\ status' = [status EXCEPT ![i] = "down"]
  /\ heartbeats' = heartbeats \ {i}
  /\ UNCHANGED <<rates, stale, place, serverVars>>

Crash(i) ==
  /\ status[i] = "up"
  /\ status' = [status EXCEPT ![i] = "crashed"]
  /\ UNCHANGED <<heartbeats, rates, stale, place, serverVars>>

Beat(c) ==
  /\ status[c] = "up"
  /\ heartbeats' = heartbeats \union {c}
  /\ UNCHANGED <<status, rates, stale, place, serverVars>>

\* MessageRate.onTick: the rates of the last second, with the time.
publishRates(i) ==
  /\ status[i] = "up"
  /\ rates' = rates \union {i}
  /\ stale' = stale \ {i}
  /\ UNCHANGED <<status, heartbeats, place, serverVars>>

\* A second passes: hasExpired is true of the entry from now on.
hasExpired(i) ==
  /\ i \in rates \ stale
  /\ stale' = stale \union {i}
  /\ UNCHANGED <<status, heartbeats, rates, place, serverVars>>

\* A message is delivered, settled or retried, or requeued by an administrator:
\* each is one atomic command or transaction.
Move(m) ==
  /\ \E to \in Place :
       /\ <<place[m], to>> \in {"pending"} \X {"processing"}
                        \union {"processing"} \X Lists
                        \union {"deadLettered", "acknowledged"} \X {"pending"}
       /\ place' = [place EXCEPT ![m] = to]
  /\ UNCHANGED <<status, heartbeats, rates, stale, serverVars>>

-----------------------------------------------------------------------------
(***************************************************************************)
(* Monitor servers.                                                        *)
(***************************************************************************)

\* listen() forks the stats worker and subscribes.
listen(s) ==
  /\ phase[s] = "off"
  /\ phase' = [phase EXCEPT ![s] = "up"]
  /\ pc' = [pc EXCEPT ![s] = "idle"]
  /\ UNCHANGED <<data, lock, lapsed, published, instanceVars>>

\* quit() stops the HTTP server and closes its connections first.
quit(s) ==
  /\ phase[s] = "up"
  /\ phase' = [phase EXCEPT ![s] = "stopping"]
  /\ UNCHANGED <<pc, data, lock, lapsed, published, instanceVars>>

\* The stats worker of s is killed; its lock remains.
KillWorker(s) ==
  /\ pc' = [pc EXCEPT ![s] = "stopped"]
  /\ data' = [data EXCEPT ![s] = NoData]
  /\ UNCHANGED <<lock, lapsed, published, instanceVars>>

\* Then workerRunner.shutdown kills the worker.
shutdown(s) ==
  /\ phase[s] = "stopping"
  /\ phase' = [phase EXCEPT ![s] = "gone"]
  /\ KillWorker(s)

\* The server ends on an error, or its worker does and WorkerRunner throws:
\* the exit handler kills the worker.  One whose server is gone ends alone.
ExitsOnError(s) ==
  /\ pc[s] # "stopped"
  /\ phase' = [phase EXCEPT ![s] = "gone"]
  /\ KillWorker(s)

\* A signal ends the server.  No exit handler runs, and the worker, which has
\* no disconnect handler, goes on collecting.
Killed(s) ==
  /\ phase[s] \in {"up", "stopping"}
  /\ phase' = [phase EXCEPT ![s] = "gone"]
  /\ UNCHANGED <<pc, data, lock, lapsed, published, instanceVars>>

\* Nobody extends the lock of s any more.
Deserted(s) == pc[s] = "stopped"

LockExpires ==
  /\ lock # NoServer
  /\ lock' = NoServer
  /\ lapsed' = (lapsed \/ ~Deserted(lock))
  /\ UNCHANGED <<phase, pc, data, published, instanceVars>>

-----------------------------------------------------------------------------
(***************************************************************************)
(* The stats worker.                                                       *)
(***************************************************************************)

\* Mutant: the lock manager is not told to retry; run() ignores its answer.
acquireNoRetry(s) ==
  /\ pc[s] = "idle"
  /\ lock' = IF lock = NoServer THEN s ELSE lock
  /\ pc' = [pc EXCEPT ![s] = "getRates"]
  /\ data' = [data EXCEPT ![s] = NoData]
  /\ UNCHANGED <<phase, lapsed, published, instanceVars>>

\* Mutant: a worker that holds the lock does not extend it.
acquireOnce(s) ==
  /\ pc[s] = "idle"
  /\ lock = NoServer
  /\ lock' = s
  /\ pc' = [pc EXCEPT ![s] = "getRates"]
  /\ data' = [data EXCEPT ![s] = NoData]
  /\ UNCHANGED <<phase, lapsed, published, instanceVars>>

\* run(): lock or extend the lock, and reset.  A worker that is refused tries
\* again a second later.
acquireLock(s) ==
  /\ pc[s] = "idle"
  /\ lock \in {NoServer, s}
  /\ lock' = s
  /\ pc' = [pc EXCEPT ![s] = "getRates"]
  /\ data' = [data EXCEPT ![s] = NoData]
  /\ UNCHANGED <<phase, lapsed, published, instanceVars>>

\* HGETALL; the reports that have expired are dropped.
getRates(s) ==
  /\ pc[s] = "getRates"
  /\ data' = [data EXCEPT ![s].rated = rates \ stale, ![s].expired = stale]
  /\ pc' = [pc EXCEPT ![s] = IF stale = {} THEN "getHeartbeats"
                                           ELSE "deleteExpired"]
  /\ UNCHANGED <<phase, lock, lapsed, published, instanceVars>>

\* HDEL removes what had expired when it was read, renewed since or not.
deleteExpired(s) ==
  /\ pc[s] = "deleteExpired"
  /\ rates' = rates \ data[s].expired
  /\ stale' = stale \ data[s].expired
  /\ data' = [data EXCEPT ![s].expired = {}]
  /\ pc' = [pc EXCEPT ![s] = "getHeartbeats"]
  /\ UNCHANGED <<phase, lock, lapsed, published, status, heartbeats, place>>

getConsumersHeartbeats(s) ==
  /\ pc[s] = "getHeartbeats"
  /\ data' = [data EXCEPT ![s].resources = heartbeats]
  /\ pc' = [pc EXCEPT ![s] = "getQueueSize"]
  /\ UNCHANGED <<phase, lock, lapsed, published, instanceVars>>

SizeOf(l) == Cardinality({m \in Message : place[m] = l})

\* Mutant: the lengths are read one by one.
getSizesApart(s) ==
  /\ pc[s] = "getQueueSize"
  /\ \E l \in Lists \ DOMAIN data[s].sizes :
       LET sizes == (l :> SizeOf(l)) @@ data[s].sizes IN
       /\ data' = [data EXCEPT ![s].sizes = sizes]
       /\ pc' = [pc EXCEPT ![s] = IF DOMAIN sizes = Lists THEN "publish" ELSE @]
  /\ UNCHANGED <<phase, lock, lapsed, published, instanceVars>>

\* The index of the queues, which only grows, and the lengths in one MULTI.
getQueueSize(s) ==
  /\ pc[s] = "getQueueSize"
  /\ data' = [data EXCEPT ![s].sizes = [l \in Lists |-> SizeOf(l)]]
  /\ pc' = [pc EXCEPT ![s] = "publish"]
  /\ UNCHANGED <<phase, lock, lapsed, published, instanceVars>>

\* Mutant: a consumer with a heartbeat is kept.
sanitizeByHeartbeat(d) == (d.rated \ Consumer) \union d.resources

\* A consumer is kept if it has both rates and resources.
sanitizeData(d) == (d.rated \ Consumer) \union (d.rated \cap d.resources)

\* PUBLISH, and the next tick.
publish(s) ==
  /\ pc[s] = "publish"
  /\ published' = sanitizeData(data[s])
  /\ pc' = [pc EXCEPT ![s] = "idle"]
  /\ data' = [data EXCEPT ![s] = NoData]
  /\ UNCHANGED <<phase, lock, lapsed, instanceVars>>

-----------------------------------------------------------------------------
StatsWorkerStep(s) ==
  \/ acquireLock(s) \/ getRates(s) \/ deleteExpired(s)
  \/ getConsumersHeartbeats(s) \/ getQueueSize(s) \/ publish(s)

ServerStep(s) ==
  listen(s) \/ quit(s) \/ shutdown(s) \/ ExitsOnError(s) \/ Killed(s)

MonitorNext ==
  \/ \E i \in Instance : Start(i) \/ Stop(i) \/ Crash(i)
                           \/ publishRates(i) \/ hasExpired(i)
  \/ \E c \in Consumer : Beat(c)
  \/ \E m \in Message : Move(m)
  \/ \E s \in Server : ServerStep(s) \/ StatsWorkerStep(s)
  \/ LockExpires

MonitorSpec == MonitorInit /\ [][MonitorNext]_monitorVars

\* Time passes, workers run, orphans too, and the lock of a worker that has
\* ended expires.
MonitorFairSpec ==
  /\ MonitorSpec
  /\ \A i \in Instance : WF_monitorVars(hasExpired(i))
  /\ WF_monitorVars(LockExpires /\ Deserted(lock))
  /\ \A s \in Server : WF_monitorVars(StatsWorkerStep(s))

-----------------------------------------------------------------------------
(***************************************************************************)
(* Properties.                                                             *)
(***************************************************************************)
Collecting(s) == pc[s] \notin {"idle", "stopped"}

\* Statistics count no message twice, whatever moves between the queues while
\* the worker reads them.
SizesCountOnce ==
  \A s \in Server : pc[s] = "publish" =>
    data[s].sizes["pending"] + data[s].sizes["deadLettered"]
      + data[s].sizes["acknowledged"] <= Cardinality(Message)

\* At most one worker collects at a time, until the lock of a running worker
\* expires: run() does not look at the answer of acquireLock.
OneCollector ==
  ~lapsed => \A s, t \in Server : Collecting(s) /\ Collecting(t) => s = t

\* A worker that collects has the lock until a lock expires under a running
\* worker, also when its server is stopping or was killed and left it behind.
CollectorHasLock == ~lapsed => \A s \in Server : Collecting(s) => lock = s

Served == \E s \in Server : phase[s] = "up"

\* As long as there is a monitor server, statistics are published again and
\* again, also when the one whose worker has the lock quits, ends on an error
\* or is killed and leaves an orphan with the lock.
StatsKeepComing ==
  <>[]Served => []<><<\E s \in Server : publish(s)>>_monitorVars

\* An instance that crashed leaves the statistics and stays out of them,
\* although nothing removes its heartbeat.
GhostsLeave ==
  \A i \in Instance :
    <>[]Served => <>[](status[i] = "crashed" => i \notin published)
=============================================================================
