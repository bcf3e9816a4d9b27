-------------------------- MODULE MonitoringProofs --------------------------
(***************************************************************************)
(* Proofs that one stats worker collects at a time, and that what it       *)
(* publishes counts no message twice, for any number of servers,           *)
(* consumers, producers and messages.                                      *)
(***************************************************************************)
EXTENDS Monitoring, TLAPS, FiniteSetTheorems

\* The part of the type invariant that the argument needs.
ServerTypes ==
  /\ phase \in [Server -> Phase]
  /\ pc \in [Server -> Step]
  /\ lock \in Server \union {NoServer}
  /\ lapsed \in BOOLEAN

CollectorInv == ServerTypes /\ CollectorHasLock

\* Initially no server runs and the lock is free.
LEMMA CollectorInit == MonitorInit => CollectorInv
BY DEF MonitorInit, CollectorInv, ServerTypes, CollectorHasLock,
       Collecting, Phase, Step

\* A step that leaves the servers alone, or only changes data and published.
LEMMA CollectorFrame ==
  ASSUME CollectorInv, UNCHANGED <<phase, pc, lock, lapsed>>
  PROVE  CollectorInv'
BY DEF CollectorInv, ServerTypes, CollectorHasLock, Collecting

\* Servers come and go; the lock of a worker that has ended is not the lock of
\* a collector, so that it may expire.
LEMMA CollectorServers ==
  ASSUME CollectorInv, LockExpires \/ \E s \in Server : ServerStep(s)
  PROVE  CollectorInv'
<1>1. CASE LockExpires
  BY <1>1, MonitoringAssumption
     DEF CollectorInv, ServerTypes, CollectorHasLock, Collecting,
         LockExpires, Deserted, Phase
<1>2. ASSUME NEW s \in Server, ServerStep(s)
      PROVE  CollectorInv'
  BY <1>2 DEF CollectorInv, ServerTypes, CollectorHasLock, Collecting, ServerStep,
              listen, quit, shutdown, ExitsOnError, Killed, KillWorker, Phase, Step
<1> QED BY <1>1, <1>2

\* A worker that takes the lock finds no other collector; the other steps
\* of a tick keep the lock, and the last one ends the collection.
LEMMA CollectorWorker ==
  ASSUME CollectorInv, NEW s \in Server, StatsWorkerStep(s)
  PROVE  CollectorInv'
<1>1. CASE acquireLock(s)
  BY <1>1, MonitoringAssumption
     DEF CollectorInv, ServerTypes, CollectorHasLock, Collecting,
         acquireLock, Step
<1>2. CASE getRates(s) \/ deleteExpired(s) \/ getConsumersHeartbeats(s)
             \/ getQueueSize(s)
  BY <1>2 DEF CollectorInv, ServerTypes, CollectorHasLock,
              Collecting, getRates, deleteExpired, getConsumersHeartbeats,
              getQueueSize, Step
<1>3. CASE publish(s)
  BY <1>3 DEF CollectorInv, ServerTypes, CollectorHasLock,
              Collecting, publish, Step
<1> QED BY <1>1, <1>2, <1>3 DEF StatsWorkerStep

\* Every step preserves the invariant.
LEMMA CollectorNext == CollectorInv /\ [MonitorNext]_monitorVars => CollectorInv'
<1> SUFFICES ASSUME CollectorInv, [MonitorNext]_monitorVars
             PROVE  CollectorInv'
  OBVIOUS
<1>1. CASE UNCHANGED monitorVars
  BY <1>1, CollectorFrame DEF monitorVars, serverVars
<1>2. CASE \/ \E i \in Instance : \/ Start(i) \/ Stop(i) \/ Crash(i)
                                 \/ publishRates(i) \/ hasExpired(i)
           \/ \E c \in Consumer : Beat(c)
           \/ \E m \in Message : Move(m)
  <2>1. UNCHANGED serverVars
    BY <1>2 DEF Start, Stop, Crash, publishRates, hasExpired, Beat, Move
  <2> QED BY <2>1, CollectorFrame DEF serverVars
<1>3. CASE LockExpires \/ \E s \in Server : ServerStep(s)
  BY <1>3, CollectorServers
<1>4. CASE \E s \in Server : StatsWorkerStep(s)
  BY <1>4, CollectorWorker
<1> QED BY <1>1, <1>2, <1>3, <1>4 DEF MonitorNext

\* Whatever servers start, quit, end on an error or are killed, a worker that
\* collects has the lock, until the lock of a running worker expires: the lock
\* that a worker leaves behind is taken by nobody before it expires, and the
\* orphan of a killed server keeps its own.
THEOREM CollectorsAreLocked == MonitorSpec => []CollectorHasLock
<1>1. CollectorInv => CollectorHasLock
  BY DEF CollectorInv
<1> QED BY <1>1, CollectorInit, CollectorNext, PTL DEF MonitorSpec

\* Two stats workers never collect at once, until the lock of a running worker
\* expires, although run() does not look at the answer of acquireLock.
THEOREM OneCollectorAtATime == MonitorSpec => []OneCollector
<1>1. CollectorInv => OneCollector
  BY DEF CollectorInv, CollectorHasLock, OneCollector
<1> QED BY <1>1, CollectorInit, CollectorNext, PTL DEF MonitorSpec

-----------------------------------------------------------------------------
(***************************************************************************)
(* The type invariant and the sizes.  A Redis instance holds finitely many *)
(* messages, without which the length of a list would be no number.        *)
(***************************************************************************)

\* What a stats worker has collected.
Collected ==
  [rated : SUBSET Instance, expired : SUBSET Instance, resources : SUBSET Consumer,
   sizes : [Lists -> Nat] \union {<<>>}]

\* The lengths that a worker is about to publish were read at one instant.
SizesRead ==
  \A s \in Server : pc[s] = "publish" =>
    /\ data[s].sizes \in [Lists -> Nat]
    /\ data[s].sizes["pending"] + data[s].sizes["deadLettered"]
         + data[s].sizes["acknowledged"] <= Cardinality(Message)

StatsInv == MonitorTypeOK /\ data \in [Server -> Collected] /\ SizesRead

\* The three lists share no message, so that their lengths add up to no more
\* than there are messages.
LEMMA SizesAddUp ==
  ASSUME IsFiniteSet(Message), NEW l, NEW k, NEW j, l # k, k # j, l # j
  PROVE  /\ SizeOf(l) \in Nat /\ SizeOf(k) \in Nat /\ SizeOf(j) \in Nat
         /\ SizeOf(l) + SizeOf(k) + SizeOf(j) <= Cardinality(Message)
<1> DEFINE In(x) == {m \in Message : place[m] = x}
<1>1. \A x : IsFiniteSet(In(x)) /\ Cardinality(In(x)) \in Nat
  BY FS_Subset, FS_CardinalityType
<1>2. PICK A, B, C : A = In(l) /\ B = In(k) /\ C = In(j) OBVIOUS
<1>3. A \cap B = {} /\ (A \union B) \cap C = {} /\ (A \union B) \union C \subseteq Message BY <1>2
<1>4. /\ IsFiniteSet(A) /\ IsFiniteSet(B) /\ IsFiniteSet(C)
      /\ Cardinality(A) \in Nat /\ Cardinality(B) \in Nat /\ Cardinality(C) \in Nat
  BY <1>1, <1>2
<1>5. /\ Cardinality(A) = SizeOf(l) /\ Cardinality(B) = SizeOf(k) /\ Cardinality(C) = SizeOf(j)
  BY <1>2 DEF SizeOf
<1> HIDE DEF In
<1>6. /\ IsFiniteSet(A \union B)
      /\ Cardinality(A \union B) = Cardinality(A) + Cardinality(B) - Cardinality(A \cap B)
  BY <1>4, FS_Union
<1>7. Cardinality({}) = 0 BY FS_EmptySet
<1>8. Cardinality(A \cap B) = 0 BY <1>3, <1>7
<1>9. Cardinality(A \union B) = Cardinality(A) + Cardinality(B) BY <1>4, <1>6, <1>8
<1>10. Cardinality((A \union B) \union C)
        = Cardinality(A \union B) + Cardinality(C) - Cardinality((A \union B) \cap C)
  BY <1>4, <1>6, FS_Union
<1>11. Cardinality((A \union B) \cap C) = 0 BY <1>3, <1>7
<1>12. Cardinality((A \union B) \union C) = Cardinality(A) + Cardinality(B) + Cardinality(C)
  BY <1>4, <1>9, <1>10, <1>11
<1>13. Cardinality((A \union B) \union C) <= Cardinality(Message) BY <1>3, FS_Subset
<1> QED BY <1>4, <1>5, <1>12, <1>13

\* Initially nothing has been collected.
LEMMA StatsInit == MonitorInit => StatsInv
<1> SUFFICES ASSUME MonitorInit PROVE StatsInv OBVIOUS
<1>1. NoData \in Collected BY DEF NoData, Collected
<1>2. data \in [Server -> Collected] BY <1>1 DEF MonitorInit
<1>3. \A s \in Server :
        /\ data[s].rated = {} /\ data[s].expired = {} /\ data[s].resources = {}
        /\ DOMAIN data[s].sizes = {}
  BY DEF MonitorInit, NoData
<1>4. MonitorTypeOK
  BY <1>3, MonitoringAssumption DEF MonitorInit, MonitorTypeOK, Phase, Step, Place, Lists
<1>5. SizesRead BY DEF MonitorInit, SizesRead
<1> QED BY <1>2, <1>4, <1>5 DEF StatsInv

\* The steps of consumers, producers and messages leave the servers alone.
LEMMA InstancesKeepStats ==
  ASSUME StatsInv, UNCHANGED serverVars,
         \/ \E i \in Instance : \/ Start(i) \/ Stop(i) \/ Crash(i)
                               \/ publishRates(i) \/ hasExpired(i)
         \/ \E c \in Consumer : Beat(c)
         \/ \E m \in Message : Move(m)
  PROVE  StatsInv'
<1> USE DEF StatsInv, serverVars
<1>1. SizesRead' /\ data' \in [Server -> Collected] BY DEF SizesRead
<1>2. /\ status' \in [Instance -> {"absent", "down", "up", "crashed"}]
      /\ heartbeats' \subseteq Consumer
      /\ rates' \subseteq Instance /\ stale' \subseteq rates'
      /\ place' \in [Message -> Place]
  BY DEF MonitorTypeOK, Start, Stop, Crash, publishRates, hasExpired, Beat, Move, Place, Instance
<1>3. MonitorTypeOK' BY <1>2 DEF MonitorTypeOK
<1> QED BY <1>1, <1>3

\* A step of a server changes its own record only.
LEMMA ServersKeepStats ==
  ASSUME IsFiniteSet(Message), StatsInv, NEW s \in Server,
         ServerStep(s) \/ StatsWorkerStep(s)
  PROVE  StatsInv'
<1> USE DEF StatsInv
<1>1. NoData \in Collected /\ NoData.rated = {} /\ NoData.expired = {}
      /\ NoData.resources = {} /\ DOMAIN NoData.sizes = {}
  BY DEF NoData, Collected
<1>2. PICK d : d = data[s] OBVIOUS
<1>3. d \in Collected BY <1>2
<1> DEFINE Good(x) == /\ x.rated \subseteq Instance
                      /\ x.expired \subseteq Instance \ x.rated
                      /\ x.resources \subseteq Consumer
                      /\ DOMAIN x.sizes \subseteq Lists
           Counted(x) == /\ x.sizes \in [Lists -> Nat]
                         /\ x.sizes["pending"] + x.sizes["deadLettered"]
                              + x.sizes["acknowledged"] <= Cardinality(Message)
<1>4. Good(d) /\ \A r \in Server : Good(data[r]) BY <1>2 DEF MonitorTypeOK
<1>5. \A r \in Server : pc[r] = "publish" => Counted(data[r]) BY DEF SizesRead
<1>6. ASSUME NEW e \in Collected, data' = [data EXCEPT ![s] = e], Good(e),
             NEW p \in Step, pc' = [pc EXCEPT ![s] = p], p = "publish" => Counted(e),
             phase' \in [Server -> Phase], lock' \in Server \union {NoServer},
             lapsed' \in BOOLEAN, published' \subseteq Instance,
             rates' \subseteq Instance, stale' \subseteq rates',
             UNCHANGED <<status, heartbeats, place>>
      PROVE  StatsInv'
  <2>1. data' \in [Server -> Collected] /\ data'[s] = e
        /\ \A r \in Server : r # s => data'[r] = data[r]
    BY <1>6
  <2>2. pc' \in [Server -> Step] /\ pc'[s] = p /\ \A r \in Server : r # s => pc'[r] = pc[r]
    BY <1>6 DEF MonitorTypeOK
  <2>3. \A r \in Server : Good(data'[r]) BY <1>4, <1>6, <2>1
  <2>4. \A r \in Server : pc'[r] = "publish" => Counted(data'[r]) BY <1>5, <1>6, <2>1, <2>2
  <2>5. SizesRead' BY <2>4 DEF SizesRead
  <2>6. MonitorTypeOK' BY <1>6, <2>2, <2>3 DEF MonitorTypeOK
  <2> QED BY <2>1, <2>5, <2>6
<1>7. Good(NoData) BY <1>1
<1>8. /\ phase \in [Server -> Phase] /\ lock \in Server \union {NoServer}
      /\ lapsed \in BOOLEAN /\ published \subseteq Instance
      /\ rates \subseteq Instance /\ stale \subseteq rates
      /\ heartbeats \subseteq Consumer /\ data \in [Server -> Collected]
  BY DEF MonitorTypeOK
<1>9. \A p \in {"up", "stopping", "gone"} : [phase EXCEPT ![s] = p] \in [Server -> Phase] BY <1>8 DEF Phase
<1>10. {"idle", "getRates", "deleteExpired", "getHeartbeats", "getQueueSize", "publish",
        "stopped"} = Step
  BY DEF Step
<1> HIDE DEF Good, Counted, StatsInv
<1>11. CASE listen(s)
  <2>1. data' = [data EXCEPT ![s] = d] BY <1>2, <1>8, <1>11 DEF listen
  <2> QED BY <1>3, <1>4, <1>6, <1>8, <1>9, <1>10, <1>11, <2>1 DEF listen, instanceVars
<1>12. CASE shutdown(s) \/ ExitsOnError(s)
  BY <1>1, <1>6, <1>7, <1>8, <1>9, <1>10, <1>12
     DEF shutdown, ExitsOnError, KillWorker, instanceVars
<1>19. CASE quit(s) \/ Killed(s)
  <2>1. UNCHANGED <<pc, data, lock, lapsed, published, instanceVars>> /\ phase' \in [Server -> Phase]
    BY <1>9, <1>19 DEF quit, Killed
  <2> QED BY <2>1 DEF StatsInv, MonitorTypeOK, SizesRead, instanceVars
<1>13. CASE acquireLock(s)
  BY <1>1, <1>6, <1>7, <1>8, <1>10, <1>13 DEF acquireLock, instanceVars
<1>14. CASE getRates(s)
  <2>1. PICK e : e = [d EXCEPT !.rated = rates \ stale, !.expired = stale] OBVIOUS
  <2>2. e \in Collected /\ Good(e) BY <1>3, <1>4, <1>8, <2>1 DEF Collected, Good
  <2>3. data' = [data EXCEPT ![s] = e] BY <1>2, <1>8, <1>14, <2>1 DEF getRates, Collected
  <2>4. PICK p \in {"getHeartbeats", "deleteExpired"} : pc' = [pc EXCEPT ![s] = p]
    BY <1>14 DEF getRates
  <2> QED BY <1>6, <1>8, <1>10, <1>14, <2>2, <2>3, <2>4 DEF getRates, instanceVars
<1>15. CASE deleteExpired(s)
  <2>1. PICK e : e = [d EXCEPT !.expired = {}] OBVIOUS
  <2>2. e \in Collected /\ Good(e) BY <1>3, <1>4, <2>1 DEF Collected, Good
  <2>3. data' = [data EXCEPT ![s] = e] BY <1>2, <1>8, <1>15, <2>1 DEF deleteExpired, Collected
  <2> QED BY <1>6, <1>8, <1>10, <1>15, <2>2, <2>3 DEF deleteExpired
<1>16. CASE getConsumersHeartbeats(s)
  <2>1. PICK e : e = [d EXCEPT !.resources = heartbeats] OBVIOUS
  <2>2. e \in Collected /\ Good(e) BY <1>3, <1>4, <1>8, <2>1 DEF Collected, Good
  <2>3. data' = [data EXCEPT ![s] = e]
    BY <1>2, <1>8, <1>16, <2>1 DEF getConsumersHeartbeats, Collected
  <2> QED BY <1>6, <1>8, <1>10, <1>16, <2>2, <2>3 DEF getConsumersHeartbeats, instanceVars
<1>17. CASE getQueueSize(s)
  <2>1. PICK z : z = [l \in Lists |-> SizeOf(l)] OBVIOUS
  <2>2. /\ SizeOf("pending") \in Nat /\ SizeOf("deadLettered") \in Nat
        /\ SizeOf("acknowledged") \in Nat
        /\ SizeOf("pending") + SizeOf("deadLettered") + SizeOf("acknowledged")
             <= Cardinality(Message)
    <3>1. \A l, k, j : l # k /\ k # j /\ l # j =>
             /\ SizeOf(l) \in Nat /\ SizeOf(k) \in Nat /\ SizeOf(j) \in Nat
             /\ SizeOf(l) + SizeOf(k) + SizeOf(j) <= Cardinality(Message)
      BY SizesAddUp
    <3>2. "pending" # "deadLettered" /\ "deadLettered" # "acknowledged" /\ "pending" # "acknowledged"
      OBVIOUS
    <3> QED BY <3>1, <3>2
  <2>3. z \in [Lists -> Nat] /\ z["pending"] = SizeOf("pending")
        /\ z["deadLettered"] = SizeOf("deadLettered")
        /\ z["acknowledged"] = SizeOf("acknowledged")
    BY <2>1, <2>2 DEF Lists
  <2>4. PICK e : e = [d EXCEPT !.sizes = z] OBVIOUS
  <2>5. e \in Collected /\ e.sizes = z /\ Good(e)
    BY <1>3, <1>4, <2>3, <2>4 DEF Collected, Good
  <2>6. Counted(e) BY <2>2, <2>3, <2>5 DEF Counted
  <2>7. data' = [data EXCEPT ![s] = e] BY <1>2, <1>8, <1>17, <2>1, <2>4 DEF getQueueSize, Collected
  <2> QED BY <1>6, <1>8, <1>10, <1>17, <2>5, <2>6, <2>7 DEF getQueueSize, instanceVars
<1>18. CASE publish(s)
  <2>1. sanitizeData(data[s]) \subseteq Instance
    BY <1>2, <1>4 DEF sanitizeData, Good, Instance
  <2> QED BY <1>1, <1>6, <1>7, <1>8, <1>10, <1>18, <2>1 DEF publish, instanceVars
<1> QED BY <1>11, <1>12, <1>13, <1>14, <1>15, <1>16, <1>17, <1>18, <1>19, Zenon
        DEF StatsWorkerStep, ServerStep

\* Every step preserves the invariant.
LEMMA StatsNext ==
  ASSUME IsFiniteSet(Message), StatsInv, [MonitorNext]_monitorVars
  PROVE  StatsInv'
<1>1. CASE UNCHANGED monitorVars
  BY <1>1 DEF monitorVars, serverVars, instanceVars, StatsInv, MonitorTypeOK, SizesRead
<1>2. CASE \/ \E i \in Instance : \/ Start(i) \/ Stop(i) \/ Crash(i)
                                 \/ publishRates(i) \/ hasExpired(i)
           \/ \E c \in Consumer : Beat(c)
           \/ \E m \in Message : Move(m)
  <2>1. UNCHANGED serverVars
    BY <1>2 DEF Start, Stop, Crash, publishRates, hasExpired, Beat, Move
  <2> QED BY <1>2, <2>1, InstancesKeepStats
<1>3. CASE LockExpires
  BY <1>3 DEF LockExpires, instanceVars, StatsInv, MonitorTypeOK, SizesRead
<1>4. CASE \E s \in Server : ServerStep(s) \/ StatsWorkerStep(s)
  BY <1>4, ServersKeepStats
<1> QED BY <1>1, <1>2, <1>3, <1>4 DEF MonitorNext

\* Every variable of the monitor keeps its type, with finitely many messages.
THEOREM MonitorTypeCorrect ==
  ASSUME IsFiniteSet(Message)
  PROVE  MonitorSpec => []MonitorTypeOK
<1>1. StatsInv /\ [MonitorNext]_monitorVars => StatsInv' BY StatsNext
<1>2. StatsInv => MonitorTypeOK BY DEF StatsInv
<1> QED BY <1>1, <1>2, StatsInit, PTL DEF MonitorSpec

\* The lengths of the lists that a stats worker publishes count no message
\* twice, however many messages move while the workers read: they are read in
\* one MULTI.
THEOREM NoMessageCountedTwice ==
  ASSUME IsFiniteSet(Message)
  PROVE  MonitorSpec => []SizesCountOnce
<1>1. StatsInv /\ [MonitorNext]_monitorVars => StatsInv' BY StatsNext
<1>2. StatsInv => SizesCountOnce BY DEF StatsInv, SizesRead, SizesCountOnce
<1> QED BY <1>1, <1>2, StatsInit, PTL DEF MonitorSpec
=============================================================================
