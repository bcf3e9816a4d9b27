--------------------------- MODULE ProducerProofs ---------------------------
(***************************************************************************)
(* What a producer guarantees for any number of calls and connections,     *)
(* across restarts, lost connections, refusals and a crash.                *)
(*                                                                         *)
(* The inductive invariant says what the phases of the PowerManager allow  *)
(* (Phases), that a call is in one place at a time (KnownCalls, Apart),    *)
(* what its caller has been told by then (Truth), and that the messages    *)
(* which are stored or can still be confirmed are in call order, those     *)
(* under way behind those stored (Order).                                  *)
(***************************************************************************)
EXTENDS Producer, TLAPS, FiniteSetTheorems

\* The calls whose commands connection k has yet to carry.
Inflight(k) == ToSet(sent[k])

\* The calls whose replies are under way.
Replied == {r.call : r \in ToSet(replies)}

\* The calls whose messages are stored.
InRedis == ToSet(queue) \union scheduled

\* The calls in s are in call order.
Increasing(s) == \A i, j \in 1..Len(s) : i < j => s[i] < s[j]

\* The caller of n was told of success, or will be unless the reply is lost.
Live(n) == Told(n, "ok") \/ \E r \in ToSet(replies) : r.call = n /\ r.is = "ok"

\* What the phase of the producer says of its connections and listeners.
Phases ==
  /\ replies # <<>> => power = "up"
  /\ waiting # <<>> => power \in {"connecting", "registering"}
  /\ power \in {"connecting", "registering"} => sent[connection] = <<>>
  /\ \A k \in Connection : k > connection => sent[k] = <<>>
  /\ broker => power \in {"up", "crashed"}

\* Only calls that were made are anywhere.
KnownCalls ==
  /\ ToSet(waiting) \union InRedis \union Replied \subseteq Made
  /\ \A k \in Connection : Inflight(k) \subseteq Made

\* A call waits, is under way on one connection, or its message is stored once.
Apart ==
  /\ \A k \in Connection : Inflight(k) \cap (ToSet(waiting) \union InRedis \union Replied) = {}
  /\ \A j, k \in Connection : j # k => Inflight(j) \cap Inflight(k) = {}
  /\ ToSet(waiting) \cap (InRedis \union Replied) = {}
  /\ \A i, j \in 1..Len(queue) : queue[i] = queue[j] => i = j
  /\ ToSet(queue) \cap Schedulable = {}

\* What the caller has been told, by where its call is.
Truth ==
  /\ \A n \in Made : answers[n] = <<>> \/ \E a \in Answer : answers[n] = <<a>>
  /\ \A n \in ToSet(waiting) \union Replied : answers[n] = <<>>
  /\ power = "up" => \A n \in Inflight(connection) : answers[n] = <<>>
  /\ \A k \in Connection : \A n \in Inflight(k) : answers[n] = <<>> \/ Told(n, "error")
  /\ \A r \in ToSet(replies) : r.is = "ok" => r.call \in InRedis
  /\ \A n \in Made : Told(n, "ok") => n \in InRedis
  /\ \A n \in InRedis : answers[n] = <<>> \/ Told(n, "ok") \/ Told(n, "error")

\* What may still be confirmed is in call order, in the queue and behind it.
Order ==
  /\ Increasing(waiting) /\ \A k \in Connection : Increasing(sent[k])
  /\ \A i, j \in 1..Len(replies) : i < j => replies[i].call < replies[j].call
  /\ power = "up" => \A m \in Replied : \A n \in Inflight(connection) : m < n
  /\ \A i, j \in 1..Len(queue) :
       i < j /\ Live(queue[i]) /\ Live(queue[j]) => queue[i] < queue[j]
  /\ power = "up" => \A m \in ToSet(queue) : Live(m) => \A n \in Inflight(connection) : m < n
  /\ \A m \in ToSet(queue) : Live(m) => \A n \in ToSet(waiting) : m < n

\* The inductive invariant.
ProducerInv == ProducerTypeOK /\ Phases /\ KnownCalls /\ Apart /\ Truth /\ Order

-----------------------------------------------------------------------------
(***************************************************************************)
(* List operations.                                                        *)
(***************************************************************************)

\* The elements of a list.
LEMMA SeqSet ==
  ASSUME NEW S, NEW s \in Seq(S)
  PROVE  /\ \A i \in 1..Len(s) : s[i] \in ToSet(s)
         /\ \A x \in ToSet(s) : x \in S /\ \E i \in 1..Len(s) : s[i] = x
<1>1. ToSet(s) = {s[i] : i \in 1..Len(s)} BY DEF ToSet
<1> QED BY <1>1

\* The empty list.
LEMMA EmptySet == ToSet(<<>>) = {} /\ Len(<<>>) = 0 /\ Increasing(<<>>)
BY DEF ToSet, Increasing

\* RPUSH, or a command written to a connection.
LEMMA AppendSeq ==
  ASSUME NEW S, NEW s \in Seq(S), NEW e \in S, NEW t, t = Append(s, e)
  PROVE  /\ t \in Seq(S) /\ Len(t) = Len(s) + 1 /\ Len(s) \in Nat
         /\ t[Len(s) + 1] = e /\ \A i \in 1..Len(s) : t[i] = s[i]
OBVIOUS

\* Its elements.
LEMMA AppendSet ==
  ASSUME NEW S, NEW s \in Seq(S), NEW e \in S
  PROVE  ToSet(Append(s, e)) = ToSet(s) \union {e}
<1>0. PICK t : t = Append(s, e) OBVIOUS
<1>1. t \in Seq(S) /\ Len(t) = Len(s) + 1 /\ Len(s) \in Nat BY <1>0
<1>2. t[Len(s) + 1] = e /\ \A i \in 1..Len(s) : t[i] = s[i] BY <1>0
<1>3. \A i \in 1..Len(t) : i = Len(s) + 1 \/ i \in 1..Len(s) BY <1>1
<1>4. \A x \in ToSet(t) : x \in ToSet(s) \union {e} BY <1>1, <1>2, <1>3, SeqSet
<1>5. \A x \in ToSet(s) : x \in ToSet(t)
  <2> TAKE x \in ToSet(s)
  <2>1. PICK i \in 1..Len(s) : s[i] = x BY SeqSet
  <2>2. i \in 1..Len(t) /\ t[i] = x BY <1>1, <1>2, <2>1
  <2> QED BY <1>1, <2>2, SeqSet
<1>6. e \in ToSet(t)
  <2>1. Len(s) + 1 \in 1..Len(t) BY <1>1
  <2> QED BY <1>1, <1>2, <2>1, SeqSet
<1>7. ToSet(t) = ToSet(s) \union {e} BY <1>4, <1>5, <1>6
<1> QED BY <1>0, <1>7, Zenon

\* The first command is taken.
LEMMA TailSet ==
  ASSUME NEW S, NEW s \in Seq(S), s # <<>>
  PROVE  /\ Head(s) \in S /\ Tail(s) \in Seq(S) /\ Len(Tail(s)) = Len(s) - 1
         /\ s[1] = Head(s) /\ \A i \in 1..Len(s) - 1 : Tail(s)[i] = s[i + 1]
         /\ ToSet(s) = ToSet(Tail(s)) \union {Head(s)}
<1>1. PICK t : t = Tail(s) OBVIOUS
<1>2. /\ Head(s) \in S /\ t \in Seq(S) /\ Len(t) = Len(s) - 1 /\ Len(s) \in Nat \ {0}
      /\ s[1] = Head(s)
  BY <1>1
<1>3. \A i \in 1..Len(s) - 1 : t[i] = s[i + 1] BY <1>1
<1>4. \A x \in ToSet(t) : x \in ToSet(s)
  <2> TAKE x \in ToSet(t)
  <2>1. PICK i \in 1..Len(t) : t[i] = x BY <1>2, SeqSet
  <2>2. i + 1 \in 1..Len(s) /\ s[i + 1] = x BY <1>2, <1>3, <2>1
  <2> QED BY <2>2, SeqSet
<1>5. \A x \in ToSet(s) : x = Head(s) \/ x \in ToSet(t)
  <2> TAKE x \in ToSet(s)
  <2>1. PICK i \in 1..Len(s) : s[i] = x BY SeqSet
  <2>2. CASE i = 1 BY <1>2, <2>1, <2>2
  <2>3. CASE i # 1
    <3>1. i - 1 \in 1..Len(s) - 1 /\ (i - 1) + 1 = i BY <1>2, <2>3
    <3>2. i - 1 \in 1..Len(t) /\ t[i - 1] = x BY <1>2, <1>3, <2>1, <3>1
    <3> QED BY <1>2, <3>2, SeqSet
  <2> QED BY <2>2, <2>3
<1>6. Head(s) \in ToSet(s)
  <2>1. 1 \in 1..Len(s) BY <1>2
  <2> QED BY <1>2, <2>1, SeqSet
<1> QED BY <1>1, <1>2, <1>3, <1>4, <1>5, <1>6

\* A later call is appended.
LEMMA AppendIncreasing ==
  ASSUME NEW s \in Seq(Call), NEW n \in Call, Increasing(s), \A x \in ToSet(s) : x < n,
         NEW t, t = Append(s, n)
  PROVE  Increasing(t)
<1>1. /\ t \in Seq(Call) /\ Len(t) = Len(s) + 1 /\ Len(s) \in Nat
      /\ t[Len(s) + 1] = n /\ \A i \in 1..Len(s) : t[i] = s[i]
  BY AppendSeq
<1>2. \A i \in 1..Len(s) : s[i] < n BY SeqSet
<1> SUFFICES ASSUME NEW i \in 1..Len(t), NEW j \in 1..Len(t), i < j PROVE t[i] < t[j]
  BY DEF Increasing
<1>3. i \in 1..Len(s) BY <1>1
<1>4. CASE j = Len(s) + 1 BY <1>1, <1>2, <1>3, <1>4
<1>5. CASE j # Len(s) + 1
  <2>1. j \in 1..Len(s) BY <1>1, <1>5
  <2> QED BY <1>1, <1>3, <2>1 DEF Increasing
<1> QED BY <1>4, <1>5

\* The first call is taken.
LEMMA TailIncreasing ==
  ASSUME NEW s \in Seq(Call), s # <<>>, Increasing(s)
  PROVE  /\ Increasing(Tail(s))
         /\ \A x \in ToSet(Tail(s)) : Head(s) < x
         /\ Head(s) \notin ToSet(Tail(s))
<1>1. PICK t : t = Tail(s) OBVIOUS
<1>2. /\ Head(s) \in Call /\ t \in Seq(Call) /\ Len(t) = Len(s) - 1 /\ Len(s) \in Nat
      /\ s[1] = Head(s) /\ \A i \in 1..Len(s) - 1 : t[i] = s[i + 1]
  BY <1>1, TailSet
<1>3. \A i \in 1..Len(t) : i + 1 \in 1..Len(s) /\ 1 < i + 1 /\ 1 \in 1..Len(s) /\ t[i] = s[i + 1]
  BY <1>2
<1>4. Increasing(t)
  <2> SUFFICES ASSUME NEW i \in 1..Len(t), NEW j \in 1..Len(t), i < j PROVE t[i] < t[j]
    BY DEF Increasing
  <2>1. i + 1 < j + 1 BY <1>2
  <2> QED BY <1>3, <2>1 DEF Increasing
<1>5. \A x \in ToSet(t) : Head(s) < x
  <2> TAKE x \in ToSet(t)
  <2>1. PICK i \in 1..Len(t) : t[i] = x BY <1>2, SeqSet
  <2> QED BY <1>2, <1>3, <2>1 DEF Increasing
<1>6. ~(Head(s) < Head(s)) BY <1>2 DEF Call
<1> QED BY <1>1, <1>4, <1>5, <1>6

\* What Tell tells.
LEMMA TellFacts ==
  ASSUME ProducerTypeOK, NEW calls, NEW what \in Answer, Tell(calls, what)
  PROVE  /\ answers' \in Seq(Seq(Answer)) /\ Len(answers') = Len(answers)
         /\ \A n \in Made : answers'[n] = IF n \in calls THEN Append(answers[n], what)
                                          ELSE answers[n]
         /\ Made' = Made
<1>1. PICK N \in Nat : N = Len(answers) /\ Made = 1..N BY DEF ProducerTypeOK, Made
<1>2. \A n \in 1..N : answers[n] \in Seq(Answer) BY <1>1 DEF ProducerTypeOK
<1>3. PICK g : g = [n \in 1..N |-> IF n \in calls THEN Append(answers[n], what) ELSE answers[n]]
  OBVIOUS
<1>4. answers' = g BY <1>1, <1>3 DEF Tell, Made
<1>5. g \in [1..N -> Seq(Answer)] BY <1>2, <1>3
<1>6. g \in Seq(Seq(Answer)) /\ Len(g) = N BY <1>5
<1>7. DOMAIN g = 1..N BY <1>5
<1> QED BY <1>1, <1>3, <1>4, <1>6, <1>7 DEF Made

-----------------------------------------------------------------------------
(***************************************************************************)
(* Type correctness and the phases.                                        *)
(***************************************************************************)

\* Every step keeps the types.
LEMMA ProducerNextType ==
  ASSUME ProducerTypeOK, [ProducerNext]_producerVars
  PROVE  ProducerTypeOK'
<1> USE DEF ProducerTypeOK, redisVars
<1>0. /\ <<>> \in Seq(Call) /\ <<>> \in Seq([call : Call, is : {"ok", "error"}])
      /\ "error" \in Answer
  BY DEF Answer
<1>1. CASE setUpSharedRedisClient BY <1>1 DEF setUpSharedRedisClient, Power
<1>2. CASE Up
  <2>1. sent[connection] \o waiting \in Seq(Call) OBVIOUS
  <2> QED BY <1>0, <1>2, <2>1 DEF Up, Power
<1>3. CASE UpWithoutBroker BY <1>0, <1>3 DEF UpWithoutBroker, Power
<1>4. CASE Shutdown BY <1>0, <1>4, TellFacts DEF Shutdown, Power
<1>5. CASE Down BY <1>5 DEF Down, Power
<1>6. CASE RunAgain BY <1>6, ProducerAssumption DEF RunAgain, Power, Connection
<1>7. CASE Crash BY <1>0, <1>7 DEF Crash, Power
<1>8. CASE produceMessage
  <2>1. PICK n \in Call : n = Len(answers) + 1 /\ Len(answers) \in Nat
    BY <1>8 DEF produceMessage
  <2>2. /\ Append(waiting, n) \in Seq(Call) /\ Append(sent[connection], n) \in Seq(Call)
    OBVIOUS
  <2>3. PICK a \in Seq(Answer) : answers' = Append(answers, a)
    <3>2. \A x \in Answer : <<x>> \in Seq(Answer) OBVIOUS
    <3>1. <<>> \in Seq(Answer) /\ <<"notRunning">> \in Seq(Answer) /\ <<"thrown">> \in Seq(Answer)
          /\ <<"silent">> \in Seq(Answer)
      BY <3>2 DEF Answer
    <3> QED BY <1>8, <3>1 DEF produceMessage, NoBroker
  <2>4. answers' \in Seq(Seq(Answer)) /\ Len(answers') = n BY <2>1, <2>3
  <2>5. Len(answers') <= MaxCalls BY <2>1, <2>4, ProducerAssumption DEF Call
  <2>6. waiting' = waiting \/ waiting' = Append(waiting, n)
    BY <1>8, <2>1 DEF produceMessage
  <2>7. sent' = sent \/ sent' = [sent EXCEPT ![connection] = Append(@, n)]
    BY <1>8, <2>1 DEF produceMessage
  <2>8. waiting' \in Seq(Call) /\ sent' \in [Connection -> Seq(Call)] BY <2>2, <2>6, <2>7
  <2>9. UNCHANGED <<power, broker, connection, replies, queue, scheduled>>
    BY <1>8 DEF produceMessage
  <2> QED BY <2>4, <2>5, <2>8, <2>9
<1>9. ASSUME NEW k \in Connection, Execute(k) PROVE ProducerTypeOK'
  <2>1. PICK n \in Call : n = Head(sent[k]) /\ Tail(sent[k]) \in Seq(Call)
    BY <1>9 DEF Execute
  <2>2. Append(queue, n) \in Seq(Call) OBVIOUS
  <2>3. Append(replies, [call |-> n, is |-> "ok"]) \in Seq([call : Call, is : {"ok", "error"}])
    OBVIOUS
  <2>4. /\ queue' = queue \/ queue' = Append(queue, n)
        /\ scheduled' = scheduled \/ (n \in Schedulable /\ scheduled' = scheduled \union {n})
        /\ replies' = replies \/ replies' = Append(replies, [call |-> n, is |-> "ok"])
        /\ sent' = [sent EXCEPT ![k] = Tail(@)]
        /\ UNCHANGED <<power, broker, connection, waiting, answers>>
    BY <1>9, <2>1 DEF Execute
  <2>5. queue' \in Seq(Call) /\ scheduled' \subseteq Schedulable
        /\ replies' \in Seq([call : Call, is : {"ok", "error"}])
    BY <2>2, <2>3, <2>4
  <2>6. sent' \in [Connection -> Seq(Call)] BY <2>1, <2>4
  <2> QED BY <2>4, <2>5, <2>6
<1>10. CASE Refuse
  <2>1. PICK n \in Call : n = Head(sent[connection]) /\ Tail(sent[connection]) \in Seq(Call)
    BY <1>10 DEF Refuse
  <2>2. Append(replies, [call |-> n, is |-> "error"]) \in Seq([call : Call, is : {"ok", "error"}])
    OBVIOUS
  <2> QED BY <1>10, <2>1, <2>2 DEF Refuse
<1>11. CASE Callback
  <2>1. Head(replies) \in [call : Call, is : {"ok", "error"}]
        /\ Tail(replies) \in Seq([call : Call, is : {"ok", "error"}])
    <3>1. replies \in Seq([call : Call, is : {"ok", "error"}]) /\ replies # <<>>
      BY <1>11 DEF Callback
    <3> HIDE DEF ProducerTypeOK
    <3> QED BY <3>1, TailSet
  <2>2. Head(replies).is \in Answer BY <2>1 DEF Answer
  <2>3. answers' \in Seq(Seq(Answer)) /\ Len(answers') = Len(answers)
    BY <1>11, <2>2, TellFacts DEF Callback
  <2> QED BY <1>11, <2>1, <2>3 DEF Callback
<1>12. CASE ConnectionLost
  BY <1>0, <1>12, TellFacts, ProducerAssumption DEF ConnectionLost, Connection
<1>13. ASSUME NEW k \in Connection, Dropped(k) PROVE ProducerTypeOK'
  BY <1>0, <1>13 DEF Dropped
<1>14. CASE UNCHANGED producerVars BY <1>14 DEF producerVars
<1> QED BY <1>1, <1>2, <1>3, <1>4, <1>5, <1>6, <1>7, <1>8, <1>9, <1>10, <1>11, <1>12,
           <1>13, <1>14 DEF ProducerNext

\* Every step keeps the phases.
LEMMA PhasesNext ==
  ASSUME ProducerTypeOK, Phases, [ProducerNext]_producerVars
  PROVE  Phases'
<1> USE DEF ProducerTypeOK, Phases, redisVars
<1>1. CASE setUpSharedRedisClient BY <1>1 DEF setUpSharedRedisClient
<1>2. CASE Up BY <1>2 DEF Up, Connection
<1>3. CASE UpWithoutBroker BY <1>3 DEF UpWithoutBroker
<1>4. CASE Shutdown BY <1>4 DEF Shutdown
<1>5. CASE Down BY <1>5 DEF Down
<1>6. CASE RunAgain BY <1>6, ProducerAssumption DEF RunAgain, Connection
<1>7. CASE Crash BY <1>7 DEF Crash
<1>8. CASE produceMessage
  <2>1. /\ UNCHANGED <<power, broker, connection, replies>>
        /\ waiting' = waiting \/ power \in {"connecting", "registering"}
        /\ \/ sent' = sent
           \/ /\ power \in {"up", "goingDown"}
              /\ sent' = [sent EXCEPT ![connection] = Append(@, Len(answers) + 1)]
    BY <1>8 DEF produceMessage
  <2>2. \A k \in Connection : k > connection => sent'[k] = sent[k]
    <3>1. \A k \in Connection : k > connection => k # connection BY DEF Connection
    <3> QED BY <2>1, <3>1
  <2> QED BY <2>1, <2>2
<1>9. ASSUME NEW k \in Connection, Execute(k) \/ Dropped(k) PROVE Phases'
  <2>1. /\ UNCHANGED <<power, broker, connection, waiting>> /\ sent[k] # <<>>
        /\ \A j \in Connection : j # k => sent'[j] = sent[j]
        /\ replies' = replies \/ power = "up"
    BY <1>9 DEF Execute, Dropped, Open
  <2>2. ~(k > connection) /\ ~(power \in {"connecting", "registering"} /\ k = connection)
    BY <2>1
  <2> QED BY <2>1, <2>2
<1>10. CASE Refuse
  <2>1. \A k \in Connection : k > connection => sent'[k] = sent[k] BY <1>10 DEF Refuse, Connection
  <2> QED BY <1>10, <2>1 DEF Refuse
<1>11. CASE Callback BY <1>11 DEF Callback
<1>12. CASE ConnectionLost BY <1>12, ProducerAssumption DEF ConnectionLost, Connection
<1>13. CASE UNCHANGED producerVars BY <1>13 DEF producerVars
<1> QED BY <1>1, <1>2, <1>3, <1>4, <1>5, <1>6, <1>7, <1>8, <1>9, <1>10, <1>11, <1>12,
           <1>13 DEF ProducerNext

-----------------------------------------------------------------------------
(***************************************************************************)
(* Where the calls are and what their callers know.                        *)
(***************************************************************************)

\* The parts of the invariant that a step of the data can disturb.
Data == KnownCalls /\ Apart /\ Truth /\ Order

\* A step that only forgets: listeners, replies or what was written.
LEMMA ForgetKeeps ==
  ASSUME ProducerTypeOK, Data, UNCHANGED <<queue, scheduled, answers>>,
         connection' \in Connection,
         replies' = replies \/ replies' = <<>>,
         waiting' = waiting \/ waiting' = <<>>,
         \A k \in Connection : sent'[k] = sent[k] \/ sent'[k] = <<>>,
         power' = "up" => \/ power = "up" /\ connection' = connection
                         \/ sent'[connection'] = <<>>
  PROVE  Data'
<1> USE DEF Data
<1>1. \A k \in Connection : Inflight(k)' \subseteq Inflight(k)
  BY EmptySet DEF Inflight
<1>2. ToSet(waiting') \subseteq ToSet(waiting) /\ ToSet(replies') \subseteq ToSet(replies)
  BY EmptySet
<1>3. Replied' \subseteq Replied BY <1>2 DEF Replied
<1>4. InRedis' = InRedis /\ Made' = Made BY DEF InRedis, Made
<1>5. \A n : (Live(n)' => Live(n)) /\ \A a : Told(n, a)' <=> Told(n, a)
  BY <1>2 DEF Live, Told
<1>6. power' = "up" => \A n \in Inflight(connection)' : power = "up" /\ n \in Inflight(connection)
  BY EmptySet DEF Inflight
<1>7. KnownCalls' BY <1>1, <1>2, <1>3, <1>4 DEF KnownCalls
<1>8. Apart' BY <1>1, <1>2, <1>3, <1>4 DEF Apart
<1>9. Truth' BY <1>1, <1>2, <1>3, <1>4, <1>5, <1>6 DEF Truth
<1>10. Order'
  <2>1. Increasing(waiting') BY EmptySet DEF Order
  <2>2. \A k \in Connection : Increasing(sent'[k]) BY EmptySet DEF Order
  <2>3. \A i, j \in 1..Len(replies') : i < j => replies'[i].call < replies'[j].call
    BY EmptySet DEF Order
  <2>4. power' = "up" => \A m \in Replied' : \A n \in Inflight(connection)' : m < n
    BY <1>3, <1>6 DEF Order
  <2>5. \A i, j \in 1..Len(queue') :
          i < j /\ Live(queue[i])' /\ Live(queue[j])' => queue'[i] < queue'[j]
    BY <1>5 DEF Order
  <2>6. power' = "up" => \A m \in ToSet(queue') : Live(m)' =>
                           \A n \in Inflight(connection)' : m < n
    BY <1>5, <1>6 DEF Order
  <2>7. \A m \in ToSet(queue') : Live(m)' => \A n \in ToSet(waiting') : m < n
    BY <1>2, <1>5 DEF Order
  <2> QED BY <2>1, <2>2, <2>3, <2>4, <2>5, <2>6, <2>7 DEF Order
<1> QED BY <1>7, <1>8, <1>9, <1>10

\* The commands without a reply are aborted and their callers told.
LEMMA AbortKeeps ==
  ASSUME ProducerTypeOK, ProducerTypeOK', Data, power = "up", Tell(Unanswered, "error"),
         replies' = <<>>, UNCHANGED <<waiting, sent, queue, scheduled>>,
         power' = "up" => sent'[connection'] = <<>>,
         waiting = <<>>
  PROVE  Data'
<1> USE DEF Data
<1>1. /\ Made' = Made
      /\ \A n \in Made : answers'[n] = IF n \in Unanswered THEN Append(answers[n], "error")
                                       ELSE answers[n]
  <2>1. "error" \in Answer BY DEF Answer
  <2> QED BY <2>1, TellFacts
<1>2. Unanswered = Inflight(connection) \union Replied BY DEF Unanswered, Inflight, Replied
<1>3. \A n \in Unanswered : n \in Made /\ answers[n] = <<>>
  <2>1. \A n \in Inflight(connection) : n \in Made /\ answers[n] = <<>>
    <3>1. connection \in Connection BY DEF ProducerTypeOK
    <3> QED BY <3>1 DEF KnownCalls, Truth
  <2>2. \A n \in Replied : n \in Made /\ answers[n] = <<>> BY DEF KnownCalls, Truth
  <2> QED BY <1>2, <2>1, <2>2
<1>4. Append(<<>>, "error") = <<"error">> OBVIOUS
<1>5. \A n \in Made : \/ answers'[n] = answers[n] /\ n \notin Unanswered
                      \/ answers[n] = <<>> /\ Told(n, "error")' /\ n \in Unanswered
  <2> TAKE n \in Made
  <2>1. CASE n \in Unanswered
    <3>1. answers'[n] = Append(answers[n], "error") BY <1>1, <2>1
    <3>2. answers[n] = <<>> BY <1>3, <2>1
    <3>3. answers'[n] = <<"error">> BY <1>4, <3>1, <3>2
    <3>4. Told(n, "error")' BY <3>3 DEF Told
    <3> QED BY <2>1, <3>2, <3>4
  <2>2. CASE n \notin Unanswered
    <3>1. answers'[n] = answers[n]
      <4>1. answers'[n] = IF n \in Unanswered THEN Append(answers[n], "error") ELSE answers[n]
        BY <1>1
      <4> QED BY <2>2, <4>1
    <3> QED BY <2>2, <3>1
  <2> QED BY <2>1, <2>2
<1>6. Replied' = {} /\ ToSet(replies') = {} /\ ToSet(waiting') = {} BY EmptySet DEF Replied
<1>7. InRedis' = InRedis /\ (\A k \in Connection : Inflight(k)' = Inflight(k))
      /\ ToSet(queue') = ToSet(queue)
  BY DEF InRedis, Inflight
<1>8. power' = "up" => Inflight(connection)' = {} BY EmptySet DEF Inflight
<1>9. \A n \in Made : Told(n, "ok")' => Told(n, "ok") BY <1>5 DEF Told
<1>10. \A n \in Made : Live(n)' => Live(n) BY <1>6, <1>9 DEF Live
<1>11. KnownCalls' BY <1>1, <1>6, <1>7 DEF KnownCalls
<1>12. Apart' BY <1>6, <1>7 DEF Apart
<1>13. Truth'
  <2>1. "error" \in Answer BY DEF Answer
  <2>2. \A n \in Made' : answers'[n] = <<>> \/ \E a \in Answer : answers'[n] = <<a>>
    BY <1>1, <1>5, <2>1 DEF Truth, Told
  <2>3. \A k \in Connection : \A n \in Inflight(k)' : answers'[n] = <<>> \/ Told(n, "error")'
    BY <1>5, <1>7 DEF Truth, KnownCalls, Told
  <2>4. \A n \in Made' : Told(n, "ok")' => n \in InRedis' BY <1>1, <1>7, <1>9 DEF Truth
  <2>5. \A n \in InRedis' : answers'[n] = <<>> \/ Told(n, "ok")' \/ Told(n, "error")'
    BY <1>5, <1>7 DEF Truth, KnownCalls, Told
  <2> QED BY <1>6, <1>8, <2>2, <2>3, <2>4, <2>5 DEF Truth
<1>14. Order'
  <2>1. Increasing(waiting') /\ \A k \in Connection : Increasing(sent'[k]) BY DEF Order
  <2>2. \A i, j \in 1..Len(replies') : i < j => replies'[i].call < replies'[j].call
    BY EmptySet
  <2>3. \A i \in 1..Len(queue) : queue[i] \in Made
    BY SeqSet DEF KnownCalls, InRedis, ProducerTypeOK
  <2>4. \A i, j \in 1..Len(queue') :
          i < j /\ Live(queue[i])' /\ Live(queue[j])' => queue'[i] < queue'[j]
    BY <1>10, <2>3 DEF Order
  <2> QED BY <1>6, <1>8, <2>1, <2>2, <2>4 DEF Order
<1> QED BY <1>11, <1>12, <1>13, <1>14

\* The listeners for UP send what waits.
LEMMA UpKeeps ==
  ASSUME ProducerTypeOK, Phases, Data, Up
  PROVE  Data'
<1> USE DEF Data
<1>1. /\ power = "registering" /\ sent[connection] = <<>> /\ connection \in Connection
      /\ UNCHANGED <<connection, replies, queue, scheduled, answers>> /\ waiting' = <<>>
      /\ sent' = [sent EXCEPT ![connection] = <<>> \o waiting] /\ power' = "up"
      /\ replies = <<>>
  BY DEF Up, Phases, ProducerTypeOK, redisVars
<1>2. <<>> \o waiting = waiting BY DEF ProducerTypeOK
<1>3. \A k \in Connection : sent'[k] = IF k = connection THEN waiting ELSE sent[k]
  BY <1>1, <1>2 DEF ProducerTypeOK
<1>4. \A k \in Connection : Inflight(k)' = IF k = connection THEN ToSet(waiting) ELSE Inflight(k)
  BY <1>3 DEF Inflight
<1>5. Replied' = Replied /\ Replied = {} /\ ToSet(replies') = {} /\ ToSet(waiting') = {}
  BY <1>1, EmptySet DEF Replied
<1>6. InRedis' = InRedis /\ Made' = Made /\ Inflight(connection)' = ToSet(waiting)
  BY <1>1, <1>3 DEF InRedis, Made, Inflight
<1>7. \A n : (Live(n)' <=> Live(n)) /\ \A a : Told(n, a)' <=> Told(n, a)
  BY <1>1 DEF Live, Told
<1>8. KnownCalls' BY <1>4, <1>5, <1>6 DEF KnownCalls
<1>9. Apart'
  <2>1. \A k \in Connection : Inflight(k) \cap ToSet(waiting) = {}
        /\ ToSet(waiting) \cap (InRedis \union Replied) = {}
    BY DEF Apart
  <2>2. \A k \in Connection :
          Inflight(k)' \cap (ToSet(waiting') \union InRedis' \union Replied') = {}
    BY <1>4, <1>5, <1>6, <2>1 DEF Apart
  <2>3. \A j, k \in Connection : j # k => Inflight(j)' \cap Inflight(k)' = {}
    BY <1>4, <2>1 DEF Apart
  <2> QED BY <1>1, <1>5, <2>2, <2>3 DEF Apart
<1>10. Truth'
  <2>1. \A k \in Connection : \A n \in Inflight(k)' : answers[n] = <<>> \/ Told(n, "error")
    BY <1>4 DEF Truth
  <2>2. \A n \in Inflight(connection)' : answers[n] = <<>> BY <1>6 DEF Truth
  <2> QED BY <1>1, <1>5, <1>6, <1>7, <2>1, <2>2 DEF Truth
<1>11. Order'
  <2>1. Increasing(waiting') /\ \A k \in Connection : Increasing(sent'[k])
    BY <1>1, <1>3, EmptySet DEF Order
  <2>2. \A m \in ToSet(queue) : Live(m)' => \A n \in Inflight(connection)' : m < n
    BY <1>6, <1>7 DEF Order
  <2>3. \A i, j \in 1..Len(queue) :
          i < j /\ Live(queue[i])' /\ Live(queue[j])' => queue[i] < queue[j]
    BY <1>1, <1>7 DEF Order
  <2> QED BY <1>1, <1>5, <2>1, <2>2, <2>3, EmptySet DEF Order
<1> QED BY <1>8, <1>9, <1>10, <1>11

\* A call is made: its number is above all others.
LEMMA ProduceKeeps ==
  ASSUME ProducerTypeOK, Phases, Data, produceMessage
  PROVE  Data'
<1> USE DEF Data
<1>1. PICK n \in Call : n = Len(answers) + 1 /\ Made = 1..n - 1 /\ n \in Nat
  BY DEF produceMessage, Made, Call, ProducerTypeOK
<1>2. PICK a : /\ answers' = Append(answers, a)
               /\ \/ a = <<>>
                  \/ a \in {<<"notRunning">>, <<"thrown">>, <<"silent">>}
                     /\ waiting' = waiting /\ sent' = sent
  BY DEF produceMessage, NoBroker
<1>3. Made' = 1..n /\ answers'[n] = a /\ \A m \in Made : answers'[m] = answers[m]
  <2>1. answers \in Seq(Seq(Answer)) BY DEF ProducerTypeOK
  <2>2. /\ DOMAIN Append(answers, a) = 1..Len(answers) + 1
        /\ Append(answers, a)[Len(answers) + 1] = a
        /\ \A m \in 1..Len(answers) : Append(answers, a)[m] = answers[m]
    BY <2>1
  <2> QED BY <1>1, <1>2, <2>1, <2>2 DEF Made
<1>4. n \notin Made /\ Made' = Made \union {n} /\ \A m \in Made : m < n BY <1>1, <1>3
<1>5. UNCHANGED <<power, connection, replies, queue, scheduled>>
  BY DEF produceMessage, redisVars
<1>6. \/ waiting' = waiting
      \/ waiting' = Append(waiting, n) /\ a = <<>> /\ sent' = sent
         /\ power \in {"connecting", "registering"}
  BY <1>1, <1>2 DEF produceMessage, NoBroker
<1>7. \/ sent' = sent
      \/ /\ sent' = [sent EXCEPT ![connection] = Append(@, n)] /\ waiting' = waiting
         /\ power = "up" /\ a = <<>>
  BY <1>1, <1>2 DEF produceMessage, Phases, NoBroker
<1>8. /\ Replied' = Replied /\ InRedis' = InRedis /\ ToSet(queue') = ToSet(queue)
      /\ Replied \subseteq Made /\ InRedis \subseteq Made /\ ToSet(waiting) \subseteq Made
      /\ connection \in Connection
      /\ \A k \in Connection : Inflight(k) \subseteq Made
  BY <1>5 DEF Replied, InRedis, KnownCalls, ProducerTypeOK
<1>81. Increasing(waiting) /\ \A k \in Connection : Increasing(sent[k]) BY DEF Order
<1>9. ASSUME NEW s, waiting' = s
      PROVE  /\ ToSet(s) \subseteq ToSet(waiting) \union {n} /\ Increasing(s)
             /\ n \in ToSet(s) => a = <<>> /\ sent' = sent
  <2>1. CASE s = waiting BY <1>4, <1>8, <1>81, <2>1
  <2>2. CASE s # waiting
    <3>1. s = Append(waiting, n) /\ a = <<>> /\ sent' = sent BY <1>6, <1>9, <2>2
    <3>2. waiting \in Seq(Call) /\ Increasing(waiting) BY DEF ProducerTypeOK, Order
    <3>3. ToSet(s) = ToSet(waiting) \union {n}
      <4>1. ToSet(Append(waiting, n)) = ToSet(waiting) \union {n} BY <3>2, AppendSet
      <4> QED BY <3>1, <4>1, Zenon
    <3>4. Increasing(s) BY <1>4, <1>8, <3>1, <3>2, AppendIncreasing
    <3> QED BY <3>1, <3>3, <3>4
  <2> QED BY <2>1, <2>2
<1>10. ASSUME NEW k \in Connection
       PROVE  /\ Inflight(k)' \subseteq Inflight(k) \union {n} /\ Increasing(sent'[k])
              /\ n \in Inflight(k)' => a = <<>> /\ waiting' = waiting /\ k = connection
  <2>1. CASE sent'[k] = sent[k]
    <3>1. Inflight(k)' = Inflight(k) BY <2>1 DEF Inflight
    <3>2. n \notin Inflight(k) BY <1>4, <1>8
    <3>3. Increasing(sent'[k]) BY <1>81, <2>1
    <3> QED BY <3>1, <3>2, <3>3
  <2>2. CASE sent'[k] # sent[k]
    <3>1. /\ k = connection /\ sent'[k] = Append(sent[k], n) /\ a = <<>> /\ waiting' = waiting
      BY <1>7, <2>2 DEF ProducerTypeOK
    <3>2. sent[k] \in Seq(Call) /\ Increasing(sent[k]) BY DEF ProducerTypeOK, Order
    <3>3. ToSet(sent'[k]) = ToSet(sent[k]) \union {n}
      <4>1. ToSet(Append(sent[k], n)) = ToSet(sent[k]) \union {n} BY <3>2, AppendSet
      <4> QED BY <3>1, <4>1, Zenon
    <3>4. \A x \in ToSet(sent[k]) : x < n BY <1>4, <1>8 DEF Inflight
    <3>5. Increasing(sent'[k]) BY <3>1, <3>2, <3>4, AppendIncreasing
    <3> QED BY <3>1, <3>3, <3>5 DEF Inflight
  <2> QED BY <2>1, <2>2
<1>11. PICK s : s = waiting' /\ ToSet(s) \subseteq ToSet(waiting) \union {n} /\ Increasing(s)
                /\ (n \in ToSet(s) => a = <<>> /\ sent' = sent)
  BY <1>9
<1>12. n \in ToSet(s) => \A k \in Connection : n \notin Inflight(k)'
  BY <1>4, <1>8, <1>11 DEF Inflight
<1>13. \A m \in Made : \A b : Told(m, b)' <=> Told(m, b) BY <1>3 DEF Told
<1>14. \A m \in Made : Live(m)' <=> Live(m) BY <1>5, <1>13 DEF Live
<1>15. KnownCalls' BY <1>4, <1>8, <1>10, <1>11 DEF KnownCalls
<1>16. Apart'
  <2>1. ASSUME NEW k \in Connection
        PROVE  Inflight(k)' \cap (ToSet(s) \union InRedis \union Replied) = {}
    BY <1>4, <1>8, <1>10, <1>11, <1>12 DEF Apart
  <2>2. ASSUME NEW j \in Connection, NEW k \in Connection, j # k
        PROVE  Inflight(j)' \cap Inflight(k)' = {}
    BY <1>4, <1>8, <1>10, <2>2 DEF Apart
  <2>3. ToSet(s) \cap (InRedis \union Replied) = {} BY <1>4, <1>8, <1>11 DEF Apart
  <2> QED BY <1>5, <1>8, <1>11, <2>1, <2>2, <2>3 DEF Apart
<1>17. Truth'
  <2>1. a = <<>> \/ \E b \in Answer : a = <<b>> BY <1>2 DEF Answer
  <2>2. \A m \in Made' : answers'[m] = <<>> \/ \E b \in Answer : answers'[m] = <<b>>
    BY <1>3, <1>4, <2>1 DEF Truth
  <2>3. \A m \in ToSet(s) \union Replied : answers'[m] = <<>>
    BY <1>3, <1>8, <1>11 DEF Truth
  <2>4. power = "up" => \A m \in Inflight(connection)' : answers'[m] = <<>>
    BY <1>3, <1>5, <1>8, <1>10 DEF Truth
  <2>5. \A k \in Connection : \A m \in Inflight(k)' : answers'[m] = <<>> \/ Told(m, "error")'
    BY <1>3, <1>8, <1>10, <1>13 DEF Truth
  <2>6. \A r \in ToSet(replies) : r.is = "ok" => r.call \in InRedis BY DEF Truth
  <2>7. ~Told(n, "ok")'
    <3>1. <<"ok">> # <<>> /\ <<"ok">> # <<"notRunning">> /\ <<"ok">> # <<"thrown">>
          /\ <<"ok">> # <<"silent">>
      OBVIOUS
    <3> QED BY <1>2, <1>3, <3>1 DEF Told
  <2>8. \A m \in Made' : Told(m, "ok")' => m \in InRedis BY <1>4, <1>13, <2>7 DEF Truth
  <2>9. \A m \in InRedis : answers'[m] = <<>> \/ Told(m, "ok")' \/ Told(m, "error")'
    BY <1>3, <1>8, <1>13 DEF Truth
  <2> QED BY <1>5, <1>8, <1>11, <2>2, <2>3, <2>4, <2>5, <2>6, <2>8, <2>9 DEF Truth
<1>18. Order'
  <2>1. \A i \in 1..Len(queue) : queue[i] \in Made /\ queue[i] \in ToSet(queue)
    BY <1>8, SeqSet DEF InRedis, ProducerTypeOK
  <2>2. \A m \in ToSet(queue) : m \in Made BY <1>8 DEF InRedis
  <2>3. power = "up" => \A m \in Replied : \A x \in Inflight(connection)' : m < x
    BY <1>4, <1>5, <1>8, <1>10 DEF Order
  <2>4. \A i, j \in 1..Len(queue) :
          i < j /\ Live(queue[i])' /\ Live(queue[j])' => queue[i] < queue[j]
    BY <1>5, <1>14, <2>1 DEF Order
  <2>5. power = "up" => \A m \in ToSet(queue) : Live(m)' =>
                          \A x \in Inflight(connection)' : m < x
    BY <1>4, <1>5, <1>8, <1>10, <1>14, <2>2 DEF Order
  <2>6. \A m \in ToSet(queue) : Live(m)' => \A x \in ToSet(s) : m < x
    BY <1>4, <1>11, <1>14, <2>2 DEF Order
  <2>7. \A i, j \in 1..Len(replies) : i < j => replies[i].call < replies[j].call BY DEF Order
  <2> QED BY <1>5, <1>8, <1>10, <1>11, <2>3, <2>4, <2>5, <2>6, <2>7 DEF Order
<1> QED BY <1>15, <1>16, <1>17, <1>18

\* The first command of a connection is carried to Redis.
LEMMA TakeFacts ==
  ASSUME ProducerTypeOK, Data, NEW k \in Connection, sent[k] # <<>>,
         sent' = [sent EXCEPT ![k] = Tail(@)], NEW n, n = Head(sent[k])
  PROVE  /\ n \in Call /\ n \in Made /\ n \in Inflight(k)
         /\ n \notin ToSet(waiting) /\ n \notin InRedis /\ n \notin Replied
         /\ \A j \in Connection : Inflight(j)' \subseteq Inflight(j) /\ n \notin Inflight(j)'
         /\ \A m \in Inflight(k)' : n < m
         /\ \A j \in Connection : Increasing(sent'[j])
<1>1. sent[k] \in Seq(Call) /\ Increasing(sent[k]) /\ \A j \in Connection : Increasing(sent[j])
  BY DEF ProducerTypeOK, Data, Order
<1>2. PICK t : t = Tail(sent[k]) OBVIOUS
<1>3. n \in Call /\ ToSet(sent[k]) = ToSet(t) \union {n} BY <1>1, <1>2, TailSet
<1>4. Increasing(t) /\ (\A m \in ToSet(t) : n < m) /\ n \notin ToSet(t)
  BY <1>1, <1>2, TailIncreasing
<1>5. sent'[k] = t /\ \A j \in Connection : j # k => sent'[j] = sent[j]
  BY <1>2 DEF ProducerTypeOK
<1>6. Inflight(k)' = ToSet(t) /\ \A j \in Connection : j # k => Inflight(j)' = Inflight(j)
  BY <1>5 DEF Inflight
<1>7. n \in Inflight(k) /\ Inflight(k)' \subseteq Inflight(k) BY <1>3, <1>6 DEF Inflight
<1>8. n \in Made BY <1>7 DEF Data, KnownCalls
<1>9. n \notin ToSet(waiting) /\ n \notin InRedis /\ n \notin Replied
  BY <1>7 DEF Data, Apart
<1>10. \A j \in Connection : j # k => n \notin Inflight(j) BY <1>7 DEF Data, Apart
<1>11. \A j \in Connection : Inflight(j)' \subseteq Inflight(j) /\ n \notin Inflight(j)'
  BY <1>4, <1>6, <1>7, <1>10
<1>12. \A j \in Connection : Increasing(sent'[j]) BY <1>1, <1>4, <1>5
<1>13. \A m \in Inflight(k)' : n < m BY <1>4, <1>6
<1> QED BY <1>3, <1>7, <1>8, <1>9, <1>11, <1>12, <1>13

\* A reply goes out.
LEMMA ReplyFacts ==
  ASSUME ProducerTypeOK, Data, NEW n \in Call, NEW b \in {"ok", "error"},
         NEW r, r = [call |-> n, is |-> b], replies' = Append(replies, r),
         \A m \in Replied : m < n
  PROVE  /\ ToSet(replies') = ToSet(replies) \union {r} /\ Replied' = Replied \union {n}
         /\ \A i, j \in 1..Len(replies') : i < j => replies'[i].call < replies'[j].call
<1> DEFINE Reply == [call : Call, is : {"ok", "error"}]
<1>1. replies \in Seq(Reply) BY DEF ProducerTypeOK
<1>2. r \in Reply /\ r.call = n OBVIOUS
<1> HIDE DEF Reply
<1>3. ToSet(Append(replies, r)) = ToSet(replies) \union {r} BY <1>1, <1>2, AppendSet
<1>4. ToSet(replies') = ToSet(replies) \union {r} BY <1>3, Zenon
<1>5. Replied' = Replied \union {n} BY <1>2, <1>4 DEF Replied
<1>6. PICK t : t = replies' OBVIOUS
<1>7. t = Append(replies, r) BY <1>6
<1>8. /\ Len(t) = Len(replies) + 1 /\ Len(replies) \in Nat
      /\ t[Len(replies) + 1] = r /\ \A i \in 1..Len(replies) : t[i] = replies[i]
  BY <1>1, <1>2, <1>7, AppendSeq
<1>9. \A i \in 1..Len(replies) : replies[i].call < n
  <2>1. \A i \in 1..Len(replies) : replies[i] \in ToSet(replies) BY <1>1, SeqSet
  <2> QED BY <2>1 DEF Replied
<1>10. ASSUME NEW i \in 1..Len(t), NEW j \in 1..Len(t), i < j PROVE t[i].call < t[j].call
  <2>1. i \in 1..Len(replies) BY <1>8, <1>10
  <2>2. t[i] = replies[i] BY <1>8, <2>1
  <2>3. CASE j = Len(replies) + 1 BY <1>2, <1>8, <1>9, <2>1, <2>2, <2>3
  <2>4. CASE j # Len(replies) + 1
    <3>1. j \in 1..Len(replies) BY <1>8, <2>4
    <3>2. t[j] = replies[j] BY <1>8, <3>1
    <3> QED BY <1>10, <2>1, <2>2, <3>1, <3>2 DEF Data, Order
  <2> QED BY <2>3, <2>4
<1> QED BY <1>4, <1>5, <1>6, <1>10

\* Redis refuses a command: the reply says so.
LEMMA RefuseKeeps ==
  ASSUME ProducerTypeOK, Phases, Data, Refuse
  PROVE  Data'
<1> USE DEF Data
<1>1. PICK n : n = Head(sent[connection]) OBVIOUS
<1>2. /\ connection \in Connection /\ sent[connection] # <<>> /\ power = "up"
      /\ UNCHANGED <<power, connection, waiting, queue, scheduled, answers>>
      /\ sent' = [sent EXCEPT ![connection] = Tail(@)]
      /\ replies' = Append(replies, [call |-> n, is |-> "error"])
  BY <1>1 DEF Refuse, ProducerTypeOK, redisVars
<1>3. /\ n \in Call /\ n \in Made /\ n \in Inflight(connection)
      /\ n \notin ToSet(waiting) /\ n \notin InRedis /\ n \notin Replied
      /\ \A j \in Connection : Inflight(j)' \subseteq Inflight(j) /\ n \notin Inflight(j)'
      /\ \A m \in Inflight(connection)' : n < m
      /\ \A j \in Connection : Increasing(sent'[j])
  <2> HIDE DEF Data
  <2>1. \A k \in Connection : k = connection => \A m \in ToSet(sent'[k]) : n < m
    BY <1>1, <1>2, TakeFacts DEF Inflight
  <2>2. \A m \in Inflight(connection)' : n < m BY <1>2, <2>1 DEF Inflight
  <2> QED BY <1>1, <1>2, <2>2, TakeFacts
<1>4. PICK r : r = [call |-> n, is |-> "error"] OBVIOUS
<1>5. \A m \in Replied : m < n BY <1>2, <1>3 DEF Order
<1>6. /\ ToSet(replies') = ToSet(replies) \union {r} /\ Replied' = Replied \union {n}
      /\ \A i, j \in 1..Len(replies') : i < j => replies'[i].call < replies'[j].call
  <2> HIDE DEF Data
  <2> QED BY <1>2, <1>3, <1>4, <1>5, ReplyFacts
<1>7. r.call = n /\ r.is = "error" BY <1>4
<1>8. InRedis' = InRedis /\ Made' = Made /\ ToSet(waiting') = ToSet(waiting)
      /\ ToSet(queue') = ToSet(queue) /\ Inflight(connection)' \subseteq Inflight(connection)
  BY <1>2, <1>3 DEF InRedis, Made
<1>9. \A m : (Live(m)' <=> Live(m)) /\ \A b : Told(m, b)' <=> Told(m, b)
  BY <1>2, <1>6, <1>7 DEF Live, Told
<1>10. KnownCalls' BY <1>3, <1>6, <1>8 DEF KnownCalls
<1>11. Apart' BY <1>2, <1>3, <1>6, <1>8 DEF Apart
<1>12. Truth'
  <2>1. answers[n] = <<>> BY <1>2, <1>3 DEF Truth
  <2>2. \A m \in ToSet(waiting') \union Replied' : answers'[m] = <<>>
    BY <1>2, <1>6, <1>8, <2>1 DEF Truth
  <2>3. \A q \in ToSet(replies') : q.is = "ok" => q.call \in InRedis'
    BY <1>6, <1>7, <1>8 DEF Truth
  <2>4. \A m \in Inflight(connection)' : answers'[m] = <<>> BY <1>2, <1>8 DEF Truth
  <2> QED BY <1>2, <1>3, <1>8, <1>9, <2>2, <2>3, <2>4 DEF Truth
<1>13. Order'
  <2>1. \A m \in Replied' : \A x \in Inflight(connection)' : m < x
    BY <1>2, <1>3, <1>6, <1>8 DEF Order
  <2>2. \A i, j \in 1..Len(queue) :
          i < j /\ Live(queue[i])' /\ Live(queue[j])' => queue[i] < queue[j]
    BY <1>2, <1>9 DEF Order
  <2>3. \A m \in ToSet(queue) : Live(m)' => \A x \in Inflight(connection)' : m < x
    BY <1>2, <1>8, <1>9 DEF Order
  <2>4. \A m \in ToSet(queue) : Live(m)' => \A x \in ToSet(waiting) : m < x
    BY <1>9 DEF Order
  <2>5. Increasing(waiting) BY DEF Order
  <2> QED BY <1>2, <1>3, <1>6, <2>1, <2>2, <2>3, <2>4, <2>5 DEF Order
<1> QED BY <1>10, <1>11, <1>12, <1>13

\* A caller is told what the first reply says.
LEMMA CallbackKeeps ==
  ASSUME ProducerTypeOK, Phases, Data, Callback
  PROVE  Data'
<1> USE DEF Data
<1> DEFINE Reply == [call : Call, is : {"ok", "error"}]
<1>1. PICK r : r = Head(replies) OBVIOUS
<1>2. /\ replies \in Seq(Reply) /\ replies # <<>> /\ power = "up" /\ Tell({r.call}, r.is)
      /\ replies' = Tail(replies) /\ connection \in Connection
      /\ UNCHANGED <<power, connection, waiting, sent, queue, scheduled>>
  BY <1>1 DEF Callback, ProducerTypeOK, redisVars
<1>3. PICK t : t = Tail(replies) OBVIOUS
<1>4. /\ r \in Reply /\ t \in Seq(Reply) /\ Len(t) = Len(replies) - 1 /\ Len(replies) \in Nat
      /\ replies[1] = r /\ \A i \in 1..Len(replies) - 1 : t[i] = replies[i + 1]
      /\ ToSet(replies) = ToSet(t) \union {r}
  <2> HIDE DEF Reply
  <2> QED BY <1>1, <1>2, <1>3, TailSet
<1>5. PICK n \in Call : n = r.call BY <1>4
<1>6. PICK b \in {"ok", "error"} : b = r.is BY <1>4
<1> HIDE DEF Reply
<1>7. \A i \in 1..Len(t) : i + 1 \in 1..Len(replies) /\ 1 < i + 1 /\ 1 \in 1..Len(replies)
                           /\ t[i] = replies[i + 1]
  BY <1>4
<1>8. \A i, j \in 1..Len(t) : i < j => t[i].call < t[j].call
  <2> SUFFICES ASSUME NEW i \in 1..Len(t), NEW j \in 1..Len(t), i < j PROVE t[i].call < t[j].call
    OBVIOUS
  <2>1. i + 1 < j + 1 BY <1>4
  <2> QED BY <1>7, <2>1 DEF Order
<1>9. \A q \in ToSet(t) : n < q.call
  <2> TAKE q \in ToSet(t)
  <2>1. PICK i \in 1..Len(t) : t[i] = q BY <1>4, SeqSet
  <2> QED BY <1>4, <1>5, <1>7, <2>1 DEF Order
<1>10. ToSet(replies') = ToSet(t) /\ replies' = t BY <1>2, <1>3
<1>11. Replied = Replied' \union {n} BY <1>4, <1>5, <1>10 DEF Replied
<1>12. n \notin Replied'
  <2>1. ~(n < n) BY DEF Call
  <2> QED BY <1>9, <1>10, <2>1 DEF Replied
<1>13. n \in Made /\ answers[n] = <<>> /\ n \in Replied BY <1>11 DEF KnownCalls, Truth
<1>14. /\ Made' = Made
       /\ answers'[n] = <<b>> /\ \A m \in Made : m # n => answers'[m] = answers[m]
  <2>1. b \in Answer /\ Tell({n}, b) BY <1>2, <1>5, <1>6 DEF Answer
  <2>2. /\ Made' = Made
        /\ \A m \in Made : answers'[m] = IF m \in {n} THEN Append(answers[m], b) ELSE answers[m]
    BY <2>1, TellFacts
  <2>3. answers'[n] = Append(answers[n], b) BY <1>13, <2>2
  <2>4. Append(<<>>, b) = <<b>> OBVIOUS
  <2>5. answers'[n] = <<b>> BY <1>13, <2>3, <2>4
  <2> QED BY <2>2, <2>5
<1>15. \A m \in Made : m # n => \A a : Told(m, a)' <=> Told(m, a) BY <1>14 DEF Told
<1>16. Told(n, b)' /\ (Told(n, "ok")' => b = "ok")
  <2>1. b # "ok" => <<b>> # <<"ok">> OBVIOUS
  <2> QED BY <1>14, <2>1 DEF Told
<1>17. \A m \in Made : Live(m)' => Live(m)
  <2>1. b = "ok" => Live(n) BY <1>4, <1>5, <1>6 DEF Live
  <2>2. Live(n)' => Live(n) BY <1>4, <1>10, <1>16, <2>1 DEF Live
  <2>3. \A m \in Made : m # n => (Live(m)' => Live(m)) BY <1>4, <1>10, <1>15 DEF Live
  <2> QED BY <2>2, <2>3
<1>18. /\ InRedis' = InRedis /\ ToSet(waiting') = ToSet(waiting) /\ ToSet(queue') = ToSet(queue)
       /\ (\A k \in Connection : Inflight(k)' = Inflight(k))
       /\ Inflight(connection)' = Inflight(connection)
  BY <1>2 DEF InRedis, Inflight
<1>19. KnownCalls' BY <1>11, <1>14, <1>18 DEF KnownCalls
<1>20. Apart' BY <1>2, <1>11, <1>18 DEF Apart
<1>21. n \notin ToSet(waiting) /\ \A k \in Connection : n \notin Inflight(k)
  BY <1>13 DEF Apart
<1>22. Truth'
  <2>1. \A m \in Made' : answers'[m] = <<>> \/ \E a \in Answer : answers'[m] = <<a>>
    <3>1. b \in Answer BY DEF Answer
    <3> QED BY <1>14, <3>1 DEF Truth
  <2>2. \A m \in ToSet(waiting') \union Replied' : answers'[m] = <<>>
    BY <1>11, <1>12, <1>14, <1>18, <1>21 DEF Truth, KnownCalls
  <2>3. \A m \in Inflight(connection)' : answers'[m] = <<>>
    BY <1>2, <1>14, <1>18, <1>21 DEF Truth, KnownCalls
  <2>4. \A k \in Connection : \A m \in Inflight(k)' : answers'[m] = <<>> \/ Told(m, "error")'
    BY <1>14, <1>15, <1>18, <1>21 DEF Truth, KnownCalls
  <2>5. \A q \in ToSet(replies') : q.is = "ok" => q.call \in InRedis'
    BY <1>4, <1>10, <1>18 DEF Truth
  <2>6. b = "ok" => n \in InRedis BY <1>4, <1>5, <1>6 DEF Truth
  <2>7. \A m \in Made' : Told(m, "ok")' => m \in InRedis'
    BY <1>14, <1>15, <1>16, <1>18, <2>6 DEF Truth
  <2>8. \A m \in InRedis' : answers'[m] = <<>> \/ Told(m, "ok")' \/ Told(m, "error")'
    BY <1>14, <1>15, <1>16, <1>18 DEF Truth, KnownCalls
  <2> QED BY <2>1, <2>2, <2>3, <2>4, <2>5, <2>7, <2>8 DEF Truth
<1>23. Order'
  <2>1. \A m \in ToSet(queue) : m \in Made BY DEF KnownCalls, InRedis
  <2>2. \A i \in 1..Len(queue) : queue[i] \in Made
    BY <2>1, SeqSet DEF ProducerTypeOK
  <2>3. \A m \in Replied' : \A x \in Inflight(connection)' : m < x
    BY <1>2, <1>11, <1>18 DEF Order
  <2>4. \A i, j \in 1..Len(queue) :
          i < j /\ Live(queue[i])' /\ Live(queue[j])' => queue[i] < queue[j]
    BY <1>2, <1>17, <2>2 DEF Order
  <2>5. \A m \in ToSet(queue) : Live(m)' => \A x \in Inflight(connection)' : m < x
    BY <1>2, <1>17, <1>18, <2>1 DEF Order
  <2>6. \A m \in ToSet(queue) : Live(m)' => \A x \in ToSet(waiting) : m < x
    BY <1>17, <2>1 DEF Order
  <2>7. Increasing(waiting) /\ \A k \in Connection : Increasing(sent[k]) BY DEF Order
  <2> QED BY <1>2, <1>8, <1>10, <2>3, <2>4, <2>5, <2>6, <2>7 DEF Order
<1> QED BY <1>19, <1>20, <1>22, <1>23

\* Redis stores a message and replies, or has nobody left to reply to.
LEMMA ExecuteKeeps ==
  ASSUME ProducerTypeOK, Phases, Data, NEW k \in Connection, Execute(k)
  PROVE  Data'
<1> USE DEF Data
<1>1. PICK n : n = Head(sent[k]) OBVIOUS
<1>2. /\ sent[k] # <<>> /\ connection \in Connection
      /\ UNCHANGED <<power, connection, waiting, answers>>
      /\ sent' = [sent EXCEPT ![k] = Tail(@)]
      /\ \/ n \in Schedulable /\ scheduled' = scheduled \union {n} /\ queue' = queue
         \/ n \notin Schedulable /\ queue' = Append(queue, n) /\ scheduled' = scheduled
      /\ Open(k) => replies' = Append(replies, [call |-> n, is |-> "ok"])
      /\ ~Open(k) => replies' = replies
  BY <1>1 DEF Execute, ProducerTypeOK
<1>3. /\ n \in Call /\ n \in Made /\ n \in Inflight(k)
      /\ n \notin ToSet(waiting) /\ n \notin InRedis /\ n \notin Replied
      /\ \A j \in Connection : Inflight(j)' \subseteq Inflight(j) /\ n \notin Inflight(j)'
      /\ \A m \in Inflight(k)' : n < m
      /\ \A j \in Connection : Increasing(sent'[j])
  <2> HIDE DEF Data
  <2> QED BY <1>1, <1>2, TakeFacts
<1>4. Inflight(connection)' \subseteq Inflight(connection) BY <1>2, <1>3 DEF Inflight
<1>5. Open(k) => /\ power = "up" /\ k = connection /\ waiting = <<>> /\ answers[n] = <<>>
                 /\ (\A m \in Replied : m < n) /\ \A m \in Inflight(connection)' : n < m
  <2> SUFFICES ASSUME Open(k) PROVE /\ power = "up" /\ k = connection /\ waiting = <<>>
                                    /\ answers[n] = <<>> /\ (\A m \in Replied : m < n)
                                    /\ \A m \in Inflight(connection)' : n < m
    OBVIOUS
  <2>1. power = "up" /\ k = connection BY DEF Open
  <2>2. waiting = <<>> BY <2>1 DEF Phases
  <2>3. answers[n] = <<>> BY <1>3, <2>1 DEF Truth
  <2>4. \A m \in Replied : m < n BY <1>3, <2>1 DEF Order
  <2>5. \A m \in Inflight(connection)' : n < m BY <1>2, <1>3, <2>1 DEF Inflight
  <2> QED BY <2>1, <2>2, <2>3, <2>4, <2>5
<1>6. PICK r : r = [call |-> n, is |-> "ok"] OBVIOUS
<1>7. r.call = n /\ r.is = "ok" BY <1>6
<1>8. /\ \/ Open(k) /\ ToSet(replies') = ToSet(replies) \union {r} /\ Replied' = Replied \union {n}
         \/ ~Open(k) /\ ToSet(replies') = ToSet(replies) /\ Replied' = Replied
      /\ \A i, j \in 1..Len(replies') : i < j => replies'[i].call < replies'[j].call
  <2>1. CASE Open(k)
    <3>1. replies' = Append(replies, r) BY <1>2, <1>6, <2>1
    <3>2. \A m \in Replied : m < n BY <1>5, <2>1
    <3> HIDE DEF Data
    <3> QED BY <1>3, <1>6, <2>1, <3>1, <3>2, ReplyFacts
  <2>2. CASE ~Open(k) BY <1>2, <2>2 DEF Order, Replied
  <2> QED BY <2>1, <2>2
<1>9. PICK q : q = queue' OBVIOUS
<1>10. queue \in Seq(Call) BY DEF ProducerTypeOK
<1>11. /\ ToSet(q) = ToSet(queue) \/ (ToSet(q) = ToSet(queue) \union {n} /\ n \notin Schedulable)
       /\ InRedis' = InRedis \union {n}
  <2>1. CASE n \in Schedulable BY <1>2, <1>9, <2>1 DEF InRedis
  <2>2. CASE n \notin Schedulable
    <3>1. ToSet(Append(queue, n)) = ToSet(queue) \union {n} BY <1>3, <1>10, AppendSet
    <3>2. queue' = Append(queue, n) /\ scheduled' = scheduled BY <1>2, <2>2
    <3>3. ToSet(queue') = ToSet(queue) \union {n} BY <3>1, <3>2, Zenon
    <3> QED BY <1>9, <2>2, <3>2, <3>3 DEF InRedis
  <2> QED BY <2>1, <2>2
<1>12. /\ Len(q) \in Nat /\ Len(queue) \in Nat
       /\ \A i \in 1..Len(q) : \/ i \in 1..Len(queue) /\ q[i] = queue[i]
                               \/ i = Len(queue) + 1 /\ q[i] = n
  <2>1. CASE n \in Schedulable BY <1>2, <1>9, <1>10, <2>1
  <2>2. CASE n \notin Schedulable
    <3>1. q = Append(queue, n) BY <1>2, <1>9, <2>2
    <3>2. /\ Len(q) = Len(queue) + 1 /\ Len(queue) \in Nat
          /\ q[Len(queue) + 1] = n /\ \A i \in 1..Len(queue) : q[i] = queue[i]
      BY <1>3, <1>10, <3>1, AppendSeq
    <3> HIDE <3>1
    <3> QED BY <3>2
  <2> QED BY <2>1, <2>2
<1>13. \A i \in 1..Len(queue) : queue[i] \in ToSet(queue) /\ queue[i] # n
  <2>1. \A i \in 1..Len(queue) : queue[i] \in ToSet(queue) BY <1>10, SeqSet
  <2> QED BY <1>3, <2>1 DEF InRedis
<1>14. Made' = Made /\ \A m : \A a : Told(m, a)' <=> Told(m, a) BY <1>2 DEF Made, Told
<1>15. \A m : m # n => (Live(m)' <=> Live(m)) BY <1>7, <1>8, <1>14 DEF Live
<1>16. answers[n] = <<>> \/ Told(n, "error") BY <1>3 DEF Truth
<1>17. ~Told(n, "ok")
  <2>1. <<"ok">> # <<>> /\ <<"ok">> # <<"error">> OBVIOUS
  <2> QED BY <1>16, <2>1 DEF Told
<1>18. Live(n)' => Open(k)
  <2>1. \A x \in ToSet(replies) : x.call # n BY <1>3 DEF Replied
  <2> QED BY <1>8, <1>14, <1>17, <2>1 DEF Live
<1>19. KnownCalls' BY <1>2, <1>3, <1>8, <1>11, <1>14 DEF KnownCalls
<1>20. Apart'
  <2>1. \A j \in Connection :
          Inflight(j)' \cap (ToSet(waiting') \union InRedis' \union Replied') = {}
    BY <1>2, <1>3, <1>8, <1>11 DEF Apart
  <2>2. \A i, j \in Connection : i # j => Inflight(i)' \cap Inflight(j)' = {}
    BY <1>3 DEF Apart
  <2>3. ToSet(waiting') \cap (InRedis' \union Replied') = {}
    BY <1>2, <1>3, <1>8, <1>11 DEF Apart
  <2>4. \A i, j \in 1..Len(q) : q[i] = q[j] => i = j BY <1>12, <1>13 DEF Apart
  <2>5. ToSet(q) \cap Schedulable = {} BY <1>11 DEF Apart
  <2> QED BY <1>9, <2>1, <2>2, <2>3, <2>4, <2>5 DEF Apart
<1>21. Truth'
  <2>1. \A m \in ToSet(waiting') \union Replied' : answers'[m] = <<>>
    BY <1>2, <1>5, <1>8 DEF Truth
  <2>2. power' = "up" => \A m \in Inflight(connection)' : answers'[m] = <<>>
    BY <1>2, <1>4 DEF Truth
  <2>3. \A j \in Connection : \A m \in Inflight(j)' : answers'[m] = <<>> \/ Told(m, "error")'
    BY <1>2, <1>3, <1>14 DEF Truth
  <2>4. \A x \in ToSet(replies') : x.is = "ok" => x.call \in InRedis'
    BY <1>7, <1>8, <1>11 DEF Truth
  <2>5. \A m \in Made' : Told(m, "ok")' => m \in InRedis' BY <1>11, <1>14 DEF Truth
  <2>6. \A m \in InRedis' : answers'[m] = <<>> \/ Told(m, "ok")' \/ Told(m, "error")'
    BY <1>2, <1>11, <1>14, <1>16 DEF Truth
  <2>7. \A m \in Made' : answers'[m] = <<>> \/ \E a \in Answer : answers'[m] = <<a>>
    BY <1>2, <1>14 DEF Truth
  <2> QED BY <2>1, <2>2, <2>3, <2>4, <2>5, <2>6, <2>7 DEF Truth
<1>22. Order'
  <2>1. power' = "up" => \A m \in Replied' : \A x \in Inflight(connection)' : m < x
    BY <1>2, <1>4, <1>5, <1>8 DEF Order
  <2>2. ASSUME NEW i \in 1..Len(q), NEW j \in 1..Len(q), i < j, Live(q[i])', Live(q[j])'
        PROVE  q[i] < q[j]
    <3>1. i \in 1..Len(queue) /\ q[i] = queue[i] BY <1>12, <2>2
    <3>2. Live(queue[i]) BY <1>9, <1>13, <1>15, <2>2, <3>1
    <3>3. CASE j \in 1..Len(queue) /\ q[j] = queue[j]
      <4>1. Live(queue[j]) BY <1>13, <1>15, <2>2, <3>3
      <4> QED BY <2>2, <3>1, <3>2, <3>3, <4>1 DEF Order
    <3>4. CASE q[j] = n
      <4>1. Open(k) BY <1>18, <2>2, <3>4
      <4> QED BY <1>3, <1>5, <1>13, <3>1, <3>2, <3>4, <4>1 DEF Order
    <3> QED BY <1>12, <3>3, <3>4
  <2>3. power' = "up" => \A m \in ToSet(q) : Live(m)' => \A x \in Inflight(connection)' : m < x
    BY <1>2, <1>4, <1>5, <1>11, <1>15, <1>18 DEF Order
  <2>4. \A m \in ToSet(q) : Live(m)' => \A x \in ToSet(waiting') : m < x
    BY <1>2, <1>5, <1>11, <1>15, <1>18, EmptySet DEF Order
  <2>5. Increasing(waiting') BY <1>2 DEF Order
  <2> QED BY <1>3, <1>8, <1>9, <2>1, <2>2, <2>3, <2>4, <2>5 DEF Order
<1> QED BY <1>19, <1>20, <1>21, <1>22

\* Every step keeps where the calls are and what their callers know.
LEMMA DataNext ==
  ASSUME ProducerTypeOK, ProducerTypeOK', Phases, Phases', Data, [ProducerNext]_producerVars
  PROVE  Data'
<1> USE DEF redisVars
<1>1. CASE setUpSharedRedisClient
  BY <1>1, ForgetKeeps DEF setUpSharedRedisClient, ProducerTypeOK
<1>2. CASE Up BY <1>2, UpKeeps
<1>3. CASE UpWithoutBroker
  <2>1. sent[connection] = <<>> BY <1>3 DEF UpWithoutBroker, Phases
  <2> QED BY <1>3, <2>1, ForgetKeeps DEF UpWithoutBroker, ProducerTypeOK
<1>4. CASE Shutdown
  <2>1. waiting = <<>> BY <1>4 DEF Shutdown, Phases
  <2> QED BY <1>4, <2>1, AbortKeeps DEF Shutdown
<1>5. CASE Down BY <1>5, ForgetKeeps DEF Down, ProducerTypeOK
<1>6. CASE RunAgain BY <1>6, ForgetKeeps DEF RunAgain, ProducerTypeOK
<1>7. CASE Crash BY <1>7, ForgetKeeps DEF Crash, ProducerTypeOK
<1>8. CASE produceMessage BY <1>8, ProduceKeeps
<1>9. ASSUME NEW k \in Connection, Execute(k) PROVE Data' BY <1>9, ExecuteKeeps
<1>10. CASE Refuse BY <1>10, RefuseKeeps
<1>11. CASE Callback BY <1>11, CallbackKeeps
<1>12. CASE ConnectionLost
  <2>1. waiting = <<>> BY <1>12 DEF ConnectionLost, Phases
  <2>2. connection' \in Connection /\ connection' > connection
    BY <1>12 DEF ConnectionLost, ProducerTypeOK, Connection
  <2>3. sent'[connection'] = <<>> BY <1>12, <2>2 DEF ConnectionLost, Phases
  <2> QED BY <1>12, <2>1, <2>3, AbortKeeps DEF ConnectionLost
<1>13. ASSUME NEW k \in Connection, Dropped(k) PROVE Data'
  <2>1. \A j \in Connection : sent'[j] = sent[j] \/ sent'[j] = <<>>
    BY <1>13 DEF Dropped, ProducerTypeOK
  <2> QED BY <1>13, <2>1, ForgetKeeps DEF Dropped, ProducerTypeOK
<1>14. CASE UNCHANGED producerVars BY <1>14, ForgetKeeps DEF producerVars, ProducerTypeOK
<1> QED BY <1>1, <1>2, <1>3, <1>4, <1>5, <1>6, <1>7, <1>8, <1>9, <1>10, <1>11, <1>12,
           <1>13, <1>14 DEF ProducerNext

-----------------------------------------------------------------------------
\* A new producer satisfies the invariant.
LEMMA ProducerInitInv == ASSUME ProducerInit PROVE ProducerInv
<1> USE DEF ProducerInit
<1>1. /\ <<>> \in Seq(Call) /\ <<>> \in Seq([call : Call, is : {"ok", "error"}])
      /\ <<>> \in Seq(Seq(Answer)) /\ 1 \in Connection
  BY ProducerAssumption DEF Connection
<1>2. ProducerTypeOK
  <2>1. Len(answers) <= MaxCalls BY EmptySet, ProducerAssumption
  <2> QED BY <1>1, <2>1 DEF ProducerTypeOK, Power
<1>3. \A k \in Connection : sent[k] = <<>> OBVIOUS
<1>4. Phases BY <1>1, <1>3 DEF Phases
<1>5. /\ ToSet(waiting) = {} /\ ToSet(replies) = {} /\ ToSet(queue) = {} /\ InRedis = {}
      /\ Replied = {} /\ Made = {} /\ \A k \in Connection : Inflight(k) = {}
  BY <1>3, EmptySet DEF InRedis, Replied, Made, Inflight
<1>6. Len(queue) = 0 /\ Len(replies) = 0 BY EmptySet
<1>7. KnownCalls BY <1>5 DEF KnownCalls
<1>8. Apart BY <1>5, <1>6 DEF Apart
<1>9. Truth BY <1>1, <1>5 DEF Truth
<1>10. Order BY <1>1, <1>3, <1>5, <1>6, EmptySet DEF Order
<1> QED BY <1>2, <1>4, <1>7, <1>8, <1>9, <1>10 DEF ProducerInv

\* The inductive invariant of a producer, through every start, shutdown, lost
\* connection, refusal and crash.
THEOREM ProducerInvHolds == ProducerSpec => []ProducerInv
<1>1. ProducerInit => ProducerInv BY ProducerInitInv
<1>2. ProducerInv /\ [ProducerNext]_producerVars => ProducerInv'
  <2> SUFFICES ASSUME ProducerInv, [ProducerNext]_producerVars PROVE ProducerInv' OBVIOUS
  <2>1. ProducerTypeOK /\ Phases /\ Data BY DEF ProducerInv, Data
  <2>2. ProducerTypeOK' BY <2>1, ProducerNextType
  <2>3. Phases' BY <2>1, PhasesNext
  <2>4. Data' BY <2>1, <2>2, <2>3, DataNext
  <2> QED BY <2>2, <2>3, <2>4 DEF ProducerInv, Data
<1> QED BY <1>1, <1>2, PTL DEF ProducerSpec

\* Every variable of a producer keeps its type.
THEOREM ProducerTypeCorrect == ProducerSpec => []ProducerTypeOK
<1>1. ProducerInv => ProducerTypeOK BY DEF ProducerInv
<1> QED BY <1>1, ProducerInvHolds, PTL

\* The callback of produceMessage is called at most once and does not lie, for
\* any number of calls and connections: success means stored exactly once, and
\* a call that is refused, thrown or left silent stored nothing.
THEOREM CallbacksAreTrue == ProducerSpec => []AnsweredTruly
<1>1. ProducerInv => AnsweredTruly
  <2> SUFFICES ASSUME ProducerInv, NEW n \in Made
               PROVE  /\ Len(answers[n]) <= 1
                      /\ Stored(n) <= 1
                      /\ Told(n, "ok") => Stored(n) = 1
                      /\ (\E what \in {"notRunning", "thrown", "silent"} : Told(n, what))
                           => Stored(n) = 0
    BY DEF AnsweredTruly
  <2> USE DEF ProducerInv
  <2>1. PICK places : places = {i \in DOMAIN queue : queue[i] = n} \union ({n} \cap scheduled)
    OBVIOUS
  <2>2. queue \in Seq(Call) /\ scheduled \subseteq Schedulable BY DEF ProducerTypeOK
  <2>3. DOMAIN queue = 1..Len(queue) BY <2>2
  <2>4. n \in InRedis => \E p : places = {p}
    <3>1. CASE n \in scheduled
      <4>1. \A i \in 1..Len(queue) : queue[i] # n BY <2>2, <3>1, SeqSet DEF Apart
      <4> QED BY <2>1, <2>3, <3>1, <4>1
    <3>2. CASE n \notin scheduled /\ n \in ToSet(queue)
      <4>1. PICK p \in 1..Len(queue) : queue[p] = n BY <2>2, <3>2, SeqSet
      <4>2. \A i \in 1..Len(queue) : queue[i] = n => i = p BY <4>1 DEF Apart
      <4>3. places = {p} BY <2>1, <2>3, <3>2, <4>1, <4>2
      <4> QED BY <4>3
    <3> QED BY <3>1, <3>2 DEF InRedis
  <2>5. n \notin InRedis => places = {}
    <3> SUFFICES ASSUME n \notin InRedis PROVE places = {} OBVIOUS
    <3>1. \A i \in 1..Len(queue) : queue[i] # n BY <2>2, SeqSet DEF InRedis
    <3> QED BY <2>1, <2>3, <3>1 DEF InRedis
  <2>6. Stored(n) = Cardinality(places) BY <2>1 DEF Stored
  <2>7. n \in InRedis => Stored(n) = 1 BY <2>4, <2>6, FS_Singleton
  <2>8. n \notin InRedis => Stored(n) = 0 BY <2>5, <2>6, FS_EmptySet
  <2>9. Len(answers[n]) <= 1
    <3>1. answers[n] = <<>> \/ \E a \in Answer : answers[n] = <<a>> BY DEF Truth
    <3>2. Len(<<>>) <= 1 /\ \A a : Len(<<a>>) <= 1 OBVIOUS
    <3> QED BY <3>1, <3>2
  <2>10. Told(n, "ok") => n \in InRedis BY DEF Truth
  <2>11. ASSUME NEW what \in {"notRunning", "thrown", "silent"}, Told(n, what)
         PROVE  n \notin InRedis
    <3>1. answers[n] = <<what>> BY <2>11 DEF Told
    <3>2. <<what>> # <<>> /\ <<what>> # <<"ok">> /\ <<what>> # <<"error">> OBVIOUS
    <3> QED BY <3>1, <3>2 DEF Truth, Told
  <2> QED BY <2>7, <2>8, <2>9, <2>10, <2>11
<1> QED BY <1>1, ProducerInvHolds, PTL

\* The messages whose callers were told of success are in the queue in the
\* order of the calls, for any number of calls and connections.
THEOREM OrderOfCallsIsKept == ProducerSpec => []StoredInCallOrder
<1>1. ProducerInv => StoredInCallOrder
  <2> SUFFICES ASSUME ProducerInv PROVE StoredInCallOrder OBVIOUS
  <2>1. DOMAIN queue = 1..Len(queue) BY DEF ProducerInv, ProducerTypeOK
  <2>2. \A m : Told(m, "ok") => Live(m) BY DEF Live
  <2> QED BY <2>1, <2>2 DEF ProducerInv, Order, StoredInCallOrder
<1> QED BY <1>1, ProducerInvHolds, PTL
=============================================================================
