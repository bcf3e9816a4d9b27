----------------------------- MODULE MCRedisSMQ -----------------------------
(***************************************************************************)
(* Instances of RedisSMQ for TLC: one queue, or the same queue name in two *)
(* namespaces.                                                             *)
(***************************************************************************)
EXTENDS RedisSMQ

CONSTANTS c1, c2, c3, m1, m2

QueueIn(ns) == [ns |-> ns, name |-> "q1"]
OneQueueOf == [c \in Consumer |-> QueueIn("ns1")]
TwoQueueOf == [c \in Consumer |-> IF c = c1 THEN QueueIn("ns1") ELSE QueueIn("ns2")]
HomeInNs1 == [m \in MessageId |-> QueueIn("ns1")]
HomeInNs2 == [m \in MessageId |-> QueueIn("ns2")]
Thresholds == [m \in MessageId |-> 2]

\* EventuallyFinished is true of every behaviour with a mistake of the
\* collector, and a mistake stays recorded: TLC need not go on after one.
NobodyMistaken == mistaken = {}

\* Bound: what follows a mistake is explored while one set of workers runs at
\* a time, and overlapping workers while nobody is mistaken.
OneTrouble == overlapped => mistaken = {}
=============================================================================
