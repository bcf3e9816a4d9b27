-------------------------- MODULE MCPriorityQueue --------------------------
\* Instances of PriorityQueue: two messages, two consumers, and sets of workers
\* with and without priorities.
EXTENDS PriorityQueue

CONSTANTS c1, c2, m1, m2, w1, w2

MCConsumer == {c1, c2}
MCMessageId == {m1, m2}
MCPriority == (m1 :> 0) @@ (m2 :> 4)
MCThreshold == (m1 :> 2) @@ (m2 :> 2)
MCWithPriority == [w \in Worker |-> w = w1]
MCSymmetry == Permutations(MCConsumer)
=============================================================================
