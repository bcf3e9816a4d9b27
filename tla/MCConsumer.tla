----------------------------- MODULE MCConsumer -----------------------------
(***************************************************************************)
(* Instances of Consumer for TLC.  The three messages differ in the        *)
(* options that select a path: a delayed retry with a time to live, a      *)
(* consume timeout with a handler that may hang, a handler that may throw. *)
(***************************************************************************)
EXTENDS Consumer

CONSTANTS c1, c2, m1, m2, m3

TheQueue == [ns |-> "ns1", name |-> "q1"]
MCQueueOf == [c \in Consumer |-> TheQueue]
MCHome == [m \in MessageId |-> TheQueue]
MCRetryThreshold == [m \in MessageId |-> CASE m = m1 -> 2
                                           [] m = m2 -> 0
                                           [] OTHER  -> 3]
=============================================================================
