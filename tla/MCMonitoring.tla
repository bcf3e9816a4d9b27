---------------------------- MODULE MCMonitoring ----------------------------
(***************************************************************************)
(* An instance of Monitoring for TLC: a consumer, a producer or a message, *)
(* and two monitor servers.                                                *)
(***************************************************************************)
EXTENDS Monitoring

CONSTANTS c1, p1, m1

MCConsumer == {c1}
MCProducer == {p1}
MCMessage == {m1}
MCFleets == {{c1}, {p1}, {m1}}
=============================================================================
