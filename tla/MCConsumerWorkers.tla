------------------------- MODULE MCConsumerWorkers --------------------------
(***************************************************************************)
(* Instances of ConsumerWorkers for TLC.                                   *)
(***************************************************************************)
EXTENDS ConsumerWorkers

CONSTANTS c1, c2, c3
=============================================================================
