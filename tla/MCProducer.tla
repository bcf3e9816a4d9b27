----------------------------- MODULE MCProducer -----------------------------
(***************************************************************************)
(* An instance of Producer for TLC: the second call schedules its message. *)
(***************************************************************************)
EXTENDS Producer

MCSchedulable == {2}
=============================================================================
