-------------------------- MODULE WorkerOwnership ---------------------------
(***************************************************************************)
(* What the lock of ConsumerWorkers is for: of all the consumers of a      *)
(* Redis, one at a time has its background workers running.  The other     *)
(* consumers may start theirs only after these have stopped.               *)
(***************************************************************************)
CONSTANT Consumer

VARIABLE active   \* the consumers that have workers running

OwnershipInit == active = {}

Start(c) == active = {} /\ active' = {c}

Stop(c) == c \in active /\ active' = active \ {c}

OwnershipNext == \E c \in Consumer : Start(c) \/ Stop(c)

OwnershipSpec == OwnershipInit /\ [][OwnershipNext]_active
=============================================================================
