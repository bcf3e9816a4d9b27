-------------------------- MODULE ConsumerWorkers ---------------------------
(***************************************************************************)
(* Which consumer runs the background workers.  Every consumer has a       *)
(* ConsumerWorkers object: a ticker that asks for the workers lock once a  *)
(* second (LockManager over Redlock), and a WorkerRunner that forks the    *)
(* worker processes when the lock is granted.  A request or a directory    *)
(* read that is under way when quit() is called is not cancelled.          *)
(*                                                                         *)
(* Three things may happen to a consumer that take the protection of the   *)
(* lock away from its workers, and the history variable hit records to     *)
(* whom: its lock expires while it lives (no tick in 10 s); a signal ends  *)
(* it, so that no exit handler runs and its workers go on without it; or   *)
(* quit() is called while a tick is under way.                             *)
(***************************************************************************)
EXTENDS Naturals

CONSTANTS
  Consumer,      \* the consumer processes
  NoOne,         \* the lock key does not exist
  WorkerCount    \* the number of *.worker.js files

ASSUME WorkersAssumption ==
  /\ NoOne \notin Consumer
  /\ WorkerCount \in Nat \ {0}

VARIABLES
  lock,       \* keyLockConsumerWorkersRunner: who set it, or NoOne
  acquired,   \* acquired[c]: LockManager.acquiredLock is set
  tick,       \* tick[c]: where the ticker of c is
  runner,     \* runner[c]: power state of the WorkerRunner
  procs,      \* procs[c]: worker processes of c that are alive
  life,       \* life[c]: the ConsumerWorkers object and its process
  hit         \* the consumers whose lock lapsed, that were killed or that
              \* quit in the middle of a tick (history)

workersVars == <<lock, acquired, tick, runner, procs, life, hit>>

(***************************************************************************)
(* tick: "off", "armed" (timer set), "asked" (SET NX or extension sent),   *)
(* "granted" and "refused" (reply under way), "reading" (readdir).         *)
(* life: "new", "running", then quit(): "stopping" (workers are being      *)
(* killed), "unlocking", "quit" (called back); "halted" (the shared        *)
(* connection is closed, the consumer is down); "crashed".                 *)
(***************************************************************************)
Tick == {"off", "armed", "asked", "granted", "refused", "reading"}
Runner == {"down", "goingUp", "up", "goingDown"}
Life == {"new", "running", "stopping", "unlocking", "quit", "halted", "crashed"}

WorkersTypeOK ==
  /\ lock \in Consumer \union {NoOne}
  /\ acquired \in [Consumer -> BOOLEAN]
  /\ tick \in [Consumer -> Tick]
  /\ runner \in [Consumer -> Runner]
  /\ procs \in [Consumer -> 0..WorkerCount]
  /\ life \in [Consumer -> Life]
  /\ hit \subseteq Consumer

WorkersInit ==
  /\ lock = NoOne
  /\ acquired = [c \in Consumer |-> FALSE]
  /\ tick = [c \in Consumer |-> "off"]
  /\ runner = [c \in Consumer |-> "down"]
  /\ procs = [c \in Consumer |-> 0]
  /\ life = [c \in Consumer |-> "new"]
  /\ hit = {}

-----------------------------------------------------------------------------
\* setUpConsumerWorkers; the constructor starts the ticker.
Create(c) ==
  /\ life[c] = "new"
  /\ life' = [life EXCEPT ![c] = "running"]
  /\ tick' = [tick EXCEPT ![c] = "armed"]
  /\ UNCHANGED <<lock, acquired, runner, procs, hit>>

\* onTick: acquireLock.
Ask(c) ==
  /\ tick[c] = "armed"
  /\ tick' = [tick EXCEPT ![c] = "asked"]
  /\ UNCHANGED <<lock, acquired, runner, procs, life, hit>>

\* Mutant: SET without NX.
LockAlways(c) ==
  /\ tick[c] = "asked" /\ ~acquired[c]
  /\ lock' = c
  /\ tick' = [tick EXCEPT ![c] = "granted"]
  /\ UNCHANGED <<acquired, runner, procs, life, hit>>

\* Redlock.lock when there is no acquiredLock.
Lock(c) ==
  /\ tick[c] = "asked" /\ ~acquired[c]
  /\ IF lock = NoOne
       THEN lock' = c /\ tick' = [tick EXCEPT ![c] = "granted"]
       ELSE lock' = lock /\ tick' = [tick EXCEPT ![c] = "refused"]
  /\ UNCHANGED <<acquired, runner, procs, life, hit>>

\* Lock.extend otherwise: also for a lock that has expired, which fails.
Extend(c) ==
  /\ tick[c] = "asked" /\ acquired[c]
  /\ tick' = [tick EXCEPT ![c] = IF lock = c THEN "granted" ELSE "refused"]
  /\ UNCHANGED <<lock, acquired, runner, procs, life, hit>>

\* Ticker.nextTick sets no timer once the ticker is down.
NextTick(c) == IF life[c] = "running" THEN "armed" ELSE "off"

\* Mutant: no next tick after a refusal.
RefusedForGood(c) ==
  /\ tick[c] = "refused"
  /\ tick' = [tick EXCEPT ![c] = "off"]
  /\ UNCHANGED <<lock, acquired, runner, procs, life, hit>>

\* A LockError: acquiredLock is kept and the workers are left alone.
Refused(c) ==
  /\ tick[c] = "refused"
  /\ tick' = [tick EXCEPT ![c] = NextTick(c)]
  /\ UNCHANGED <<lock, acquired, runner, procs, life, hit>>

\* The lock is ours and the workers run already.
KeepWorkers(c) ==
  /\ tick[c] = "granted"
  /\ runner[c] = "up"
  /\ acquired' = [acquired EXCEPT ![c] = TRUE]
  /\ tick' = [tick EXCEPT ![c] = NextTick(c)]
  /\ UNCHANGED <<lock, runner, procs, life, hit>>

\* The lock is ours: WorkerRunner.run lists the directory.
RunWorkers(c) ==
  /\ tick[c] = "granted"
  /\ runner[c] = "down"
  /\ acquired' = [acquired EXCEPT ![c] = TRUE]
  /\ runner' = [runner EXCEPT ![c] = "goingUp"]
  /\ tick' = [tick EXCEPT ![c] = "reading"]
  /\ UNCHANGED <<lock, procs, life, hit>>

\* The process ends on an uncaught exception; its exit handler kills the
\* workers.
Exits(c) ==
  /\ life' = [life EXCEPT ![c] = "crashed"]
  /\ tick' = [tick EXCEPT ![c] = "off"]
  /\ procs' = [procs EXCEPT ![c] = 0]
  /\ UNCHANGED <<lock, acquired, runner, hit>>

\* run() while shutdown() waits for the workers: goingUp throws.
RunPanics(c) ==
  /\ tick[c] = "granted"
  /\ runner[c] = "goingDown"
  /\ Exits(c)

\* Mutant: the file filter also matches *.worker.js.map.
ForkMaps(c) ==
  /\ tick[c] = "reading"
  /\ procs' = [procs EXCEPT ![c] = 2 * WorkerCount]
  /\ runner' = [runner EXCEPT ![c] = "up"]
  /\ tick' = [tick EXCEPT ![c] = NextTick(c)]
  /\ UNCHANGED <<lock, acquired, life, hit>>

\* readdir calls back: fork every worker, commit, next tick.
Fork(c) ==
  /\ tick[c] = "reading"
  /\ procs' = [procs EXCEPT ![c] = WorkerCount]
  /\ runner' = [runner EXCEPT ![c] = "up"]
  /\ tick' = [tick EXCEPT ![c] = NextTick(c)]
  /\ UNCHANGED <<lock, acquired, life, hit>>

-----------------------------------------------------------------------------
(***************************************************************************)
(* quit(): stop the ticker, kill the workers one by one, release the lock. *)
(***************************************************************************)
Release(c) == IF acquired[c] THEN "unlocking" ELSE "quit"

\* Mutant: the lock is released before the workers are killed.
ReleaseFirst(c) ==
  /\ life[c] = "running"
  /\ hit' = IF tick[c] = "armed" THEN hit ELSE hit \union {c}
  /\ tick' = [tick EXCEPT ![c] = IF @ = "armed" THEN "off" ELSE @]
  /\ lock' = IF lock = c THEN NoOne ELSE lock
  /\ acquired' = [acquired EXCEPT ![c] = FALSE]
  /\ IF runner[c] = "up"
       THEN /\ runner' = [runner EXCEPT ![c] = "goingDown"]
            /\ life' = [life EXCEPT ![c] = "stopping"]
       ELSE /\ runner' = runner
            /\ life' = [life EXCEPT ![c] = "quit"]
  /\ UNCHANGED procs

\* Mutant: shutdown() is not called, or not waited for.
QuitWithWorkers(c) ==
  /\ life[c] = "running"
  /\ hit' = IF tick[c] = "armed" THEN hit ELSE hit \union {c}
  /\ tick' = [tick EXCEPT ![c] = IF @ = "armed" THEN "off" ELSE @]
  /\ life' = [life EXCEPT ![c] = Release(c)]
  /\ UNCHANGED <<lock, acquired, runner, procs>>

Quit(c) ==
  /\ life[c] = "running"
  /\ hit' = IF tick[c] = "armed" THEN hit ELSE hit \union {c}
  /\ tick' = [tick EXCEPT ![c] = IF @ = "armed" THEN "off" ELSE @]
  /\ IF runner[c] = "up"
       THEN /\ runner' = [runner EXCEPT ![c] = "goingDown"]
            /\ life' = [life EXCEPT ![c] = "stopping"]
       ELSE /\ runner' = runner
            /\ life' = [life EXCEPT ![c] = Release(c)]
  /\ UNCHANGED <<lock, acquired, procs>>

\* shutdownFn: a worker has exited, the next one is killed.
WorkerExits(c) ==
  /\ life[c] = "stopping"
  /\ procs[c] > 0
  /\ procs' = [procs EXCEPT ![c] = @ - 1]
  /\ UNCHANGED <<lock, acquired, tick, runner, life, hit>>

WorkersDown(c) ==
  /\ life[c] = "stopping"
  /\ procs[c] = 0
  /\ runner' = [runner EXCEPT ![c] = "down"]
  /\ life' = [life EXCEPT ![c] = Release(c)]
  /\ UNCHANGED <<lock, acquired, tick, procs, hit>>

\* Lock.unlock, behind an extension on the same connection.
Unlock(c) ==
  /\ life[c] = "unlocking"
  /\ tick[c] # "asked"
  /\ lock' = IF lock = c THEN NoOne ELSE lock
  /\ acquired' = [acquired EXCEPT ![c] = FALSE]
  /\ life' = [life EXCEPT ![c] = "quit"]
  /\ UNCHANGED <<tick, runner, procs, hit>>

\* tearDownSharedRedisClient: replies under way are dropped, a directory read
\* is not.
Halt(c) ==
  /\ life[c] = "quit"
  /\ life' = [life EXCEPT ![c] = "halted"]
  /\ tick' = [tick EXCEPT ![c] = IF @ = "reading" THEN @ ELSE "off"]
  /\ UNCHANGED <<lock, acquired, runner, procs, hit>>

-----------------------------------------------------------------------------
(***************************************************************************)
(* Failures.                                                               *)
(***************************************************************************)

\* A process that is there has not ended: a consumer that is down is still a
\* process.
Alive(c) == life[c] \notin {"new", "crashed"}

\* The consumer ends on an error, or a worker does and WorkerRunner throws.
ExitsOnError(c) == Alive(c) /\ Exits(c)

Killed(c) ==
  /\ Alive(c)
  /\ life' = [life EXCEPT ![c] = "crashed"]
  /\ tick' = [tick EXCEPT ![c] = "off"]
  /\ hit' = hit \union {c}
  /\ UNCHANGED <<lock, acquired, runner, procs>>

\* Nobody extends the lock of c any more.
Deserted(c) == life[c] \in {"quit", "halted", "crashed"}

LockExpires ==
  /\ lock # NoOne
  /\ lock' = NoOne
  /\ hit' = IF Deserted(lock) THEN hit ELSE hit \union {lock}
  /\ UNCHANGED <<acquired, tick, runner, procs, life>>

-----------------------------------------------------------------------------
TickStep(c) ==
  \/ Ask(c) \/ Lock(c) \/ Extend(c) \/ Refused(c)
  \/ KeepWorkers(c) \/ RunWorkers(c) \/ RunPanics(c) \/ Fork(c)

QuitStep(c) == WorkerExits(c) \/ WorkersDown(c) \/ Unlock(c) \/ Halt(c)

WorkersNext ==
  \/ \E c \in Consumer :
       \/ Create(c) \/ TickStep(c) \/ Quit(c) \/ QuitStep(c)
       \/ ExitsOnError(c) \/ Killed(c)
  \/ LockExpires

WorkersSpec == WorkersInit /\ [][WorkersNext]_workersVars

\* Timers fire, Redis replies, killed workers exit and keys expire.
WorkersFairness ==
  /\ \A c \in Consumer : /\ WF_workersVars(TickStep(c))
                         /\ WF_workersVars(QuitStep(c))
  /\ WF_workersVars(LockExpires /\ Deserted(lock))

WorkersFairSpec == WorkersSpec /\ WorkersFairness

-----------------------------------------------------------------------------
(***************************************************************************)
(* Properties.                                                             *)
(***************************************************************************)

\* Of the consumers that nothing has hit, two never have workers running at
\* the same time, although the lock is asked for, granted, extended, released
\* and expires in steps and other consumers lose it or die.
Exclusion ==
  \A c, d \in Consumer \ hit : procs[c] > 0 /\ procs[d] > 0 => c = d

\* Whoever has workers, or is about to fork them, owns the lock until it is
\* hit itself: what hits one consumer takes the lock from no other.
LockProtects ==
  \A c \in Consumer \ hit :
    procs[c] > 0 \/ tick[c] \in {"granted", "reading"} => lock = c

\* A consumer whose shutdown() has called back ("totally down") has no
\* workers and will not fork any, unless it quit in the middle of a tick.
DownMeansDown ==
  \A c \in Consumer \ hit :
    life[c] = "halted" => procs[c] = 0 /\ tick[c] # "reading"

\* While consumers run, workers run, or will again: the lock of a consumer
\* that is gone passes to another one.
Takeover ==
  (\E c \in Consumer : life[c] = "running")
    ~> \/ \E c \in Consumer : procs[c] > 0
       \/ \A c \in Consumer : life[c] # "running"

\* The lock implements the ownership it is for; a consumer that is hit leaves
\* it.
Ownership == INSTANCE WorkerOwnership
               WITH active <- {c \in Consumer \ hit : procs[c] > 0}
ImplementsOwnership == Ownership!OwnershipSpec
=============================================================================
