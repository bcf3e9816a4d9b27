--------------------------- MODULE WorkersProofs ----------------------------
(***************************************************************************)
(* The workers lock does its job for any number of consumers and workers   *)
(* and any sequence of faults: a consumer is protected until a fault hits  *)
(* it, and the faults of others do it no harm.                             *)
(***************************************************************************)
EXTENDS ConsumerWorkers, TLAPS

(***************************************************************************)
(* LockProtects is not inductive: it must be known that a consumer whose   *)
(* lock may expire or is released has no tick under way and no workers.    *)
(***************************************************************************)
TicksOnlyRunning ==
  \A c \in Consumer \ hit : life[c] # "running" => tick[c] = "off"

WorkersOnlyRunning ==
  \A c \in Consumer \ hit :
    /\ runner[c] = "goingDown" => life[c] \in {"stopping", "crashed"}
    /\ procs[c] > 0 => /\ life[c] \in {"running", "stopping"}
                       /\ runner[c] \in {"up", "goingDown"}

WorkersInv ==
  /\ WorkersTypeOK
  /\ LockProtects
  /\ TicksOnlyRunning
  /\ WorkersOnlyRunning

\* Initially there is no lock, no tick and no worker.
LEMMA WorkersInitInv == WorkersInit => WorkersInv
BY WorkersAssumption
   DEF WorkersInit, WorkersInv, WorkersTypeOK, LockProtects, TicksOnlyRunning,
       WorkersOnlyRunning, Tick, Runner, Life

\* Every step keeps the types, with or without faults.
LEMMA WorkersNextType ==
  ASSUME WorkersTypeOK, [WorkersNext]_workersVars
  PROVE  WorkersTypeOK'
<1> USE WorkersAssumption DEF WorkersTypeOK, Tick, Runner, Life
<1>1. ASSUME NEW c \in Consumer, Create(c) PROVE WorkersTypeOK'
  BY <1>1 DEF Create
<1>2. ASSUME NEW c \in Consumer, TickStep(c) PROVE WorkersTypeOK'
  <2>1. NextTick(c) \in Tick BY DEF NextTick
  <2>2. CASE Ask(c) BY <2>2 DEF Ask
  <2>3. CASE Lock(c) BY <2>3 DEF Lock
  <2>4. CASE Extend(c) BY <2>4 DEF Extend
  <2>5. CASE Refused(c) BY <2>1, <2>5 DEF Refused
  <2>6. CASE KeepWorkers(c) BY <2>1, <2>6 DEF KeepWorkers
  <2>7. CASE RunWorkers(c) BY <2>7 DEF RunWorkers
  <2>8. CASE RunPanics(c) BY <2>8 DEF RunPanics, Exits
  <2>9. CASE Fork(c) BY <2>1, <2>9 DEF Fork
  <2> QED
    BY <1>2, <2>2, <2>3, <2>4, <2>5, <2>6, <2>7, <2>8, <2>9 DEF TickStep
<1>3. ASSUME NEW c \in Consumer, Quit(c) PROVE WorkersTypeOK'
  <2>1. tick' \in [Consumer -> Tick] BY <1>3 DEF Quit
  <2>2. Release(c) \in Life BY DEF Release
  <2>3. runner' \in [Consumer -> Runner] /\ life' \in [Consumer -> Life]
    BY <1>3, <2>2 DEF Quit
  <2> QED BY <1>3, <2>1, <2>3 DEF Quit
<1>4. ASSUME NEW c \in Consumer, QuitStep(c) PROVE WorkersTypeOK'
  <2>1. CASE WorkerExits(c) BY <2>1 DEF WorkerExits
  <2>2. CASE WorkersDown(c)
    <3>1. Release(c) \in Life BY DEF Release
    <3> QED BY <2>2, <3>1 DEF WorkersDown
  <2>3. CASE Unlock(c) BY <2>3 DEF Unlock
  <2>4. CASE Halt(c) BY <2>4 DEF Halt
  <2> QED BY <1>4, <2>1, <2>2, <2>3, <2>4 DEF QuitStep
<1>5. ASSUME NEW c \in Consumer, ExitsOnError(c) \/ Killed(c)
      PROVE  WorkersTypeOK'
  BY <1>5 DEF ExitsOnError, Exits, Killed
<1>6. CASE LockExpires BY <1>6 DEF LockExpires
<1>7. CASE UNCHANGED workersVars BY <1>7 DEF workersVars
<1> QED BY <1>1, <1>2, <1>3, <1>4, <1>5, <1>6, <1>7 DEF WorkersNext

\* Every step keeps the inductive invariant.
LEMMA WorkersNextInv ==
  ASSUME WorkersInv, [WorkersNext]_workersVars
  PROVE  WorkersInv'
<1> USE WorkersAssumption
    DEF WorkersInv, WorkersTypeOK, LockProtects, TicksOnlyRunning,
        WorkersOnlyRunning
<1>0. WorkersTypeOK' BY WorkersNextType
<1>1. ASSUME NEW c \in Consumer, Create(c) PROVE WorkersInv'
  BY <1>0, <1>1 DEF Create
<1>2. ASSUME NEW c \in Consumer, TickStep(c) PROVE WorkersInv'
  <2>1. tick[c] # "off" /\ (c \notin hit => life[c] = "running")
    BY <1>2 DEF TickStep, Ask, Lock, Extend, Refused, KeepWorkers, RunWorkers,
                RunPanics, Fork
  <2>2. c \notin hit => NextTick(c) = "armed" BY <2>1 DEF NextTick
  <2>3. CASE Ask(c) BY <1>0, <2>1, <2>3 DEF Ask
  <2>4. CASE Lock(c) BY <1>0, <2>1, <2>4 DEF Lock
  <2>5. CASE Extend(c) BY <1>0, <2>1, <2>5 DEF Extend
  <2>6. CASE Refused(c) BY <1>0, <2>1, <2>2, <2>6 DEF Refused
  <2>7. CASE KeepWorkers(c) BY <1>0, <2>1, <2>2, <2>7 DEF KeepWorkers
  <2>8. CASE RunWorkers(c) BY <1>0, <2>1, <2>8 DEF RunWorkers
  <2>9. CASE RunPanics(c) BY <1>0, <2>1, <2>9 DEF RunPanics, Exits
  <2>10. CASE Fork(c) BY <1>0, <2>1, <2>2, <2>10 DEF Fork
  <2> QED
    BY <1>2, <2>3, <2>4, <2>5, <2>6, <2>7, <2>8, <2>9, <2>10 DEF TickStep
<1>3. ASSUME NEW c \in Consumer, Quit(c) PROVE WorkersInv'
  <2>1. life[c] = "running" /\ (c \notin hit' => tick[c] = "armed" /\ tick'[c] = "off")
    BY <1>3 DEF Quit
  <2>2. hit \subseteq hit' /\ UNCHANGED <<lock, acquired, procs>> BY <1>3 DEF Quit
  <2>3. \A d \in Consumer \ {c} : /\ tick'[d] = tick[d]
                                  /\ runner'[d] = runner[d]
                                  /\ life'[d] = life[d]
    BY <1>3 DEF Quit
  <2>4. CASE runner[c] = "up"
    <3>1. runner'[c] = "goingDown" /\ life'[c] = "stopping"
      BY <1>3, <2>4 DEF Quit
    <3> QED BY <1>0, <2>1, <2>2, <2>3, <3>1
  <2>5. CASE runner[c] # "up"
    <3>1. runner'[c] = runner[c] BY <1>3, <2>5 DEF Quit
    <3>2. c \notin hit => procs[c] = 0 /\ runner[c] # "goingDown" BY <2>1, <2>5
    <3> QED BY <1>0, <2>1, <2>2, <2>3, <3>1, <3>2
  <2> QED BY <2>4, <2>5
<1>4. ASSUME NEW c \in Consumer, QuitStep(c) PROVE WorkersInv'
  <2>1. life[c] # "running" /\ (c \notin hit => tick[c] = "off")
    BY <1>4 DEF QuitStep, WorkerExits, WorkersDown, Unlock, Halt
  <2>2. CASE WorkerExits(c) BY <1>0, <2>1, <2>2 DEF WorkerExits
  <2>3. CASE WorkersDown(c) BY <1>0, <2>1, <2>3 DEF WorkersDown, Release
  <2>4. CASE Unlock(c) BY <1>0, <2>1, <2>4 DEF Unlock
  <2>5. CASE Halt(c) BY <1>0, <2>1, <2>5 DEF Halt
  <2> QED BY <1>4, <2>2, <2>3, <2>4, <2>5 DEF QuitStep
<1>5. ASSUME NEW c \in Consumer, ExitsOnError(c) PROVE WorkersInv'
  BY <1>0, <1>5 DEF ExitsOnError, Exits
<1>6. ASSUME NEW c \in Consumer, Killed(c) PROVE WorkersInv'
  BY <1>0, <1>6 DEF Killed
<1>7. CASE LockExpires
  <2>1. \A c \in Consumer \ hit' : lock = c => Deserted(c)
    BY <1>7 DEF LockExpires
  <2>2. \A c \in Consumer \ hit' : lock = c => procs[c] = 0 /\ tick[c] = "off"
    BY <1>7, <2>1 DEF LockExpires, Deserted
  <2> QED BY <1>0, <1>7, <2>2 DEF LockExpires
<1>8. CASE UNCHANGED workersVars
  BY <1>8 DEF workersVars
<1> QED BY <1>1, <1>2, <1>3, <1>4, <1>5, <1>6, <1>7, <1>8 DEF WorkersNext

\* The state of the lock, the tickers and the workers is well formed,
\* whatever fails.
THEOREM WorkersTypeCorrect == WorkersSpec => []WorkersTypeOK
<1>1. WorkersInit => WorkersTypeOK BY WorkersInitInv DEF WorkersInv
<1> QED BY <1>1, WorkersNextType, PTL DEF WorkersSpec

\* The inductive invariant of the lock.
LEMMA WorkersInductive == WorkersSpec => []WorkersInv
<1>1. WorkersInv /\ [WorkersNext]_workersVars => WorkersInv' BY WorkersNextInv
<1> QED BY <1>1, WorkersInitInv, PTL DEF WorkersSpec

\* Two consumers that nothing has hit (no signal, no lapse of their lock, no
\* quit() in the middle of a tick) never have workers at the same time,
\* whatever hits the others.
THEOREM MutualExclusion == WorkersSpec => []Exclusion
<1>1. WorkersInv => Exclusion
  BY DEF WorkersInv, LockProtects, Exclusion
<1> QED BY <1>1, WorkersInductive, PTL

\* The workers of a consumer that nothing has hit, and the tick that is about
\* to fork them, are protected by the lock.
THEOREM WorkersAreLocked == WorkersSpec => []LockProtects
<1>1. WorkersInv => LockProtects BY DEF WorkersInv
<1> QED BY <1>1, WorkersInductive, PTL

\* A consumer that went down without being hit has left no worker behind, nor
\* will it fork one.
THEOREM DownLeavesNothing == WorkersSpec => []DownMeansDown
<1>1. WorkersInv => DownMeansDown
  BY DEF WorkersInv, WorkersTypeOK, TicksOnlyRunning, WorkersOnlyRunning,
         DownMeansDown
<1> QED BY <1>1, WorkersInductive, PTL

\* Every step starts workers where there are none, stops some, or leaves them
\* as they are.
LEMMA OwnershipStep ==
  ASSUME WorkersInv, [WorkersNext]_workersVars
  PROVE  [Ownership!OwnershipNext]_{c \in Consumer \ hit : procs[c] > 0}
<1> DEFINE active == {c \in Consumer \ hit : procs[c] > 0}
<1>Stop. ASSUME NEW c \in Consumer, active' = active \ {c}
         PROVE  [Ownership!OwnershipNext]_active
  <2>1. CASE c \in active
    BY <1>Stop, <2>1 DEF Ownership!OwnershipNext, Ownership!Stop
  <2>2. CASE c \notin active BY <1>Stop, <2>2
  <2> QED BY <2>1, <2>2
<1>1. CASE procs' = procs /\ hit' = hit BY <1>1
<1>2. ASSUME NEW c \in Consumer, procs' = [procs EXCEPT ![c] = 0], hit' = hit
      PROVE  [Ownership!OwnershipNext]_active
  <2>1. active' = active \ {c}
    BY <1>2 DEF WorkersInv, WorkersTypeOK
  <2> QED BY <1>Stop, <2>1
<1>3. ASSUME NEW c \in Consumer, procs' = procs, hit' = hit \union {c}
      PROVE  [Ownership!OwnershipNext]_active
  <2>1. active' = active \ {c} BY <1>3
  <2> QED BY <1>Stop, <2>1
<1>4. ASSUME NEW c \in Consumer, WorkerExits(c)
      PROVE  [Ownership!OwnershipNext]_active
  <2>1. procs[c] \in Nat /\ procs[c] > 0 /\ procs' = [procs EXCEPT ![c] = @ - 1]
    BY <1>4 DEF WorkerExits, WorkersInv, WorkersTypeOK
  <2>2. hit' = hit BY <1>4 DEF WorkerExits
  <2>3. CASE procs[c] = 1
    <3>1. procs' = [procs EXCEPT ![c] = 0] BY <2>1, <2>3
    <3> QED BY <1>2, <2>2, <3>1
  <2>4. CASE procs[c] # 1
    <3>1. active' = active BY <2>1, <2>2, <2>4 DEF WorkersInv, WorkersTypeOK
    <3> QED BY <3>1
  <2> QED BY <2>3, <2>4
<1>5. ASSUME NEW c \in Consumer, Fork(c)
      PROVE  [Ownership!OwnershipNext]_active
  <2>1. hit' = hit /\ procs' = [procs EXCEPT ![c] = WorkerCount] BY <1>5 DEF Fork
  <2>2. CASE c \in hit
    <3>1. active' = active BY <2>1, <2>2 DEF WorkersInv, WorkersTypeOK
    <3> QED BY <3>1
  <2>3. CASE c \notin hit
    <3>1. \A d \in Consumer \ hit : procs[d] > 0 => d = c
      BY <1>5, <2>3 DEF Fork, WorkersInv, LockProtects
    <3>2. active' = active \union {c}
      BY <2>1, <2>3, WorkersAssumption DEF WorkersInv, WorkersTypeOK
    <3>3. CASE c \in active BY <3>2, <3>3
    <3>4. CASE c \notin active
      <4>1. active = {} BY <3>1, <3>4
      <4>2. active' = {c} BY <3>2, <4>1
      <4> QED BY <4>1, <4>2 DEF Ownership!OwnershipNext, Ownership!Start
    <3> QED BY <3>3, <3>4
  <2> QED BY <2>2, <2>3
<1>6. CASE LockExpires
  <2>1. procs' = procs /\ (hit' = hit \/ (lock \in Consumer /\ hit' = hit \union {lock}))
    BY <1>6 DEF LockExpires, WorkersInv, WorkersTypeOK
  <2> QED BY <1>1, <1>3, <2>1
<1>7. ASSUME NEW c \in Consumer, Quit(c) PROVE [Ownership!OwnershipNext]_active
  <2>1. procs' = procs /\ (hit' = hit \/ hit' = hit \union {c}) BY <1>7 DEF Quit
  <2> QED BY <1>1, <1>3, <2>1
<1>8. ASSUME NEW c \in Consumer, Killed(c) PROVE [Ownership!OwnershipNext]_active
  BY <1>3, <1>8 DEF Killed
<1>9. \/ procs' = procs /\ hit' = hit
      \/ LockExpires
      \/ \E c \in Consumer : \/ procs' = [procs EXCEPT ![c] = 0] /\ hit' = hit
                             \/ WorkerExits(c)
                             \/ Fork(c)
                             \/ Quit(c)
                             \/ Killed(c)
  BY DEF WorkersNext, workersVars, Create, TickStep, Ask, Lock, Extend, Refused,
         KeepWorkers, RunWorkers, RunPanics, Exits, QuitStep, WorkersDown,
         Unlock, Halt, ExitsOnError
<1> QED BY <1>1, <1>2, <1>4, <1>5, <1>6, <1>7, <1>8, <1>9

\* The lock, the ticker and the runner together implement the ownership of
\* the workers.
THEOREM ImplementsOwnershipTheorem == WorkersSpec => ImplementsOwnership
<1>1. WorkersInit => Ownership!OwnershipInit
  BY DEF WorkersInit, Ownership!OwnershipInit
<1>2. WorkersInv /\ [WorkersNext]_workersVars
        => [Ownership!OwnershipNext]_{c \in Consumer \ hit : procs[c] > 0}
  BY OwnershipStep
<1> QED
  BY <1>1, <1>2, WorkersInductive, PTL
  DEF WorkersSpec, ImplementsOwnership, Ownership!OwnershipSpec
=============================================================================
