------------------------ MODULE ThreadPoolTasksProofs ------------------------
(***************************************************************************)
(* What becomes of a task, in every pool that may grow: execute adds a     *)
(* thread whenever none is idle (currentSize never changes), so that no    *)
(* task is ever queued, and a task goes from its client's hand into the    *)
(* submittedTask of one worker and from there into done.  Clients may      *)
(* call execute, and the program may shut down, whenever they like.        *)
(***************************************************************************)
EXTENDS ThreadPoolProofs

Growing == currentSize < maxSize

-----------------------------------------------------------------------------
(* The inductive invariant *)

\* The path over the task queue is never taken.
NoneQueued ==
  /\ taskQueue = <<>>
  /\ \A c \in Clients : cpc[c] \notin {"queueWait", "append"}
  /\ \A w \in Workers : wpc[w] # "reoffer" /\ hand[w] = NoTask

\* A client between two calls of execute carries no task.
HandsFree == \A c \in Clients : cpc[c] \in {"idle", "starting"} => hand[c] = NoTask

\* What a thread has to do: a worker what its RunQueue was given, a client what
\* it is handing over.
load == [x \in Threads |-> IF x \in Workers THEN slot[x] ELSE hand[x]]

\* No two threads have the same task, none has one that ran, and no task that
\* did not run is gone.
CarriedOnce ==
  /\ \A x, y \in Threads : load[x] = load[y] /\ load[x] # NoTask => x = y
  /\ \A x \in Threads : load[x] \notin done
  /\ \A t \in submitted : t \in done \/ \E x \in Threads : load[x] = t

TaskInv == TypeInv /\ NoneQueued /\ HandsFree /\ CarriedOnce

-----------------------------------------------------------------------------
(* The steps that move a task, and the others *)

\* No task is taken, moved, begun or ended.
Still ==
  /\ UNCHANGED <<slot, hand, submitted, done>>
  /\ \A w \in Workers : wpc'[w] = "run" <=> wpc[w] = "run"

Accepted(c) == Offer(c) /\ ~HasTask(target[c])

Begun(w) == Poll(w) /\ HasTask(w)

\* Every step of a growing pool is one of five.
LEMMA StepKinds ==
  ASSUME TaskInv, Growing, Next
  PROVE  \/ Still
         \/ \E c \in Clients, t \in Tasks : Execute(c, t)
         \/ \E c \in Clients : Accepted(c)
         \/ \E w \in Workers : Begun(w) \/ Run(w)
  <1> USE DEF TaskInv, TypeInv, TypeOK, Goto
  <1>1. ASSUME NEW c \in Clients, Start(c) \/ StartDone(c) \/ TakeIdle(c)
               \/ ClientExit(c) \/ ClientCleanup(c)
        PROVE  Still
    BY <1>1 DEF Still, Start, StartDone, TakeIdle, ClientExit, ClientCleanup, history
  <1>2. ASSUME NEW c \in Clients, StartThread(c) PROVE Still
    BY <1>2 DEF Still, StartThread, history
  <1>3. ASSUME NEW c \in Clients, NEW w \in ExtraWorkers, AddThread(c, w) PROVE Still
    BY <1>3, ThreadKinds DEF Still, AddThread, history
  <1>4. ASSUME NEW c \in Clients, QueueTask(c) \/ LockQueue(c) \/ AppendTask(c) PROVE FALSE
    <2>1. ~QueueTask(c)
      BY PoolAssumption, FS_CardinalityType DEF Growing, QueueTask, currentSize
    <2> QED
      BY <1>4, <2>1 DEF NoneQueued, LockQueue, AppendTask
  <1>5. ASSUME NEW c \in Clients, Offer(c), ~Accepted(c) PROVE Still
    BY <1>5 DEF Still, Offer, Accepted, history
  <1>6. ASSUME NEW w \in Workers, Poll(w), ~Begun(w) PROVE Still
    BY <1>6 DEF Still, Poll, Begun, history
  <1>7. ASSUME NEW w \in Workers, TakeQueued(w) \/ Reoffer(w) PROVE FALSE
    BY <1>7 DEF NoneQueued, TakeQueued, Reoffer
  <1>8. ASSUME NEW w \in Workers, Top(w) \/ Wake(w) \/ Completed(w) \/ UnlockAgain(w)
        PROVE  Still
    BY <1>8 DEF Still, Top, Wake, Completed, UnlockAgain, history
  <1>9. ASSUME NEW w \in Workers, NothingQueued(w) \/ ReturnToPool(w) \/ Relock(w)
               \/ Exit(w) \/ Cleanup(w)
        PROVE  Still
    BY <1>9 DEF Still, NothingQueued, ReturnToPool, Relock, Exit, Cleanup, history
  <1>10. ASSUME BeginShutdown \/ CollectorStep PROVE Still
    BY <1>10 DEF Still, BeginShutdown, CollectorStep, Signal, PickThread, Waitfor, EndSignalling, Joined,
                 history
  <1> QED
    BY <1>1, <1>2, <1>3, <1>4, <1>5, <1>6, <1>7, <1>8, <1>9, <1>10
       DEF Next, ClientStep, WorkerStep

\* What the steps that move a task do to the loads.
LEMMA LoadExecute ==
  ASSUME TaskInv, NEW c \in Clients, NEW t \in Tasks, Execute(c, t)
  PROVE  load[c] = NoTask /\ load' = [load EXCEPT ![c] = t]
  BY ThreadKinds DEF TaskInv, TypeInv, TypeOK, HandsFree, Execute, load

LEMMA LoadAccepted ==
  ASSUME TaskInv, NEW c \in Clients, Accepted(c)
  PROVE  /\ target[c] \in Workers /\ load[target[c]] = NoTask
         /\ load' = [load EXCEPT ![c] = NoTask, ![target[c]] = load[c]]
         /\ wpc' = wpc /\ wpc[target[c]] # "run"
  BY ThreadKinds DEF TaskInv, TypeInv, TypeOK, TasksKnown, Accepted, Offer, HasTask, Busy, load

LEMMA LoadRun ==
  ASSUME TaskInv, NEW w \in Workers, Run(w)
  PROVE  /\ load[w] = slot[w] /\ slot[w] \in submitted
         /\ load' = [load EXCEPT ![w] = NoTask]
  BY ThreadKinds DEF TaskInv, TypeInv, TypeOK, TasksKnown, Run, Cleared, load

\* A thread's load is a task that was submitted, or none.
LEMMA LoadKnown ==
  ASSUME TypeInv
  PROVE  load \in [Threads -> submitted \cup {NoTask}]
  BY ThreadKinds DEF TypeInv, TasksKnown, load

-----------------------------------------------------------------------------
(* The invariant holds *)

LEMMA TaskInit == Init => TaskInv
  <1> SUFFICES ASSUME Init PROVE TaskInv
    OBVIOUS
  <1>1. NoneQueued /\ HandsFree
    BY ThreadKinds DEF Init, NoneQueued, HandsFree
  <1>2. CarriedOnce
    BY ThreadKinds DEF Init, CarriedOnce, load
  <1> QED
    BY <1>1, <1>2, TypeInit DEF TaskInv

LEMMA NoneQueuedStep == Growing /\ TaskInv /\ [Next]_vars => NoneQueued' /\ HandsFree'
  <1> SUFFICES ASSUME Growing, TaskInv, [Next]_vars PROVE NoneQueued' /\ HandsFree'
    OBVIOUS
  <1> USE ThreadKinds DEF TaskInv, TypeInv, TypeOK, NoneQueued, HandsFree, Goto,
          queueVars, clientVars, history
  <1>1. ASSUME NEW c \in Clients, Start(c) \/ StartThread(c) \/ StartDone(c)
        PROVE  NoneQueued' /\ HandsFree'
    BY <1>1 DEF Start, StartThread, StartDone
  <1>2. ASSUME NEW c \in Clients, NEW t \in Tasks, Execute(c, t) PROVE NoneQueued' /\ HandsFree'
    BY <1>2 DEF Execute
  <1>3. ASSUME NEW c \in Clients, TakeIdle(c) \/ ClientExit(c) \/ ClientCleanup(c)
        PROVE  NoneQueued' /\ HandsFree'
    BY <1>3 DEF TakeIdle, ClientExit, ClientCleanup
  <1>4. ASSUME NEW c \in Clients, NEW w \in ExtraWorkers, AddThread(c, w)
        PROVE  NoneQueued' /\ HandsFree'
    BY <1>4 DEF AddThread
  <1>5. ASSUME NEW c \in Clients, Offer(c) PROVE NoneQueued' /\ HandsFree'
    BY <1>5 DEF Offer
  <1>6. ASSUME NEW c \in Clients, QueueTask(c) \/ LockQueue(c) \/ AppendTask(c) PROVE FALSE
    <2>1. ~QueueTask(c)
      BY PoolAssumption, FS_CardinalityType DEF Growing, QueueTask, currentSize
    <2> QED
      BY <1>6, <2>1 DEF LockQueue, AppendTask
  <1>7. ASSUME NEW w \in Workers, TakeQueued(w) \/ Reoffer(w) PROVE FALSE
    BY <1>7 DEF TakeQueued, Reoffer
  <1>8. ASSUME NEW w \in Workers, Top(w) \/ Wake(w) \/ Poll(w) \/ Run(w) \/ Completed(w)
        PROVE  NoneQueued' /\ HandsFree'
    BY <1>8 DEF Top, Wake, Poll, Run, Completed
  <1>9. ASSUME NEW w \in Workers, UnlockAgain(w) \/ NothingQueued(w) \/ ReturnToPool(w)
               \/ Relock(w) \/ Exit(w) \/ Cleanup(w)
        PROVE  NoneQueued' /\ HandsFree'
    BY <1>9 DEF UnlockAgain, NothingQueued, ReturnToPool, Relock, Exit, Cleanup
  <1>10. ASSUME BeginShutdown \/ CollectorStep PROVE NoneQueued' /\ HandsFree'
    BY <1>10 DEF BeginShutdown, CollectorStep, Signal, PickThread, Waitfor, EndSignalling, Joined
  <1>11. CASE UNCHANGED vars
    BY <1>11 DEF vars
  <1> QED
    BY <1>1, <1>2, <1>3, <1>4, <1>5, <1>6, <1>7, <1>8, <1>9, <1>10, <1>11
       DEF Next, ClientStep, WorkerStep

LEMMA CarriedOnceStep == Growing /\ TaskInv /\ [Next]_vars => CarriedOnce'
  <1> SUFFICES ASSUME Growing, TaskInv, [Next]_vars PROVE CarriedOnce'
    OBVIOUS
  <1>1. /\ load \in [Threads -> submitted \cup {NoTask}] /\ NoTask \notin submitted
        /\ submitted \subseteq Tasks /\ done \subseteq submitted /\ CarriedOnce
    BY LoadKnown, ThreadKinds DEF TaskInv, TypeInv, TypeOK
  <1>2. CASE Still \/ UNCHANGED vars
    <2>1. UNCHANGED <<load, submitted, done>>
      BY <1>2 DEF Still, vars, history, load
    <2> QED
      BY <1>1, <2>1 DEF CarriedOnce
  <1>3. ASSUME NEW c \in Clients, NEW t \in Tasks, Execute(c, t) PROVE CarriedOnce'
    <2>1. load[c] = NoTask /\ load' = [load EXCEPT ![c] = t] /\ c \in Threads
      BY <1>3, LoadExecute, ThreadKinds
    <2>2. t \notin submitted /\ submitted' = submitted \cup {t} /\ done' = done
      BY <1>3 DEF Execute
    <2> QED
      BY <1>1, <2>1, <2>2, ThreadKinds DEF CarriedOnce
  <1>4. ASSUME NEW c \in Clients, Accepted(c) PROVE CarriedOnce'
    <2> DEFINE w == target[c]
    <2>1. /\ w \in Threads /\ c \in Threads /\ w # c /\ load[w] = NoTask
          /\ load' = [load EXCEPT ![c] = NoTask, ![w] = load[c]]
      BY <1>4, LoadAccepted, ThreadKinds
    <2>2. UNCHANGED <<submitted, done>>
      BY <1>4 DEF Accepted, Offer, history
    <2> HIDE DEF w
    <2> QED
      BY <1>1, <2>1, <2>2 DEF CarriedOnce
  <1>5. ASSUME NEW w \in Workers, Begun(w) PROVE CarriedOnce'
    <2>1. UNCHANGED <<load, submitted, done>>
      BY <1>5 DEF Begun, Poll, history, clientVars, load
    <2> QED
      BY <1>1, <2>1 DEF CarriedOnce
  <1>6. ASSUME NEW w \in Workers, Run(w) PROVE CarriedOnce'
    <2>1. /\ load[w] \in submitted /\ w \in Threads
          /\ load' = [load EXCEPT ![w] = NoTask]
          /\ done' = done \cup {load[w]} /\ submitted' = submitted
      BY <1>6, LoadRun, ThreadKinds DEF Run
    <2> QED
      BY <1>1, <2>1 DEF CarriedOnce
  <1> QED
    BY <1>2, <1>3, <1>4, <1>5, <1>6, StepKinds

LEMMA TaskInvHolds == Growing /\ Spec => []TaskInv
  <1>1. Growing /\ TaskInv /\ [Next]_vars => TaskInv'
    BY TypeStep, NoneQueuedStep, CarriedOnceStep DEF TaskInv
  <1>2. Growing => Growing'
    BY DEF Growing, currentSize
  <1> QED
    BY <1>1, <1>2, TaskInit, PTL DEF Spec

-----------------------------------------------------------------------------
(* The theorems *)

\* TaskInOnePlace for every pool that may grow, shutdown or not: a task execute
\* accepted is in the hand of its client, in one submittedTask or done.
THEOREM TaskKept == Growing /\ Spec => []TaskInOnePlace
  <1>1. TaskInv => TaskInOnePlace
    <2> SUFFICES ASSUME TaskInv, NEW t \in Tasks
                 PROVE  Cardinality(Places(t)) = IF t \in submitted THEN 1 ELSE 0
      BY DEF TaskInOnePlace
    <2>1. /\ load \in [Threads -> submitted \cup {NoTask}]
          /\ \A w \in Workers : load[w] = slot[w] /\ hand[w] = NoTask /\ w \in Threads
          /\ \A c \in Clients : load[c] = hand[c] /\ c \in Threads
          /\ done \subseteq submitted /\ NoTask \notin Tasks /\ CarriedOnce
      BY LoadKnown, ThreadKinds DEF TaskInv, TypeInv, TypeOK, NoneQueued, load
    <2>2. {j \in DOMAIN taskQueue : taskQueue[j] = t} = {}
      BY DEF TaskInv, NoneQueued
    <2>3. Places(t) = {<<"slot", w>> : w \in {v \in Workers : load[v] = t}}
                        \cup {<<"hand", c>> : c \in {d \in Clients : load[d] = t}}
                        \cup (IF t \in done THEN {<<"done", t>>} ELSE {})
      <3>1. {v \in Workers : slot[v] = t} = {v \in Workers : load[v] = t}
        BY <2>1
      <3>2. {y \in Threads : hand[y] = t} = {d \in Clients : load[d] = t}
        BY <2>1 DEF Threads
      <3> QED
        BY <2>2, <3>1, <3>2 DEF Places
    <2>4. CASE t \notin submitted
      <3>1. Places(t) = {}
        BY <2>1, <2>3, <2>4
      <3> QED
        BY <2>4, <3>1, FS_EmptySet
    <2>5. CASE t \in done
      <3>1. Places(t) = {<<"done", t>>}
        BY <2>1, <2>3, <2>5 DEF CarriedOnce
      <3> QED
        BY <2>1, <2>5, <3>1, FS_Singleton
    <2>6. CASE t \in submitted /\ t \notin done
      <3>1. PICK x \in Threads : load[x] = t
        BY <2>1, <2>6 DEF CarriedOnce
      <3>2. \A y \in Threads : load[y] = t <=> y = x
        BY <2>1, <3>1 DEF CarriedOnce
      <3>3. CASE x \in Workers
        <4>1. Places(t) = {<<"slot", x>>}
          BY <2>1, <2>3, <2>6, <3>2, <3>3, ThreadKinds
        <4> QED
          BY <2>6, <4>1, FS_Singleton
      <3>4. CASE x \in Clients
        <4>1. Places(t) = {<<"hand", x>>}
          BY <2>1, <2>3, <2>6, <3>2, <3>4, ThreadKinds
        <4> QED
          BY <2>6, <4>1, FS_Singleton
      <3> QED
        BY <3>1, <3>3, <3>4 DEF Threads
    <2> QED
      BY <2>4, <2>5, <2>6
  <1> QED
    BY <1>1, TaskInvHolds, PTL

\* The tasks that are running, and those not begun, as TaskExecutor sees them.
Underway == {slot[w] : w \in {v \in Workers : wpc[v] = "run"}}
Waiting == submitted \ (done \cup Underway)

\* ExecutesTasksSafely for every pool that may grow, shutdown or not: it
\* implements TaskExecutor's safety, so that every task is begun at most once,
\* by one worker, and ends once.
THEOREM PoolExecutes == Growing /\ Spec => ExecutesTasksSafely
  <1> USE DEF Underway, Waiting
  <1>1. Init => Executor!Init
    BY DEF Init, Executor!Init
  <1>2. Growing /\ TaskInv /\ [Next]_vars => [Executor!Next]_(Executor!vars)
    <2> SUFFICES ASSUME Growing, TaskInv, [Next]_vars
                 PROVE  Executor!Next \/ UNCHANGED <<Waiting, Underway, done>>
      BY DEF Executor!vars
    <2>1. /\ submitted \subseteq Tasks /\ done \subseteq submitted
          /\ \A w \in Workers : load[w] = slot[w] /\ w \in Threads
          /\ \A w \in Workers : slot[w] \in submitted \cup {NoTask}
          /\ \A w \in Workers : wpc[w] = "run" => slot[w] # NoTask
          /\ CarriedOnce
      BY ThreadKinds DEF TaskInv, TypeInv, TypeOK, TasksKnown, load
    <2>2. CASE Still \/ UNCHANGED vars
      <3>1. UNCHANGED <<Underway, submitted, done>>
        BY <2>2 DEF Still, vars, history
      <3> QED
        BY <3>1
    <2>3. ASSUME NEW c \in Clients, NEW t \in Tasks, Execute(c, t) PROVE Executor!Next
      <3>1. UNCHANGED <<Underway, done>> /\ t \notin submitted /\ submitted' = submitted \cup {t}
        BY <2>3 DEF Execute
      <3>2. t \notin done \cup Underway
        BY <2>1, <3>1
      <3>3. Executor!Submit(t)
        BY <2>1, <3>1, <3>2 DEF Executor!Submit
      <3> QED
        BY <3>3 DEF Executor!Next
    <2>4. ASSUME NEW c \in Clients, Accepted(c) PROVE UNCHANGED <<Waiting, Underway, done>>
      <3>1. UNCHANGED <<submitted, done, wpc>> /\ \A w \in Workers : wpc[w] = "run" => slot'[w] = slot[w]
        BY <2>4, LoadAccepted DEF Accepted, Offer, history, TaskInv, TypeInv, TypeOK
      <3> QED
        BY <3>1
    <2>5. ASSUME NEW w \in Workers, Begun(w) PROVE Executor!Next
      <3>1. /\ UNCHANGED <<slot, submitted, done>> /\ slot[w] # NoTask /\ wpc[w] = "poll"
            /\ wpc' = [wpc EXCEPT ![w] = "run"]
        BY <2>5 DEF Begun, Poll, HasTask, Goto, history
      <3>2. Underway' = Underway \cup {slot[w]}
        BY <3>1 DEF TaskInv, TypeInv, TypeOK
      <3>3. slot[w] \in Waiting
        BY <2>1, <3>1 DEF CarriedOnce
      <3>4. PICK t \in Tasks : t = slot[w]
        BY <2>1, <3>3
      <3>5. Executor!Begin(t)
        BY <3>1, <3>2, <3>3, <3>4 DEF Executor!Begin
      <3> QED
        BY <3>5 DEF Executor!Next
    <2>6. ASSUME NEW w \in Workers, Run(w) PROVE Executor!Next
      <3>1. /\ wpc[w] = "run" /\ slot' = [slot EXCEPT ![w] = NoTask] /\ submitted' = submitted
            /\ done' = done \cup {slot[w]} /\ slot[w] \in submitted
            /\ \A v \in Workers : wpc'[v] = "run" <=> v # w /\ wpc[v] = "run"
        BY <2>6, LoadRun DEF Run, Cleared, Goto, TaskInv, TypeInv, TypeOK
      <3>2. slot[w] \in Underway
        BY <3>1
      <3>3. \A v \in Workers : v # w => slot'[v] = slot[v] /\ slot[v] # slot[w]
        BY <2>1, <2>6, <3>1 DEF CarriedOnce, TaskInv, TypeInv, TypeOK, TasksKnown
      <3>4. Underway' = Underway \ {slot[w]}
        BY <3>1, <3>3
      <3>5. Waiting' = Waiting
        BY <3>1, <3>2, <3>4
      <3>6. PICK t \in Tasks : t = slot[w]
        BY <2>1, <3>1
      <3>7. Executor!End(t)
        BY <3>1, <3>2, <3>4, <3>5, <3>6 DEF Executor!End
      <3> QED
        BY <3>7 DEF Executor!Next
    <2> QED
      BY <2>2, <2>3, <2>4, <2>5, <2>6, StepKinds
  <1>3. Growing => Growing'
    BY DEF Growing, currentSize
  <1> QED
    BY <1>1, <1>2, <1>3, TaskInvHolds, PTL DEF Spec, ExecutesTasksSafely, Executor!SafeSpec

=============================================================================
