------------------------------ MODULE ThreadPool ------------------------------
(***************************************************************************)
(* ROG::ThreadPool, the ROG::RunQueue each of its threads runs, and the    *)
(* part of ROG::Thread the two use: start, the registry of running         *)
(* threads, and CollectRemainingThreads at shutdown.                       *)
(*                                                                         *)
(* Processes: the clients, which are engine threads that call execute (the *)
(* dispatcher of GameClient is one); the workers, each a Thread with its   *)
(* RunQueue; and the collector, the thread that calls ROGDestroy.  A step  *)
(* runs from one blocking lock to the next.  What is held only inside a    *)
(* step needs no variable: submittedSem is held by a worker exactly at the *)
(* program points Busy, and runningSem across steps only by a signalling   *)
(* collector.                                                              *)
(***************************************************************************)
EXTENDS CriticalSection, Sequences, FiniteSets

CONSTANTS
  Clients,       \* threads that call execute
  CoreWorkers,   \* the minSize workers the constructor makes
  ExtraWorkers,  \* workers execute may add: one per task never binds
  Tasks,         \* tasks, each submitted once
  maxSize,       \* the constructor's maxSize
  Creator,       \* the thread that constructed a RunQueue, as lock owner
  NoTask,        \* the NULL task
  NoWorker,      \* the NULL thread
  Shutdown       \* does the program reach ROGDestroy?

Workers == CoreWorkers \cup ExtraWorkers
Threads == Clients \cup Workers

ASSUME PoolAssumption ==
  /\ IsFiniteSet(CoreWorkers)
  /\ CoreWorkers \cap ExtraWorkers = {}
  /\ Clients \cap Workers = {}
  /\ {Nobody, Jammed, Creator} \cap Threads = {}
  /\ Creator \notin {Nobody, Jammed}
  /\ NoTask \notin Tasks
  /\ NoWorker \notin Workers
  /\ maxSize \in Nat
  /\ Shutdown \in BOOLEAN

\* currentSize is assigned in the constructor and nowhere else.
currentSize == Cardinality(CoreWorkers)

VARIABLES
  started, pool, poolSem, taskQueue, queueSem,   \* the ThreadPool
  slot, delivery,     \* submittedTask and deliveryLock of each RunQueue
  wpc, cpc,           \* where each worker and each client is
  hand, target,       \* the task a thread carries, the worker a client picked
  signalled, collector, todo,   \* shutdown
  submitted, done     \* history: tasks accepted by execute, tasks that ran

poolVars     == <<started, pool, poolSem>>
queueVars    == <<taskQueue, queueSem>>
clientVars   == <<cpc, target>>
shutdownVars == <<signalled, collector, todo>>
history      == <<submitted, done>>
vars == <<poolVars, queueVars, slot, delivery, wpc, clientVars, hand,
          shutdownVars, history>>

-----------------------------------------------------------------------------
(* Where the threads are. *)

ClientPoints == {"idle", "starting", "poolWait", "queueWait", "append", "offer",
                 "failed", "leaving", "exited"}
WorkerPoints == {"absent", "new", "top", "wait", "poll", "run", "completed",
                 "check", "reoffer", "unlockAgain", "return", "relock",
                 "exiting", "failed", "leaving", "exited"}

\* The points at which a worker is inside its own submittedSem.
Busy == {"run", "completed", "check", "reoffer", "unlockAgain", "return", "failed"}

\* The threads in Thread::runningThreads, and those that are gone.  In between, at
\* "leaving", a thread took itself out and is still at work in Thread::cleanup.
Running ==
  {w \in Workers : wpc[w] \notin {"absent", "new", "leaving", "exited"}}
    \cup {c \in Clients : cpc[c] \notin {"leaving", "exited"}}
Gone == {w \in Workers : wpc[w] = "exited"} \cup {c \in Clients : cpc[c] = "exited"}

RunningSemFree == collector # "signalling"

\* Reference::isclosing, set by ROGDestroy when CollectRemainingThreads returns.
isclosing == collector = "closed"

\* The workers whose RunQueue has a listener: the constructor sets it (22),
\* execute does not (70).
queueListener(w) == w \in CoreWorkers

\* The threads working on the array taskQueue.
InTaskQueue == {c \in Clients : cpc[c] = "append"} \cup {w \in Workers : wpc[w] = "check"}

\* The array after a thread x turns it into q.  A second thread that is at work
\* on it, which is a data race, may overwrite what x did.
QueueAfter(q, x) == IF InTaskQueue \subseteq {x} THEN {q} ELSE {q, taskQueue}

(* Small parts of the handlers, each after a fault one could put into it: the *)
(* faults named Fault... are in no specification, they are what the properties *)
(* are tried against.                                                          *)

\* What removeAt(0) leaves; the fault only reads the element.
FaultRest(s) == s
Rest(s) == Tail(s)

\* Is there a task in the RunQueue?
HasTask(w) == slot[w] # NoTask

\* submittedTask = NULL (47); the fault forgets it.
FaultCleared(w) == slot
Cleared(w) == [slot EXCEPT ![w] = NoTask]

\* deliveryLock.unlock() in offer and in signal; the fault forgets it.
FaultDeliver(w) == {delivery}
Deliver(w) == {[delivery EXCEPT ![w] = d] : d \in Leave(delivery[w])}

-----------------------------------------------------------------------------
Init ==
  /\ started = FALSE
  /\ pool \in {s \in [1 .. currentSize -> CoreWorkers] : \A i, j \in DOMAIN s : s[i] = s[j] => i = j}
  /\ poolSem = Free
  /\ taskQueue = <<>>
  /\ queueSem = Free
  /\ slot = [w \in Workers |-> NoTask]
  /\ delivery = [w \in Workers |-> OwnedBy(Creator)]
  /\ wpc = [w \in Workers |-> IF w \in CoreWorkers THEN "new" ELSE "absent"]
  /\ cpc = [c \in Clients |-> "idle"]
  /\ hand = [x \in Threads |-> NoTask]
  /\ target = [c \in Clients |-> NoWorker]
  /\ signalled = [x \in Threads |-> FALSE]
  /\ collector = "off"
  /\ todo = {}
  /\ submitted = {}
  /\ done = {}

-----------------------------------------------------------------------------
(* ThreadPool::start *)

Start(c) ==
  /\ cpc[c] = "idle"
  /\ ~started
  /\ CanEnter(poolSem, c)
  /\ poolSem' = Enter(poolSem, c)
  /\ cpc' = [cpc EXCEPT ![c] = "starting"]
  /\ UNCHANGED <<started, pool, queueVars, slot, delivery, wpc, hand, target,
                 shutdownVars, history>>

\* One turn of the loop: take the first thread out, start it, put it back last.
StartThread(c) ==
  /\ cpc[c] = "starting"
  /\ pool # <<>>
  /\ wpc[Head(pool)] = "new"
  /\ RunningSemFree
  /\ wpc' = [wpc EXCEPT ![Head(pool)] = "top"]
  /\ pool' = Append(Rest(pool), Head(pool))
  /\ UNCHANGED <<started, poolSem, queueVars, slot, delivery, clientVars, hand,
                 shutdownVars, history>>

StartDone(c) ==
  /\ cpc[c] = "starting"
  /\ \A i \in DOMAIN pool : wpc[pool[i]] # "new"
  /\ started' = TRUE
  /\ poolSem' \in Leave(poolSem)
  /\ cpc' = [cpc EXCEPT ![c] = "idle"]
  /\ UNCHANGED <<pool, queueVars, slot, delivery, wpc, hand, target,
                 shutdownVars, history>>

-----------------------------------------------------------------------------
(* ThreadPool::execute.  It throws before start and does nothing while the *)
(* program is closing: neither changes the state.                          *)

Execute(c, t) ==
  /\ cpc[c] = "idle"
  /\ started
  /\ ~isclosing
  /\ t \notin submitted
  /\ hand' = [hand EXCEPT ![c] = t]
  /\ submitted' = submitted \cup {t}
  /\ cpc' = [cpc EXCEPT ![c] = "poolWait"]
  /\ UNCHANGED <<poolVars, queueVars, slot, delivery, wpc, target, shutdownVars, done>>

\* An idle thread is there: take it and keep threadPoolSem for the offer.
TakeIdle(c) ==
  /\ cpc[c] = "poolWait"
  /\ CanEnter(poolSem, c)
  /\ pool # <<>>
  /\ poolSem' = Enter(poolSem, c)
  /\ target' = [target EXCEPT ![c] = Head(pool)]
  /\ pool' = Rest(pool)
  /\ cpc' = [cpc EXCEPT ![c] = "offer"]
  /\ UNCHANGED <<started, queueVars, slot, delivery, wpc, hand, shutdownVars, history>>

\* None is, and the pool may grow: make a thread, start it and take it.
AddThread(c, w) ==
  /\ cpc[c] = "poolWait"
  /\ CanEnter(poolSem, c)
  /\ pool = <<>>
  /\ currentSize < maxSize
  /\ wpc[w] = "absent"
  /\ RunningSemFree
  /\ poolSem' = Enter(poolSem, c)
  /\ wpc' = [wpc EXCEPT ![w] = "top"]
  /\ target' = [target EXCEPT ![c] = w]
  /\ cpc' = [cpc EXCEPT ![c] = "offer"]
  /\ UNCHANGED <<started, pool, queueVars, slot, delivery, hand, shutdownVars, history>>

\* None is and the pool is full: queue the task, inside threadPoolSem.
QueueTask(c) ==
  /\ cpc[c] = "poolWait"
  /\ CanEnter(poolSem, c)
  /\ pool = <<>>
  /\ currentSize >= maxSize
  /\ poolSem' = Enter(poolSem, c)
  /\ cpc' = [cpc EXCEPT ![c] = "queueWait"]
  /\ UNCHANGED <<started, pool, queueVars, slot, delivery, wpc, hand, target,
                 shutdownVars, history>>

LockQueue(c) ==
  /\ cpc[c] = "queueWait"
  /\ CanEnter(queueSem, c)
  /\ queueSem' = Enter(queueSem, c)
  /\ cpc' = [cpc EXCEPT ![c] = "append"]
  /\ UNCHANGED <<poolVars, taskQueue, slot, delivery, wpc, hand, target,
                 shutdownVars, history>>

AppendTask(c) ==
  /\ cpc[c] = "append"
  /\ taskQueue' \in QueueAfter(Append(taskQueue, hand[c]), c)
  /\ queueSem' \in Leave(queueSem)
  /\ poolSem' \in Leave(poolSem)
  /\ hand' = [hand EXCEPT ![c] = NoTask]
  /\ cpc' = [cpc EXCEPT ![c] = "idle"]
  /\ UNCHANGED <<started, pool, slot, delivery, wpc, target, shutdownVars, history>>

\* RunQueue::offer by the client.  A refused offer throws out of execute, which
\* leaves threadPoolSem locked.
Offer(c) ==
  LET w == target[c] IN
  /\ cpc[c] = "offer"
  /\ wpc[w] \notin Busy
  /\ IF ~HasTask(w)
     THEN /\ slot' = [slot EXCEPT ![w] = hand[c]]
          /\ delivery' \in Deliver(w)
          /\ poolSem' \in Leave(poolSem)
          /\ cpc' = [cpc EXCEPT ![c] = "idle"]
          /\ hand' = [hand EXCEPT ![c] = NoTask]
     ELSE /\ cpc' = [cpc EXCEPT ![c] = "failed"]
          /\ UNCHANGED <<slot, delivery, poolSem, hand>>
  /\ target' = [target EXCEPT ![c] = NoWorker]
  /\ UNCHANGED <<started, pool, queueVars, wpc, shutdownVars, history>>

\* A signalled client leaves its loop between two calls of execute, and
\* Thread::cleanup takes it out of runningThreads.
ClientExit(c) ==
  /\ cpc[c] = "idle"
  /\ signalled[c]
  /\ RunningSemFree
  /\ cpc' = [cpc EXCEPT ![c] = "leaving"]
  /\ UNCHANGED <<poolVars, queueVars, slot, delivery, wpc, hand, target,
                 shutdownVars, history>>

\* The rest of Thread::cleanup: fire THR_DESTROYED, forget the thread's id.
ClientCleanup(c) ==
  /\ cpc[c] = "leaving"
  /\ cpc' = [cpc EXCEPT ![c] = "exited"]
  /\ UNCHANGED <<poolVars, queueVars, slot, delivery, wpc, hand, target,
                 shutdownVars, history>>

-----------------------------------------------------------------------------
(* RunQueue::run and, from "completed" on, ThreadPool::runQueueEvent. *)

Goto(w, point) == wpc' = [wpc EXCEPT ![w] = point]

\* The loop condition.
Top(w) ==
  /\ wpc[w] = "top"
  /\ Goto(w, IF signalled[w] THEN "exiting" ELSE "wait")
  /\ UNCHANGED <<poolVars, queueVars, slot, delivery, clientVars, hand,
                 shutdownVars, history>>

\* Sleep on deliveryLock until a task or a signal has freed it.
Wake(w) ==
  /\ wpc[w] = "wait"
  /\ CanEnter(delivery[w], w)
  /\ delivery' = [delivery EXCEPT ![w] = Enter(@, w)]
  /\ Goto(w, "poll")
  /\ UNCHANGED <<poolVars, queueVars, slot, clientVars, hand, shutdownVars, history>>

\* Lock submittedSem and look for a task.  The events a listener is sent name
\* the current thread, which is looked up inside runningSem.  The fault does not
\* look, as if whoever was woken had been given a task.
FaultPoll(w) ==
  /\ wpc[w] = "poll"
  /\ Goto(w, "run")
  /\ UNCHANGED <<poolVars, queueVars, slot, delivery, clientVars, hand,
                 shutdownVars, history>>
Poll(w) ==
  /\ wpc[w] = "poll"
  /\ \/ ~HasTask(w) /\ Goto(w, "relock")
     \/ /\ HasTask(w)
        /\ queueListener(w) => RunningSemFree
        /\ Goto(w, "run")
  /\ UNCHANGED <<poolVars, queueVars, slot, delivery, clientVars, hand,
                 shutdownVars, history>>

\* The task returns, or throws a FatalException that is caught.
Run(w) ==
  /\ wpc[w] = "run"
  /\ queueListener(w) => RunningSemFree
  /\ done' = done \cup {slot[w]}
  /\ slot' = Cleared(w)
  /\ Goto(w, IF queueListener(w) THEN "completed" ELSE "relock")
  /\ UNCHANGED <<poolVars, queueVars, delivery, clientVars, hand, shutdownVars, submitted>>

\* EVT_COMPLETED: lock taskQueueSem ...
Completed(w) ==
  /\ wpc[w] = "completed"
  /\ CanEnter(queueSem, w)
  /\ queueSem' = Enter(queueSem, w)
  /\ Goto(w, "check")
  /\ UNCHANGED <<poolVars, taskQueue, slot, delivery, clientVars, hand,
                 shutdownVars, history>>

\* ... and take the next queued task, unlocking before it is offered ...
TakeQueued(w) ==
  /\ wpc[w] = "check"
  /\ taskQueue # <<>>
  /\ hand' = [hand EXCEPT ![w] = Head(taskQueue)]
  /\ taskQueue' \in QueueAfter(Rest(taskQueue), w)
  /\ queueSem' \in Leave(queueSem)
  /\ Goto(w, "reoffer")
  /\ UNCHANGED <<poolVars, slot, delivery, clientVars, shutdownVars, history>>

\* ... offer it to the very queue that fired the event ...
Reoffer(w) ==
  /\ wpc[w] = "reoffer"
  /\ IF ~HasTask(w)
     THEN /\ slot' = [slot EXCEPT ![w] = hand[w]]
          /\ delivery' \in Deliver(w)
          /\ hand' = [hand EXCEPT ![w] = NoTask]
          /\ Goto(w, "unlockAgain")
     ELSE Goto(w, "failed") /\ UNCHANGED <<slot, delivery, hand>>
  /\ UNCHANGED <<poolVars, queueVars, clientVars, shutdownVars, history>>

\* ... and unlock taskQueueSem a second time.
UnlockAgain(w) ==
  /\ wpc[w] = "unlockAgain"
  /\ queueSem' \in Leave(queueSem)
  /\ Goto(w, "relock")
  /\ UNCHANGED <<poolVars, taskQueue, slot, delivery, clientVars, hand,
                 shutdownVars, history>>

\* No task is queued: go for threadPoolSem, inside taskQueueSem ...
NothingQueued(w) ==
  /\ wpc[w] = "check"
  /\ taskQueue = <<>>
  /\ Goto(w, "return")
  /\ UNCHANGED <<poolVars, queueVars, slot, delivery, clientVars, hand,
                 shutdownVars, history>>

\* ... and return the thread to the pool.
ReturnToPool(w) ==
  /\ wpc[w] = "return"
  /\ CanEnter(poolSem, w)
  /\ poolSem' \in Leave(Enter(poolSem, w))
  /\ pool' = Append(pool, w)
  /\ queueSem' \in Leave(queueSem)
  /\ Goto(w, "relock")
  /\ UNCHANGED <<started, taskQueue, slot, delivery, clientVars, hand,
                 shutdownVars, history>>

\* submittedSem is free again; lock deliveryLock once more and go round.
Relock(w) ==
  /\ wpc[w] = "relock"
  /\ CanEnter(delivery[w], w)
  /\ delivery' = [delivery EXCEPT ![w] = Enter(@, w)]
  /\ Goto(w, "top")
  /\ UNCHANGED <<poolVars, queueVars, slot, clientVars, hand, shutdownVars, history>>

\* Thread::cleanup takes the thread out of runningThreads.
Exit(w) ==
  /\ wpc[w] = "exiting"
  /\ RunningSemFree
  /\ Goto(w, "leaving")
  /\ UNCHANGED <<poolVars, queueVars, slot, delivery, clientVars, hand,
                 shutdownVars, history>>

Cleanup(w) ==
  /\ wpc[w] = "leaving"
  /\ Goto(w, "exited")
  /\ UNCHANGED <<poolVars, queueVars, slot, delivery, clientVars, hand,
                 shutdownVars, history>>

-----------------------------------------------------------------------------
(* Thread::CollectRemainingThreads, called by ROGDestroy. *)

BeginShutdown ==
  /\ Shutdown
  /\ collector = "off"
  /\ collector' = "signalling"
  /\ todo' = Running
  /\ UNCHANGED <<poolVars, queueVars, slot, delivery, wpc, clientVars, hand,
                 signalled, history>>

\* Thread::signal, which for a worker is RunQueue::signal.
Signal(x) ==
  /\ collector = "signalling"
  /\ x \in todo
  /\ todo' = todo \ {x}
  /\ signalled' = [signalled EXCEPT ![x] = TRUE]
  /\ IF x \in Workers
     THEN delivery' \in Deliver(x)
     ELSE UNCHANGED delivery
  /\ UNCHANGED <<poolVars, queueVars, slot, wpc, clientVars, hand, collector, history>>

EndSignalling ==
  /\ collector = "signalling"
  /\ todo = {}
  /\ collector' = "joining"
  /\ UNCHANGED <<poolVars, queueVars, slot, delivery, wpc, clientVars, hand,
                 signalled, todo, history>>

\* Pick a running thread and wait for it with waitfor, outside runningSem ...
PickThread(x) ==
  /\ collector = "joining"
  /\ todo = {}
  /\ x \in Running
  /\ todo' = {x}
  /\ UNCHANGED <<poolVars, queueVars, slot, delivery, wpc, clientVars, hand,
                 signalled, collector, history>>

Waitfor(x) ==
  /\ collector = "joining"
  /\ x \in todo
  /\ x \in Gone
  /\ todo' = {}
  /\ UNCHANGED <<poolVars, queueVars, slot, delivery, wpc, clientVars, hand,
                 signalled, collector, history>>

\* ... until none is running.  That those leaving have left is only slept for.
Joined ==
  /\ collector = "joining"
  /\ todo = {}
  /\ Running = {}
  /\ collector' = "closed"
  /\ UNCHANGED <<poolVars, queueVars, slot, delivery, wpc, clientVars, hand,
                 signalled, todo, history>>

-----------------------------------------------------------------------------
ClientStep(c) ==
  \/ StartThread(c) \/ StartDone(c)
  \/ TakeIdle(c) \/ (\E w \in ExtraWorkers : AddThread(c, w))
  \/ QueueTask(c) \/ LockQueue(c) \/ AppendTask(c)
  \/ Offer(c) \/ ClientExit(c) \/ ClientCleanup(c)

WorkerStep(w) ==
  \/ Top(w) \/ Wake(w) \/ Poll(w) \/ Run(w)
  \/ Completed(w) \/ TakeQueued(w) \/ Reoffer(w) \/ UnlockAgain(w)
  \/ NothingQueued(w) \/ ReturnToPool(w)
  \/ Relock(w) \/ Exit(w) \/ Cleanup(w)

CollectorStep ==
  \/ \E x \in Threads : Signal(x) \/ PickThread(x) \/ Waitfor(x)
  \/ EndSignalling \/ Joined

Next ==
  \/ \E c \in Clients : Start(c) \/ (\E t \in Tasks : Execute(c, t)) \/ ClientStep(c)
  \/ \E w \in Workers : WorkerStep(w)
  \/ BeginShutdown \/ CollectorStep

\* Every thread that can run does: Windows schedules each of them, a task
\* returns, and a lock that is free long enough is taken.  Nobody has to call
\* start, execute or ROGDestroy.
Fairness ==
  /\ \A c \in Clients : WF_vars(ClientStep(c))
  /\ \A w \in Workers : WF_vars(WorkerStep(w))
  /\ WF_vars(CollectorStep)

Spec == Init /\ [][Next]_vars /\ Fairness

-----------------------------------------------------------------------------
(* Properties *)

TypeOK ==
  /\ started \in BOOLEAN
  /\ pool \in Seq(Workers)
  /\ poolSem \in Section(Threads)
  /\ taskQueue \in Seq(Tasks)
  /\ queueSem \in Section(Threads)
  /\ slot \in [Workers -> Tasks \cup {NoTask}]
  /\ delivery \in [Workers -> Section(Workers \cup {Creator})]
  /\ wpc \in [Workers -> WorkerPoints]
  /\ cpc \in [Clients -> ClientPoints]
  /\ hand \in [Threads -> Tasks \cup {NoTask}]
  /\ target \in [Clients -> Workers \cup {NoWorker}]
  /\ signalled \in [Threads -> BOOLEAN]
  /\ collector \in {"off", "signalling", "joining", "closed"}
  /\ todo \subseteq Threads
  /\ submitted \subseteq Tasks
  /\ done \subseteq submitted

\* Every task execute accepted is in exactly one place until it has run, and
\* then in none: no path between the client's hand, the task queue, the hand of
\* the worker that dequeues it and a submittedTask drops a task or copies it.
Places(t) ==
  {<<"queue", i>> : i \in {j \in DOMAIN taskQueue : taskQueue[j] = t}}
    \cup {<<"slot", w>> : w \in {v \in Workers : slot[v] = t}}
    \cup {<<"hand", x>> : x \in {y \in Threads : hand[y] = t}}
    \cup (IF t \in done THEN {<<"done", t>>} ELSE {})

TaskInOnePlace ==
  \A t \in Tasks : Cardinality(Places(t)) = IF t \in submitted THEN 1 ELSE 0

\* A thread in the pool, or just taken out of it, is ready for an offer: its
\* submittedTask is NULL and its deliveryLock is locked, so that the unlock in
\* RunQueue::offer is never one too many.  The thread itself puts the Thread
\* into the pool before it locks deliveryLock again (RunQueue.h:49, 53).  Only of
\* a thread that was signalled is the lock in nobody's hands.
IdleThreadIsReady ==
  \A w \in Workers :
    (\E i \in DOMAIN pool : pool[i] = w) \/ (\E c \in Clients : target[c] = w)
      => slot[w] = NoTask /\ (signalled[w] \/ delivery[w].depth >= 1)

\* No thread is offered to two clients, whatever they and the workers do: a
\* thread is at most once in the pool, and not at all once a client picked it.
ThreadTakenOnce ==
  /\ \A i, j \in DOMAIN pool : pool[i] = pool[j] => i = j
  /\ \A c \in Clients : \A i \in DOMAIN pool : pool[i] # target[c]
  /\ \A c, d \in Clients : target[c] = target[d] /\ target[c] # NoWorker => c = d

\* RunQueue::offer never refuses a task.  A refusal would throw out of execute
\* with threadPoolSem locked, or end the worker inside its submittedSem.
NoRefusedOffer ==
  /\ \A c \in Clients : cpc[c] # "failed"
  /\ \A w \in Workers : wpc[w] # "failed"

\* No lost wake-up: a worker that has been given a task can pass deliveryLock,
\* also while others are being signalled, as long as it was not itself.
NoLostWakeup ==
  \A w \in Workers : slot[w] # NoTask => signalled[w] \/ CanEnter(delivery[w], w)

\* The pool implements a task executor.
Executor == INSTANCE TaskExecutor WITH
  pending  <- submitted \ (done \cup {slot[w] : w \in {v \in Workers : wpc[v] = "run"}}),
  running  <- {slot[w] : w \in {v \in Workers : wpc[v] = "run"}},
  finished <- done

ExecutesTasks == Executor!Spec
ExecutesTasksSafely == Executor!SafeSpec

-----------------------------------------------------------------------------
(* What the comments and log lines of the code say, and the code does not do. *)

\* "Queue this task": a client that finds no idle thread gets the task into the
\* queue and returns from execute, although a worker may be returning to the pool
\* at that moment.
TaskIsQueued == \A c \in Clients : cpc[c] = "queueWait" ~> cpc[c] = "idle"

\* CollectRemainingThreads outlasts every thread, then returns.
ShutdownCompletes == collector = "signalling" ~> collector = "closed"

=============================================================================
