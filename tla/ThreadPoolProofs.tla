--------------------------- MODULE ThreadPoolProofs ---------------------------
(***************************************************************************)
(* Theorems about ThreadPool, for every set of clients, workers and tasks  *)
(* and every size of the pool.                                             *)
(*                                                                         *)
(* All of them hold with a shutdown at any time.  RunQueue::signal unlocks *)
(* a deliveryLock that may be unlocked already: the hand-over to a worker  *)
(* is argued without the lock of a worker that was signalled.              *)
(***************************************************************************)
EXTENDS ThreadPool, FiniteSetTheorems, TLAPS

-----------------------------------------------------------------------------
(* The inductive invariant *)

\* The tasks in the queue, in a RunQueue or in a hand were submitted, and
\* whoever is about to hand one over holds one.
TasksKnown ==
  /\ taskQueue \in Seq(submitted)
  /\ \A w \in Workers : slot[w] \in submitted \cup {NoTask}
  /\ \A x \in Threads : hand[x] \in submitted \cup {NoTask}
  /\ \A c \in Clients : cpc[c] \in {"poolWait", "queueWait", "append", "offer"} => hand[c] # NoTask
  /\ \A w \in Workers : wpc[w] = "reoffer" => hand[w] # NoTask
  /\ \A w \in Workers : wpc[w] = "run" => slot[w] # NoTask
  /\ \A c \in Clients : cpc[c] = "offer" => target[c] \in Workers

TypeInv == TypeOK /\ TasksKnown

Elements(s) == {s[i] : i \in DOMAIN s}

Once(s) == \A i, j \in DOMAIN s : s[i] = s[j] => i = j

\* threadPoolSem is free or one client is inside, at the points where the code
\* keeps it.
HoldsPool == {"starting", "queueWait", "append", "offer"}

PoolLock ==
  /\ poolSem = Free \/ \E c \in Clients : cpc[c] \in HoldsPool /\ poolSem = OwnedBy(c)
  /\ \A c \in Clients : cpc[c] \in HoldsPool => poolSem = OwnedBy(c)

\* A client has a target while it is about to offer to it.
Targets == \A c \in Clients : target[c] # NoWorker <=> cpc[c] = "offer"

Idle(w) == w \in Elements(pool) \/ \E c \in Clients : target[c] = w

PoolOnce ==
  /\ Once(pool)
  /\ \A c \in Clients : target[c] \notin Elements(pool)

\* The owner of deliveryLock: its creator until the first offer, then nobody or
\* the worker.  RunQueue::signal leaves the lock whoever holds it: of a signalled
\* worker's lock nothing is known.
DeliveryOwner(w) ==
  \/ signalled[w]
  \/ delivery[w] = OwnedBy(Creator) /\ slot[w] = NoTask /\ wpc[w] \in {"absent", "new", "top", "wait"}
  \/ delivery[w] = Free /\ wpc[w] # "absent"
  \/ delivery[w].owner = w /\ delivery[w].depth >= 1 /\ wpc[w] # "absent"

\* An idle worker has no task and is outside its submittedSem.  Its deliveryLock
\* is locked, deep enough for the turn of its loop an offer may interrupt.
IdleReady(w) ==
  Idle(w) =>
    /\ slot[w] = NoTask
    /\ wpc[w] \in {"new", "top", "wait", "poll", "relock", "exiting", "leaving", "exited"}
    /\ \/ signalled[w]
       \/ wpc[w] \in {"new", "top", "wait"} /\ delivery[w] = OwnedBy(Creator)
       \/ wpc[w] \in {"top", "wait", "poll"} /\ delivery[w].owner = w /\ delivery[w].depth >= 2
       \/ wpc[w] = "relock" /\ delivery[w].owner = w /\ delivery[w].depth >= 1

\* A worker that passed deliveryLock holds it until it hands itself a task, and
\* from the end of one task on it has none.
WorkerHolds(w) ==
  /\ wpc[w] \in {"poll", "run", "completed", "check", "reoffer", "return"} =>
       signalled[w] \/ (delivery[w].owner = w /\ delivery[w].depth >= 1)
  /\ wpc[w] \in {"absent", "completed", "check", "reoffer", "return"} => slot[w] = NoTask
  /\ wpc[w] # "failed"

WorkerOK(w) == DeliveryOwner(w) /\ IdleReady(w) /\ WorkerHolds(w)

HandOver ==
  /\ PoolLock
  /\ Targets
  /\ PoolOnce
  /\ \A c \in Clients : cpc[c] # "failed"
  /\ \A w \in Workers : WorkerOK(w)

-----------------------------------------------------------------------------
(* Lemmas about critical sections and about lists *)

\* Entering and leaving a section yields a section.
LEMMA SectionEnter ==
  ASSUME NEW T, NEW cs \in Section(T), NEW t \in T
  PROVE  Enter(cs, t) \in Section(T)
  BY SectionAssumption DEF Section, Enter

LEMMA SectionLeave ==
  ASSUME NEW T, NEW cs \in Section(T), NEW d \in Leave(cs)
  PROVE  d \in Section(T)
  <1>1. CASE cs.depth > 1
    BY <1>1, SectionAssumption DEF Section, Leave
  <1>2. CASE cs.depth = 1
    BY <1>2, SectionAssumption DEF Section, Leave, Free
  <1>3. CASE ~(cs.depth > 1) /\ cs.depth # 1
    BY <1>3, SectionAssumption DEF Section, Leave
  <1> QED
    BY <1>1, <1>2, <1>3

\* A free section belongs to its next owner once, and is free after he left.
LEMMA FreeEnter ==
  ASSUME NEW t
  PROVE  Enter(Free, t) = OwnedBy(t) /\ Leave(OwnedBy(t)) = {Free}
  BY SectionAssumption DEF Enter, Free, OwnedBy, Leave

\* A section entered by t is t's, and what leaving it once leaves.
LEMMA OwnedEnter ==
  ASSUME NEW T, NEW cs \in Section(T), NEW t
  PROVE  /\ Enter(cs, t).owner = t /\ Enter(cs, t).depth >= 1
         /\ cs.depth >= 1 => Enter(cs, t).depth >= 2
  BY SectionAssumption DEF Section, Enter

LEMMA OwnedLeave ==
  ASSUME NEW T, NEW cs \in Section(T), cs.depth >= 1, NEW d \in Leave(cs)
  PROVE  /\ d = Free \/ (d.owner = cs.owner /\ d.depth >= 1)
         /\ cs.depth >= 2 => d.owner = cs.owner /\ d.depth >= 1
  <1>1. CASE cs.depth > 1
    <2>1. d = [cs EXCEPT !.depth = @ - 1]
      BY <1>1 DEF Leave
    <2> QED
      BY <1>1, <2>1 DEF Section
  <1>2. CASE cs.depth = 1
    <2>1. ~(cs.depth > 1)
      BY <1>2
    <2>2. d = Free
      BY <1>2, <2>1 DEF Leave
    <2> QED
      BY <1>2, <2>2
  <1> QED
    BY <1>1, <1>2, SectionAssumption DEF Section

\* Taking the first element of a list leaves the others.
LEMMA RestType ==
  ASSUME NEW S, NEW s \in Seq(S), s # <<>>
  PROVE  Rest(s) \in Seq(S) /\ Head(s) \in S
  BY DEF Rest

LEMMA RestElements ==
  ASSUME NEW S, NEW s \in Seq(S), s # <<>>, Once(s)
  PROVE  /\ Once(Rest(s))
         /\ Head(s) \in Elements(s)
         /\ Elements(Rest(s)) = Elements(s) \ {Head(s)}
  <1>1. /\ Rest(s) \in Seq(S) /\ Len(Rest(s)) = Len(s) - 1 /\ Len(s) \in Nat \ {0}
        /\ Head(s) = s[1]
        /\ \A i \in 1 .. Len(s) - 1 : Rest(s)[i] = s[i + 1]
    BY DEF Rest
  <1>2. Once(Rest(s))
    BY <1>1 DEF Once
  <1>3. Head(s) \in Elements(s)
    BY <1>1 DEF Elements
  <1>4. ASSUME NEW x \in Elements(Rest(s))
        PROVE  x \in Elements(s) \ {Head(s)}
    <2>1. PICK i \in 1 .. Len(s) - 1 : x = s[i + 1]
      BY <1>1, <1>4 DEF Elements
    <2> QED
      BY <1>1, <2>1 DEF Elements, Once
  <1>5. ASSUME NEW x \in Elements(s) \ {Head(s)}
        PROVE  x \in Elements(Rest(s))
    <2>1. PICK i \in 1 .. Len(s) : x = s[i]
      BY <1>5 DEF Elements
    <2>2. i # 1 /\ i - 1 \in 1 .. Len(s) - 1 /\ Rest(s)[i - 1] = x
      BY <1>1, <1>5, <2>1
    <2> QED
      BY <1>1, <2>2 DEF Elements
  <1> QED
    BY <1>2, <1>3, <1>4, <1>5

\* Appending a new element to a list adds just that element.
LEMMA AppendElements ==
  ASSUME NEW S, NEW s \in Seq(S), NEW x \in S
  PROVE  /\ Elements(Append(s, x)) = Elements(s) \cup {x}
         /\ Once(s) /\ x \notin Elements(s) => Once(Append(s, x))
  <1>1. /\ Append(s, x) \in Seq(S) /\ Len(Append(s, x)) = Len(s) + 1 /\ Len(s) \in Nat
        /\ \A i \in 1 .. Len(s) : Append(s, x)[i] = s[i]
        /\ Append(s, x)[Len(s) + 1] = x
    OBVIOUS
  <1>2. Elements(Append(s, x)) = Elements(s) \cup {x}
    <2>1. ASSUME NEW y \in Elements(Append(s, x)) PROVE y \in Elements(s) \cup {x}
      BY <1>1, <2>1 DEF Elements
    <2>2. ASSUME NEW y \in Elements(s) \cup {x} PROVE y \in Elements(Append(s, x))
      <3>1. CASE y = x
        BY <1>1, <3>1 DEF Elements
      <3>2. CASE y \in Elements(s)
        BY <1>1, <3>2 DEF Elements
      <3> QED
        BY <2>2, <3>1, <3>2
    <2> QED
      BY <2>1, <2>2
  <1>3. ASSUME Once(s), x \notin Elements(s) PROVE Once(Append(s, x))
    BY <1>1, <1>3 DEF Once, Elements
  <1> QED
    BY <1>2, <1>3

-----------------------------------------------------------------------------
(* Type correctness *)

LEMMA DeliverType ==
  ASSUME NEW T, delivery \in [Workers -> Section(T)], NEW w \in Workers, NEW d \in Deliver(w)
  PROVE  d \in [Workers -> Section(T)]
  <1>1. PICK e \in Leave(delivery[w]) : d = [delivery EXCEPT ![w] = e]
    BY DEF Deliver
  <1>2. e \in Section(T)
    BY <1>1, SectionLeave
  <1> QED
    BY <1>1, <1>2

LEMMA ThreadKinds ==
  /\ Clients \subseteq Threads /\ Workers \subseteq Threads
  /\ ExtraWorkers \subseteq Workers
  /\ \A c \in Clients : c \notin Workers
  /\ NoTask \notin Tasks
  /\ NoWorker \notin Workers
  BY PoolAssumption DEF Threads, Workers

LEMMA TypeInit == Init => TypeInv
  <1> SUFFICES ASSUME Init PROVE TypeInv
    OBVIOUS
  <1>1. Free \in Section(Threads) /\ OwnedBy(Creator) \in Section(Workers \cup {Creator})
    BY SectionAssumption DEF Section, Free, OwnedBy
  <1>2. pool \in Seq(Workers) /\ taskQueue = <<>>
    <2>1. pool \in [1 .. currentSize -> CoreWorkers] /\ currentSize \in Nat
      BY PoolAssumption, FS_CardinalityType DEF Init, currentSize
    <2>2. Seq(CoreWorkers) \subseteq Seq(Workers)
      BY DEF Workers
    <2> QED
      BY <2>1, <2>2 DEF Init
  <1>3. /\ wpc \in [Workers -> WorkerPoints] /\ cpc \in [Clients -> ClientPoints]
        /\ delivery \in [Workers -> Section(Workers \cup {Creator})]
    BY <1>1 DEF Init, WorkerPoints, ClientPoints
  <1>4. hand \in [Threads -> Tasks \cup {NoTask}] /\ target \in [Clients -> Workers \cup {NoWorker}]
    BY DEF Init
  <1>5. TypeOK
    <2>1. /\ slot \in [Workers -> Tasks \cup {NoTask}]
          /\ signalled \in [Threads -> BOOLEAN]
          /\ poolSem \in Section(Threads) /\ queueSem \in Section(Threads)
      BY <1>1 DEF Init
    <2>2. started = FALSE /\ collector = "off" /\ todo = {} /\ submitted = {} /\ done = {}
      BY DEF Init
    <2>3. taskQueue \in Seq(Tasks)
      BY <1>2
    <2> QED
      BY <1>2, <1>3, <1>4, <2>1, <2>2, <2>3 DEF TypeOK
  <1>6. TasksKnown
    BY <1>2, ThreadKinds DEF Init, TasksKnown
  <1> QED
    BY <1>5, <1>6 DEF TypeInv

LEMMA TypeStep == TypeInv /\ [Next]_vars => TypeInv'
  <1> SUFFICES ASSUME TypeInv, [Next]_vars PROVE TypeInv'
    OBVIOUS
  <1> USE ThreadKinds
      DEF TypeInv, TypeOK, TasksKnown, ClientPoints, WorkerPoints, poolVars, queueVars, clientVars, shutdownVars, history
  <1>1. ASSUME NEW c \in Clients, Start(c) PROVE TypeInv'
    BY <1>1, SectionEnter DEF Start
  <1>2. ASSUME NEW c \in Clients, StartThread(c) PROVE TypeInv'
    <2>1. pool' \in Seq(Workers)
      <3>1. Rest(pool) \in Seq(Workers) /\ Head(pool) \in Workers
        BY <1>2, RestType DEF StartThread
      <3> QED
        BY <1>2, <3>1 DEF StartThread
    <2>2. wpc' \in [Workers -> WorkerPoints] /\ \A w \in Workers : wpc'[w] = wpc[w] \/ wpc'[w] = "top"
      BY <1>2 DEF StartThread
    <2> QED
      BY <1>2, <2>1, <2>2 DEF StartThread
  <1>3. ASSUME NEW c \in Clients, StartDone(c) PROVE TypeInv'
    BY <1>3, SectionLeave DEF StartDone
  <1>4. ASSUME NEW c \in Clients, TakeIdle(c) PROVE TypeInv'
    <2>1. Rest(pool) \in Seq(Workers) /\ Head(pool) \in Workers
      BY <1>4, RestType DEF TakeIdle
    <2>2. poolSem' \in Section(Threads)
      BY <1>4, SectionEnter DEF TakeIdle
    <2> QED
      BY <1>4, <2>1, <2>2 DEF TakeIdle
  <1>5. ASSUME NEW c \in Clients, QueueTask(c) PROVE TypeInv'
    BY <1>5, SectionEnter DEF QueueTask
  <1>6. ASSUME NEW c \in Clients, LockQueue(c) PROVE TypeInv'
    BY <1>6, SectionEnter DEF LockQueue
  <1>7. ASSUME NEW c \in Clients, AppendTask(c) PROVE TypeInv'
    <2>1. hand[c] \in submitted
      BY <1>7 DEF AppendTask
    <2>2. Append(taskQueue, hand[c]) \in Seq(submitted) /\ Append(taskQueue, hand[c]) \in Seq(Tasks)
      BY <2>1
    <2>3. taskQueue' \in Seq(submitted) /\ taskQueue' \in Seq(Tasks)
      BY <1>7, <2>2 DEF AppendTask, QueueAfter
    <2>4. poolSem' \in Section(Threads) /\ queueSem' \in Section(Threads)
      BY <1>7, SectionLeave DEF AppendTask
    <2>5. TypeOK'
      BY <1>7, <2>3, <2>4 DEF AppendTask
    <2>6. TasksKnown'
      BY <1>7, <2>3 DEF AppendTask
    <2> QED
      BY <2>5, <2>6
  <1>8. ASSUME NEW c \in Clients, Offer(c) PROVE TypeInv'
    <2>1. CASE ~HasTask(target[c])
      <3>1. target[c] \in Workers /\ hand[c] \in submitted
        BY <1>8 DEF Offer
      <3>2. delivery' \in [Workers -> Section(Workers \cup {Creator})]
        BY <1>8, <2>1, <3>1, DeliverType DEF Offer
      <3>3. poolSem' \in Section(Threads)
        BY <1>8, <2>1, SectionLeave DEF Offer
      <3>4. TypeOK'
        BY <1>8, <2>1, <3>1, <3>2, <3>3 DEF Offer
      <3>5. /\ slot' = [slot EXCEPT ![target[c]] = hand[c]]
            /\ hand' = [hand EXCEPT ![c] = NoTask]
            /\ cpc' = [cpc EXCEPT ![c] = "idle"]
            /\ target' = [target EXCEPT ![c] = NoWorker]
            /\ UNCHANGED <<taskQueue, wpc, submitted>>
        BY <1>8, <2>1 DEF Offer
      <3>6. TasksKnown'
        BY <3>1, <3>5
      <3> QED
        BY <3>4, <3>6
    <2>2. CASE HasTask(target[c])
      <3>1. TypeOK'
        BY <1>8, <2>2 DEF Offer
      <3>2. TasksKnown'
        BY <1>8, <2>2 DEF Offer
      <3> QED
        BY <3>1, <3>2
    <2> QED
      BY <2>1, <2>2
  <1>9. ASSUME NEW c \in Clients, ClientExit(c) \/ ClientCleanup(c) PROVE TypeInv'
    <2>1. TypeOK'
      BY <1>9 DEF ClientExit, ClientCleanup
    <2>2. TasksKnown'
      BY <1>9 DEF ClientExit, ClientCleanup
    <2> QED
      BY <2>1, <2>2
  <1>10. ASSUME NEW c \in Clients, NEW t \in Tasks, Execute(c, t) PROVE TypeInv'
    <2>1. taskQueue \in Seq(submitted')
      BY <1>10 DEF Execute
    <2> QED
      BY <1>10, <2>1 DEF Execute
  <1>11. ASSUME NEW c \in Clients, NEW w \in ExtraWorkers, AddThread(c, w) PROVE TypeInv'
    BY <1>11, SectionEnter DEF AddThread
  <1>12. ASSUME NEW w \in Workers, Top(w) PROVE TypeInv'
    BY <1>12 DEF Top, Goto
  <1>13. ASSUME NEW w \in Workers, Wake(w) PROVE TypeInv'
    BY <1>13, SectionEnter DEF Wake, Goto
  <1>14. ASSUME NEW w \in Workers, Poll(w) PROVE TypeInv'
    <2>1. \/ wpc' = [wpc EXCEPT ![w] = "relock"]
          \/ slot[w] # NoTask /\ wpc' = [wpc EXCEPT ![w] = "run"]
      BY <1>14 DEF Poll, Goto, HasTask
    <2>2. UNCHANGED <<poolVars, queueVars, slot, delivery, clientVars, hand, shutdownVars, history>>
      BY <1>14 DEF Poll
    <2>3. TypeOK'
      BY <2>1, <2>2
    <2>4. TasksKnown'
      BY <2>1, <2>2
    <2> QED
      BY <2>3, <2>4
  <1>15. ASSUME NEW w \in Workers, Run(w) PROVE TypeInv'
    <2>1. slot[w] \in submitted
      BY <1>15 DEF Run
    <2>2. slot' = [slot EXCEPT ![w] = NoTask]
      BY <1>15 DEF Run, Cleared
    <2>3. /\ wpc' \in [Workers -> WorkerPoints]
          /\ \A v \in Workers : wpc'[v] \in {"reoffer", "run"} => wpc'[v] = wpc[v] /\ v # w
      BY <1>15 DEF Run, Goto
    <2>4. /\ done' = done \cup {slot[w]}
          /\ UNCHANGED <<poolVars, queueVars, delivery, clientVars, hand, shutdownVars, submitted>>
      BY <1>15 DEF Run
    <2>5. TypeOK'
      BY <2>1, <2>2, <2>3, <2>4
    <2>6. TasksKnown'
      BY <2>1, <2>2, <2>3, <2>4
    <2> QED
      BY <2>5, <2>6
  <1>16. ASSUME NEW w \in Workers, Completed(w) PROVE TypeInv'
    BY <1>16, SectionEnter DEF Completed, Goto
  <1>17. ASSUME NEW w \in Workers, TakeQueued(w) PROVE TypeInv'
    <2>1. Rest(taskQueue) \in Seq(submitted) /\ Head(taskQueue) \in submitted
      BY <1>17, RestType DEF TakeQueued
    <2>2. Rest(taskQueue) \in Seq(Tasks)
      BY <1>17, RestType DEF TakeQueued
    <2>3. taskQueue' \in Seq(submitted) /\ taskQueue' \in Seq(Tasks)
      BY <1>17, <2>1, <2>2 DEF TakeQueued, QueueAfter
    <2>4. queueSem' \in Section(Threads)
      BY <1>17, SectionLeave DEF TakeQueued
    <2>5. TypeOK'
      BY <1>17, <2>1, <2>3, <2>4 DEF TakeQueued, Goto
    <2>6. TasksKnown'
      BY <1>17, <2>1, <2>3, <2>4 DEF TakeQueued, Goto
    <2> QED
      BY <2>5, <2>6
  <1>18. ASSUME NEW w \in Workers, Reoffer(w) PROVE TypeInv'
    <2>1. CASE ~HasTask(w)
      <3>1. delivery' \in [Workers -> Section(Workers \cup {Creator})]
        BY <1>18, <2>1, DeliverType DEF Reoffer
      <3>2. TypeOK'
        BY <1>18, <2>1, <3>1 DEF Reoffer, Goto
      <3>3. /\ slot' = [slot EXCEPT ![w] = hand[w]]
            /\ hand' = [hand EXCEPT ![w] = NoTask]
            /\ wpc' = [wpc EXCEPT ![w] = "unlockAgain"]
            /\ UNCHANGED <<taskQueue, clientVars, submitted>>
        BY <1>18, <2>1 DEF Reoffer, Goto
      <3>4. TasksKnown'
        BY <3>3
      <3> QED
        BY <3>2, <3>4
    <2>2. CASE HasTask(w)
      <3>1. TypeOK'
        BY <1>18, <2>2 DEF Reoffer, Goto
      <3>2. TasksKnown'
        BY <1>18, <2>2 DEF Reoffer, Goto
      <3> QED
        BY <3>1, <3>2
    <2> QED
      BY <2>1, <2>2
  <1>19. ASSUME NEW w \in Workers, UnlockAgain(w) PROVE TypeInv'
    BY <1>19, SectionLeave DEF UnlockAgain, Goto
  <1>20. ASSUME NEW w \in Workers, NothingQueued(w) PROVE TypeInv'
    BY <1>20 DEF NothingQueued, Goto
  <1>21. ASSUME NEW w \in Workers, ReturnToPool(w) PROVE TypeInv'
    <2>1. pool' \in Seq(Workers)
      BY <1>21 DEF ReturnToPool
    <2>2. Enter(poolSem, w) \in Section(Threads)
      BY SectionEnter
    <2>3. poolSem' \in Section(Threads) /\ queueSem' \in Section(Threads)
      BY <1>21, <2>2, SectionLeave DEF ReturnToPool
    <2> QED
      BY <1>21, <2>1, <2>3 DEF ReturnToPool, Goto
  <1>22. ASSUME NEW w \in Workers, Relock(w) PROVE TypeInv'
    BY <1>22, SectionEnter DEF Relock, Goto
  <1>23. ASSUME NEW w \in Workers, Exit(w) \/ Cleanup(w) PROVE TypeInv'
    BY <1>23 DEF Exit, Cleanup, Goto
  <1>24. ASSUME NEW c \in Clients, Start(c) \/ (\E t \in Tasks : Execute(c, t)) \/ ClientStep(c)
         PROVE  TypeInv'
    BY <1>24, <1>1, <1>2, <1>3, <1>4, <1>5, <1>6, <1>7, <1>8, <1>9, <1>10, <1>11 DEF ClientStep
  <1>25. ASSUME NEW w \in Workers, WorkerStep(w) PROVE TypeInv'
    BY <1>25, <1>12, <1>13, <1>14, <1>15, <1>16, <1>17, <1>18, <1>19, <1>20, <1>21, <1>22, <1>23
       DEF WorkerStep
  <1>26. CASE CollectorStep
    <2>1. ASSUME NEW x \in Threads, Signal(x) PROVE TypeInv'
      BY <2>1, DeliverType DEF Signal
    <2>2. ASSUME NEW x \in Threads, PickThread(x) \/ Waitfor(x) PROVE TypeInv'
      BY <2>2 DEF PickThread, Waitfor
    <2>3. CASE EndSignalling \/ Joined
      BY <2>3 DEF EndSignalling, Joined
    <2> QED
      BY <1>26, <2>1, <2>2, <2>3 DEF CollectorStep
  <1>27. CASE BeginShutdown
    BY <1>27 DEF BeginShutdown, Running
  <1>28. CASE UNCHANGED vars
    BY <1>28 DEF vars, poolVars, queueVars, clientVars, shutdownVars, history
  <1> QED
    BY <1>24, <1>25, <1>26, <1>27, <1>28 DEF Next

-----------------------------------------------------------------------------
(* The theorem that types are kept, shutdown or not. *)

\* TypeOK for every pool: what the actions put into the queue, the RunQueues and
\* the locks has the type the code gives it, and only a submitted task is run.
THEOREM TypeCorrect == Spec => []TypeOK
  <1>1. Spec => []TypeInv
    BY TypeInit, TypeStep, PTL DEF Spec
  <1>2. TypeInv => TypeOK
    BY DEF TypeInv
  <1> QED
    BY <1>1, <1>2, PTL

-----------------------------------------------------------------------------
(* The hand-over is safe *)

\* A client that enters threadPoolSem finds it free, and nobody else inside.
LEMMA PoolEntered ==
  ASSUME PoolLock, NEW c \in Clients, cpc[c] \notin HoldsPool, CanEnter(poolSem, c)
  PROVE  /\ Enter(poolSem, c) = OwnedBy(c)
         /\ \A d \in Clients : cpc[d] \notin HoldsPool
  <1>1. poolSem = Free
    BY PoolAssumption DEF PoolLock, CanEnter, OwnedBy, Threads
  <1>2. ASSUME NEW d \in Clients, cpc[d] \in HoldsPool PROVE FALSE
    BY <1>1, <1>2, PoolAssumption DEF PoolLock, Free, OwnedBy, Threads
  <1> QED
    BY <1>1, <1>2, FreeEnter

\* A client inside threadPoolSem is alone there and leaves it free.
LEMMA PoolHeld ==
  ASSUME PoolLock, NEW c \in Clients, cpc[c] \in HoldsPool
  PROVE  /\ poolSem = OwnedBy(c)
         /\ Leave(poolSem) = {Free}
         /\ \A d \in Clients : cpc[d] \in HoldsPool => d = c
  BY FreeEnter DEF PoolLock, OwnedBy

\* So does a worker.
LEMMA PoolVisited ==
  ASSUME PoolLock, NEW w \in Workers, CanEnter(poolSem, w)
  PROVE  poolSem = Free /\ Leave(Enter(poolSem, w)) = {Free}
  <1>1. poolSem = Free
    BY PoolAssumption DEF PoolLock, CanEnter, OwnedBy, Threads
  <1> QED
    BY <1>1, FreeEnter

\* What a step of a worker inside its own RunQueue has to keep.
LEMMA OwnStep ==
  ASSUME HandOver, UNCHANGED <<pool, poolSem, cpc, target, signalled>>, NEW w \in Workers,
         \A v \in Workers \ {w} :
            slot'[v] = slot[v] /\ delivery'[v] = delivery[v] /\ wpc'[v] = wpc[v],
         WorkerOK(w)'
  PROVE  HandOver'
  <1>1. PoolLock' /\ Targets' /\ PoolOnce' /\ \A c \in Clients : cpc'[c] # "failed"
    BY DEF HandOver, PoolLock, Targets, PoolOnce
  <1>2. \A v \in Workers : Idle(v)' <=> Idle(v)
    BY DEF Idle
  <1>3. ASSUME NEW v \in Workers PROVE WorkerOK(v)'
    <2>1. CASE v = w
      BY <2>1
    <2>2. CASE v # w
      BY <1>2, <2>2 DEF HandOver, WorkerOK, DeliveryOwner, IdleReady, WorkerHolds
    <2> QED
      BY <2>1, <2>2
  <1> QED
    BY <1>1, <1>3 DEF HandOver

\* What a step of a client that offers nothing has to keep: it may move idle
\* workers between the pool and itself.
LEMMA ClientOnlyStep ==
  ASSUME HandOver, PoolLock', Targets', PoolOnce', \A c \in Clients : cpc'[c] # "failed",
         UNCHANGED <<slot, delivery, wpc, signalled>>,
         \A v \in Workers : Idle(v)' => Idle(v)
  PROVE  HandOver'
  <1>1. ASSUME NEW v \in Workers PROVE WorkerOK(v)'
    BY <1>1 DEF HandOver, WorkerOK, DeliveryOwner, IdleReady, WorkerHolds
  <1> QED
    BY <1>1 DEF HandOver

LEMMA HandOverInit == Init => HandOver
  <1> SUFFICES ASSUME Init PROVE HandOver
    OBVIOUS
  <1>1. pool \in [1 .. currentSize -> CoreWorkers] /\ Once(pool) /\ currentSize \in Nat
    BY PoolAssumption, FS_CardinalityType DEF Init, currentSize, Once
  <1>2. \A c \in Clients : target[c] = NoWorker /\ cpc[c] = "idle"
    BY DEF Init
  <1>3. PoolLock /\ Targets
    BY <1>2 DEF Init, PoolLock, Targets, HoldsPool
  <1>4. PoolOnce
    BY <1>1, <1>2, PoolAssumption DEF PoolOnce, Elements, Workers
  <1>5. ASSUME NEW w \in Workers PROVE WorkerOK(w)
    <2>1. slot[w] = NoTask /\ delivery[w] = OwnedBy(Creator) /\ wpc[w] \in {"new", "absent"}
      BY DEF Init
    <2>2. Idle(w) => wpc[w] = "new"
      BY <1>1, <1>2, PoolAssumption DEF Init, Idle, Elements
    <2> QED
      BY <2>1, <2>2 DEF WorkerOK, DeliveryOwner, IdleReady, WorkerHolds
  <1> QED
    BY <1>2, <1>3, <1>4, <1>5 DEF HandOver

LEMMA ClientHandOver ==
  ASSUME TypeInv, HandOver, NEW c \in Clients,
         Start(c) \/ StartDone(c) \/ (\E t \in Tasks : Execute(c, t)) \/ QueueTask(c)
           \/ LockQueue(c) \/ AppendTask(c) \/ ClientExit(c) \/ ClientCleanup(c) \/ TakeIdle(c)
  PROVE  HandOver'
  <1> USE DEF HandOver, TypeInv, TypeOK, HoldsPool, shutdownVars
  <1>1. CASE Start(c) \/ QueueTask(c)
    <2>1. poolSem' = OwnedBy(c) /\ \A d \in Clients : cpc[d] \notin HoldsPool
      BY <1>1, PoolEntered DEF Start, QueueTask
    <2>2. /\ cpc' = [cpc EXCEPT ![c] = cpc'[c]] /\ cpc'[c] \in {"starting", "queueWait"}
          /\ UNCHANGED <<pool, target, slot, delivery, wpc, signalled>>
      BY <1>1 DEF Start, QueueTask
    <2>3. PoolLock' /\ Targets' /\ PoolOnce'
      BY <2>1, <2>2 DEF PoolLock, Targets, PoolOnce
    <2> QED
      BY <2>2, <2>3, ClientOnlyStep DEF Idle
  <1>2. CASE StartDone(c) \/ AppendTask(c)
    <2>1. poolSem' = Free /\ \A d \in Clients : cpc[d] \in HoldsPool => d = c
      BY <1>2, PoolHeld DEF StartDone, AppendTask
    <2>2. /\ cpc' = [cpc EXCEPT ![c] = "idle"] /\ cpc[c] # "offer"
          /\ UNCHANGED <<pool, target, slot, delivery, wpc, signalled>>
      BY <1>2 DEF StartDone, AppendTask
    <2>3. PoolLock' /\ Targets' /\ PoolOnce'
      BY <2>1, <2>2 DEF PoolLock, Targets, PoolOnce
    <2> QED
      BY <2>2, <2>3, ClientOnlyStep DEF Idle
  <1>3. CASE (\E t \in Tasks : Execute(c, t)) \/ LockQueue(c) \/ ClientExit(c) \/ ClientCleanup(c)
    <2>1. /\ cpc' = [cpc EXCEPT ![c] = cpc'[c]]
          /\ cpc'[c] \notin {"offer", "failed"} /\ cpc[c] # "offer"
          /\ cpc'[c] \in HoldsPool <=> cpc[c] \in HoldsPool
          /\ UNCHANGED <<pool, poolSem, target, slot, delivery, wpc, signalled>>
      BY <1>3 DEF Execute, LockQueue, ClientExit, ClientCleanup, poolVars
    <2>2. PoolLock' /\ Targets' /\ PoolOnce'
      BY <2>1 DEF PoolLock, Targets, PoolOnce
    <2> QED
      BY <2>1, <2>2, ClientOnlyStep DEF Idle
  <1>4. CASE TakeIdle(c)
    <2> DEFINE h == Head(pool)
    <2>1. poolSem' = OwnedBy(c) /\ \A d \in Clients : cpc[d] \notin HoldsPool
      BY <1>4, PoolEntered DEF TakeIdle
    <2>2. /\ h \in Workers /\ h \in Elements(pool)
          /\ Once(pool') /\ Elements(pool') = Elements(pool) \ {h}
      BY <1>4, RestType, RestElements DEF TakeIdle, PoolOnce
    <2>3. /\ cpc' = [cpc EXCEPT ![c] = "offer"] /\ target' = [target EXCEPT ![c] = h]
          /\ UNCHANGED <<slot, delivery, wpc, signalled>>
      BY <1>4 DEF TakeIdle
    <2>4. PoolLock' /\ Targets' /\ PoolOnce'
      BY <2>1, <2>2, <2>3, ThreadKinds DEF PoolLock, Targets, PoolOnce
    <2>5. \A v \in Workers : Idle(v)' => Idle(v)
      BY <2>2, <2>3 DEF Idle
    <2> QED
      BY <2>3, <2>4, <2>5, ClientOnlyStep
  <1> QED
    BY <1>1, <1>2, <1>3, <1>4

\* A started worker was idle, and is.
LEMMA StartThreadHandOver ==
  ASSUME TypeInv, HandOver, NEW c \in Clients, StartThread(c)
  PROVE  HandOver'
  <1> DEFINE h == Head(pool)
  <1> USE DEF TypeInv, TypeOK
  <1>1. pool # <<>> /\ Once(pool) /\ cpc[c] \in HoldsPool /\ PoolLock /\ wpc[h] = "new"
    BY DEF StartThread, HandOver, PoolOnce, HoldsPool
  <1>2. /\ h \in Workers /\ h \in Elements(pool) /\ Rest(pool) \in Seq(Workers)
        /\ Once(Rest(pool)) /\ Elements(Rest(pool)) = Elements(pool) \ {h}
    BY <1>1, RestType, RestElements
  <1>3. Once(pool') /\ Elements(pool') = Elements(pool)
    <2>1. pool' = Append(Rest(pool), h) /\ h \notin Elements(Rest(pool))
      BY <1>2 DEF StartThread
    <2>2. /\ Elements(Append(Rest(pool), h)) = Elements(Rest(pool)) \cup {h}
          /\ Once(Append(Rest(pool), h))
      BY <1>2, <2>1, AppendElements
    <2>3. Elements(pool') = Elements(Rest(pool)) \cup {h}
      BY <2>1, <2>2
    <2> QED
      BY <1>2, <2>1, <2>2, <2>3
  <1>4. /\ wpc' = [wpc EXCEPT ![h] = "top"]
        /\ UNCHANGED <<poolSem, cpc, target, slot, delivery, signalled>>
    BY DEF StartThread, clientVars, shutdownVars
  <1>5. PoolLock' /\ Targets' /\ PoolOnce' /\ \A d \in Clients : cpc'[d] # "failed"
    BY <1>3, <1>4 DEF HandOver, PoolLock, Targets, PoolOnce
  <1>6. \A v \in Workers : Idle(v)' <=> Idle(v)
    BY <1>3, <1>4 DEF Idle
  <1>7. ASSUME NEW v \in Workers PROVE WorkerOK(v)'
    <2>1. CASE v = h
      <3>1. Idle(h)
        BY <1>2 DEF Idle
      <3>2. slot[h] = NoTask /\ (signalled[h] \/ delivery[h] = OwnedBy(Creator))
        BY <1>1, <1>2, <3>1 DEF HandOver, WorkerOK, IdleReady
      <3>3. /\ slot'[h] = NoTask /\ wpc'[h] = "top"
            /\ signalled'[h] \/ delivery'[h] = OwnedBy(Creator)
        BY <1>2, <1>4, <3>2
      <3> QED
        BY <2>1, <3>3 DEF WorkerOK, DeliveryOwner, IdleReady, WorkerHolds
    <2>2. CASE v # h
      BY <1>2, <1>4, <1>6, <2>2 DEF HandOver, WorkerOK, DeliveryOwner, IdleReady, WorkerHolds
    <2> QED
      BY <2>1, <2>2
  <1> QED
    BY <1>5, <1>7 DEF HandOver

\* So is a worker added for an offer, which was neither pooled nor a target.
LEMMA AddThreadHandOver ==
  ASSUME TypeInv, HandOver, NEW c \in Clients, NEW w \in ExtraWorkers, AddThread(c, w)
  PROVE  HandOver'
  <1> USE ThreadKinds DEF TypeInv, TypeOK
  <1>1. poolSem' = OwnedBy(c) /\ \A d \in Clients : cpc[d] \notin HoldsPool
    <2>1. PoolLock /\ cpc[c] \notin HoldsPool /\ CanEnter(poolSem, c) /\ poolSem' = Enter(poolSem, c)
      BY DEF AddThread, HandOver, HoldsPool
    <2> QED
      BY <2>1, PoolEntered
  <1>2. /\ pool = <<>> /\ wpc[w] = "absent" /\ w \in Workers
        /\ wpc' = [wpc EXCEPT ![w] = "top"]
        /\ target' = [target EXCEPT ![c] = w]
        /\ cpc' = [cpc EXCEPT ![c] = "offer"]
        /\ UNCHANGED <<pool, slot, delivery, signalled>>
    BY DEF AddThread, shutdownVars
  <1>3. Elements(pool) = {}
    BY <1>2 DEF Elements
  <1>4. PoolLock' /\ Targets' /\ PoolOnce' /\ \A d \in Clients : cpc'[d] # "failed"
    BY <1>1, <1>2, <1>3 DEF HandOver, PoolLock, Targets, PoolOnce, HoldsPool, Elements
  <1>5. \A v \in Workers : Idle(v)' => Idle(v) \/ v = w
    BY <1>2 DEF Idle
  <1>6. ASSUME NEW v \in Workers PROVE WorkerOK(v)'
    <2>1. CASE v = w
      <3>1. slot[w] = NoTask /\ (signalled[w] \/ delivery[w] = OwnedBy(Creator))
        BY <1>2, SectionAssumption DEF HandOver, WorkerOK, DeliveryOwner, WorkerHolds
      <3> QED
        BY <1>2, <2>1, <3>1 DEF WorkerOK, DeliveryOwner, IdleReady, WorkerHolds
    <2>2. CASE v # w
      BY <1>2, <1>5, <2>2 DEF HandOver, WorkerOK, DeliveryOwner, IdleReady, WorkerHolds
    <2> QED
      BY <2>1, <2>2
  <1> QED
    BY <1>4, <1>6 DEF HandOver

\* An offer finds an idle worker, is accepted, and frees the worker's lock or
\* leaves it to the worker.
LEMMA OfferHandOver ==
  ASSUME TypeInv, HandOver, NEW c \in Clients, Offer(c)
  PROVE  HandOver'
  <1> USE ThreadKinds DEF TypeInv, TypeOK
  <1>0. PICK w \in Workers : target[c] = w
    BY DEF Offer, TasksKnown
  <1>1. cpc[c] = "offer" /\ target[c] = w /\ Idle(w) /\ PoolLock /\ Targets /\ PoolOnce
    BY <1>0 DEF Offer, Idle, HandOver
  <1>2. slot[w] = NoTask /\ WorkerOK(w)
    BY <1>1 DEF HandOver, WorkerOK, IdleReady
  <1>3. PICK d \in Leave(delivery[w]) : delivery' = [delivery EXCEPT ![w] = d]
    BY <1>1, <1>2 DEF Offer, HasTask, Deliver
  <1>4. /\ slot' = [slot EXCEPT ![w] = hand[c]]
        /\ poolSem' \in Leave(poolSem)
        /\ cpc' = [cpc EXCEPT ![c] = "idle"]
        /\ target' = [target EXCEPT ![c] = NoWorker]
        /\ UNCHANGED <<pool, wpc, signalled>>
    BY <1>1, <1>2 DEF Offer, HasTask, shutdownVars
  <1>5. poolSem' = Free /\ \A e \in Clients : cpc[e] \in HoldsPool => e = c
    BY <1>1, <1>4, PoolHeld DEF HoldsPool
  <1>6. PoolLock' /\ Targets' /\ PoolOnce' /\ \A e \in Clients : cpc'[e] # "failed"
    <2>1. PoolLock' /\ Targets'
      BY <1>1, <1>4, <1>5 DEF PoolLock, Targets, HoldsPool
    <2>2. NoWorker \notin Elements(pool)
      BY DEF Elements
    <2> QED
      BY <1>1, <1>4, <2>1, <2>2 DEF HandOver, PoolOnce
  <1>7. \A v \in Workers : (Idle(v)' => Idle(v)) /\ ~Idle(w)'
    <2>1. \A e \in Clients : target[e] = w => e = c
      BY <1>1, <1>5 DEF Targets, HoldsPool
    <2>2. w \notin Elements(pool)
      BY <1>1 DEF PoolOnce
    <2> QED
      BY <1>1, <1>4, <2>1, <2>2 DEF Idle
  <1>8. ASSUME NEW v \in Workers PROVE WorkerOK(v)'
    <2>1. CASE v = w
      <3>1. delivery[w] \in Section(Workers \cup {Creator}) /\ wpc'[w] = wpc[w] /\ delivery'[w] = d
        BY <1>1, <1>3, <1>4
      <3>2. CASE delivery[w] = OwnedBy(Creator) /\ wpc[w] \in {"new", "top", "wait"}
        <4>1. d = Free
          BY <3>2, FreeEnter
        <4> QED
          BY <1>7, <2>1, <3>1, <3>2, <4>1 DEF WorkerOK, DeliveryOwner, IdleReady, WorkerHolds
      <3>3. CASE /\ wpc[w] \in {"top", "wait", "poll"}
                 /\ delivery[w].owner = w /\ delivery[w].depth >= 2
        <4>1. delivery[w].depth >= 1
          BY <3>1, <3>3 DEF Section
        <4>2. d.owner = w /\ d.depth >= 1
          BY <3>1, <3>3, <4>1, OwnedLeave
        <4> QED
          BY <1>7, <2>1, <3>1, <3>3, <4>2 DEF WorkerOK, DeliveryOwner, IdleReady, WorkerHolds
      <3>4. CASE wpc[w] = "relock" /\ delivery[w].owner = w /\ delivery[w].depth >= 1
        <4>1. d = Free \/ (d.owner = w /\ d.depth >= 1)
          BY <3>1, <3>4, OwnedLeave
        <4> QED
          BY <1>7, <2>1, <3>1, <3>4, <4>1 DEF WorkerOK, DeliveryOwner, IdleReady, WorkerHolds
      <3>5. CASE signalled[w]
        <4>1. wpc[w] \in {"new", "top", "wait", "poll", "relock", "exiting", "leaving", "exited"}
          BY <1>1, <1>2 DEF WorkerOK, IdleReady
        <4> QED
          BY <1>4, <1>7, <2>1, <3>1, <3>5, <4>1 DEF WorkerOK, DeliveryOwner, IdleReady, WorkerHolds
      <3> QED
        BY <1>1, <1>2, <3>2, <3>3, <3>4, <3>5 DEF WorkerOK, IdleReady
    <2>2. CASE v # w
      BY <1>1, <1>3, <1>4, <1>7, <2>2 DEF HandOver, WorkerOK, DeliveryOwner, IdleReady, WorkerHolds
    <2> QED
      BY <2>1, <2>2
  <1> QED
    BY <1>6, <1>8 DEF HandOver

\* Inside its RunQueue a worker moves between the points where it may be idle,
\* and holds deliveryLock from the wake-up on.
LEMMA WorkerHandOver ==
  ASSUME TypeInv, HandOver, NEW w \in Workers,
         Top(w) \/ Wake(w) \/ Poll(w) \/ Run(w) \/ Completed(w) \/ TakeQueued(w)
           \/ Reoffer(w) \/ UnlockAgain(w) \/ NothingQueued(w) \/ Relock(w) \/ Exit(w) \/ Cleanup(w)
  PROVE  HandOver'
  <1> USE DEF Goto, clientVars, poolVars, shutdownVars
  <1>1. /\ delivery[w] \in Section(Workers \cup {Creator}) /\ WorkerOK(w)
        /\ wpc \in [Workers -> WorkerPoints] /\ slot \in [Workers -> Tasks \cup {NoTask}]
        /\ delivery \in [Workers -> Section(Workers \cup {Creator})]
    BY DEF TypeInv, TypeOK, HandOver
  <1>2. UNCHANGED <<pool, poolSem, cpc, target, signalled>> /\ (Idle(w)' <=> Idle(w))
    BY DEF Top, Wake, Poll, Run, Completed, TakeQueued, Reoffer, UnlockAgain,
           NothingQueued, Relock, Exit, Cleanup, Idle
  <1>3. CASE Top(w) \/ Poll(w) \/ Completed(w) \/ TakeQueued(w) \/ UnlockAgain(w)
              \/ NothingQueued(w) \/ Exit(w) \/ Cleanup(w)
    <2>1. /\ UNCHANGED <<slot, delivery>> /\ wpc' = [wpc EXCEPT ![w] = wpc'[w]]
          /\ \/ wpc[w] = "top" /\ wpc'[w] = "wait"
             \/ wpc[w] = "top" /\ wpc'[w] = "exiting" /\ signalled[w]
             \/ wpc[w] = "poll" /\ wpc'[w] = "relock"
             \/ wpc[w] = "poll" /\ wpc'[w] = "run" /\ slot[w] # NoTask
             \/ wpc[w] = "completed" /\ wpc'[w] = "check"
             \/ wpc[w] = "check" /\ wpc'[w] \in {"reoffer", "return"}
             \/ wpc[w] = "unlockAgain" /\ wpc'[w] = "relock"
             \/ wpc[w] = "exiting" /\ wpc'[w] = "leaving"
             \/ wpc[w] = "leaving" /\ wpc'[w] = "exited"
      BY <1>1, <1>3 DEF Top, Poll, Completed, TakeQueued, UnlockAgain, NothingQueued, Exit,
                        Cleanup, HasTask
    <2>2. WorkerOK(w)'
      BY <1>1, <1>2, <2>1 DEF WorkerOK, DeliveryOwner, IdleReady, WorkerHolds
    <2>3. \A v \in Workers \ {w} :
            slot'[v] = slot[v] /\ delivery'[v] = delivery[v] /\ wpc'[v] = wpc[v]
      BY <1>1, <2>1
    <2> QED
      BY <1>2, <2>2, <2>3, OwnStep
  <1>4. CASE Wake(w) \/ Relock(w)
    <2>1. /\ CanEnter(delivery[w], w) /\ UNCHANGED slot
          /\ delivery' = [delivery EXCEPT ![w] = Enter(@, w)]
          /\ wpc' = [wpc EXCEPT ![w] = wpc'[w]]
          /\ \/ wpc[w] = "wait" /\ wpc'[w] = "poll"
             \/ wpc[w] = "relock" /\ wpc'[w] = "top"
      BY <1>1, <1>4 DEF Wake, Relock
    <2>2. /\ delivery'[w].owner = w /\ delivery'[w].depth >= 1
          /\ delivery[w].depth >= 1 => delivery'[w].depth >= 2
      BY <1>1, <2>1, OwnedEnter
    <2>3. delivery[w] # OwnedBy(Creator)
      BY <2>1, PoolAssumption DEF CanEnter, OwnedBy, Threads
    <2>4. Idle(w) => signalled[w] \/ delivery[w].depth >= 1
      BY <1>1, <2>1, <2>3 DEF WorkerOK, IdleReady, Section
    <2>5. wpc'[w] \in {"poll", "top"}
      BY <2>1
    <2>6. WorkerOK(w)'
      <3>1. DeliveryOwner(w)'
        BY <2>2, <2>5 DEF DeliveryOwner
      <3>2. IdleReady(w)'
        BY <1>1, <1>2, <2>1, <2>2, <2>4, <2>5 DEF IdleReady, WorkerOK
      <3>3. WorkerHolds(w)'
        BY <2>2, <2>5 DEF WorkerHolds
      <3> QED
        BY <3>1, <3>2, <3>3 DEF WorkerOK
    <2>7. \A v \in Workers \ {w} :
            slot'[v] = slot[v] /\ delivery'[v] = delivery[v] /\ wpc'[v] = wpc[v]
      BY <1>1, <2>1
    <2> QED
      BY <1>2, <2>6, <2>7, OwnStep
  <1>5. CASE Run(w)
    <2>1. /\ wpc[w] = "run" /\ slot' = [slot EXCEPT ![w] = NoTask] /\ UNCHANGED delivery
          /\ wpc' = [wpc EXCEPT ![w] = wpc'[w]] /\ wpc'[w] \in {"completed", "relock"}
      BY <1>1, <1>5 DEF Run, Cleared
    <2>2. slot'[w] = NoTask
      BY <1>1, <2>1
    <2>3. ~Idle(w)
      BY <1>1, <2>1 DEF WorkerOK, IdleReady
    <2>4. WorkerOK(w)'
      BY <1>1, <1>2, <2>1, <2>2, <2>3 DEF WorkerOK, DeliveryOwner, IdleReady, WorkerHolds
    <2>5. \A v \in Workers \ {w} :
            slot'[v] = slot[v] /\ delivery'[v] = delivery[v] /\ wpc'[v] = wpc[v]
      BY <1>1, <2>1
    <2> QED
      BY <1>2, <2>4, <2>5, OwnStep
  <1>6. CASE Reoffer(w)
    <2>1. /\ wpc[w] = "reoffer" /\ slot[w] = NoTask /\ ~Idle(w)
          /\ signalled[w] \/ (delivery[w].owner = w /\ delivery[w].depth >= 1)
      BY <1>1, <1>6 DEF Reoffer, WorkerOK, WorkerHolds, IdleReady
    <2>2. PICK d \in Leave(delivery[w]) : delivery' = [delivery EXCEPT ![w] = d]
      BY <1>6, <2>1 DEF Reoffer, HasTask, Deliver
    <2>3. /\ slot' = [slot EXCEPT ![w] = hand[w]]
          /\ wpc' = [wpc EXCEPT ![w] = "unlockAgain"]
      BY <1>6, <2>1 DEF Reoffer, HasTask
    <2>4. signalled[w] \/ d = Free \/ (d.owner = w /\ d.depth >= 1)
      BY <1>1, <2>1, OwnedLeave
    <2>5. delivery'[w] = d /\ wpc'[w] = "unlockAgain"
      BY <1>1, <2>2, <2>3
    <2>6. WorkerOK(w)'
      BY <1>2, <2>1, <2>4, <2>5 DEF WorkerOK, DeliveryOwner, IdleReady, WorkerHolds
    <2> QED
      BY <1>2, <2>2, <2>3, <2>6, OwnStep
  <1> QED
    BY <1>3, <1>4, <1>5, <1>6

\* A worker that returns to the pool is neither there nor a client's target.
LEMMA ReturnHandOver ==
  ASSUME TypeInv, HandOver, NEW w \in Workers, ReturnToPool(w)
  PROVE  HandOver'
  <1> USE DEF TypeInv, TypeOK
  <1>1. /\ PoolLock /\ Targets /\ PoolOnce /\ WorkerOK(w)
        /\ wpc[w] = "return" /\ CanEnter(poolSem, w)
    BY DEF HandOver, ReturnToPool
  <1>2. poolSem' = poolSem
    BY <1>1, PoolVisited DEF ReturnToPool
  <1>3. /\ pool' = Append(pool, w) /\ wpc' = [wpc EXCEPT ![w] = "relock"]
        /\ UNCHANGED <<cpc, target, slot, delivery, signalled>>
    BY DEF ReturnToPool, Goto, clientVars, shutdownVars
  <1>4. /\ ~Idle(w) /\ slot[w] = NoTask
        /\ signalled[w] \/ (delivery[w].owner = w /\ delivery[w].depth >= 1)
    BY <1>1 DEF WorkerOK, IdleReady, WorkerHolds
  <1>5. Elements(pool') = Elements(pool) \cup {w} /\ Once(pool')
    <2>1. Once(pool) /\ w \notin Elements(pool)
      BY <1>1, <1>4 DEF PoolOnce, Idle
    <2>2. /\ Elements(Append(pool, w)) = Elements(pool) \cup {w}
          /\ Once(Append(pool, w))
      BY <2>1, AppendElements
    <2> QED
      BY <1>3, <2>2
  <1>6. PoolLock' /\ Targets' /\ PoolOnce' /\ \A c \in Clients : cpc'[c] # "failed"
    BY <1>1, <1>2, <1>3, <1>4, <1>5 DEF HandOver, PoolLock, Targets, PoolOnce, Idle
  <1>7. \A v \in Workers : Idle(v)' => Idle(v) \/ v = w
    BY <1>3, <1>5 DEF Idle
  <1>8. ASSUME NEW v \in Workers PROVE WorkerOK(v)'
    <2>1. CASE v = w
      BY <1>3, <1>4, <2>1 DEF WorkerOK, DeliveryOwner, IdleReady, WorkerHolds
    <2>2. CASE v # w
      BY <1>3, <1>7, <2>2 DEF HandOver, WorkerOK, DeliveryOwner, IdleReady, WorkerHolds
    <2> QED
      BY <2>1, <2>2
  <1> QED
    BY <1>6, <1>8 DEF HandOver

\* A signal may spoil the deliveryLock of the thread that is signalled, and
\* touches nothing else.
LEMMA CollectorHandOver ==
  ASSUME TypeInv, HandOver, BeginShutdown \/ CollectorStep
  PROVE  HandOver'
  <1>1. UNCHANGED <<pool, poolSem, cpc, target, slot, wpc>>
    BY DEF BeginShutdown, CollectorStep, Signal, PickThread, Waitfor, EndSignalling, Joined,
           poolVars, clientVars
  <1>2. \A v \in Workers : (signalled[v] => signalled'[v]) /\ (signalled'[v] \/ delivery'[v] = delivery[v])
    <2>1. CASE BeginShutdown \/ EndSignalling \/ Joined \/ \E x \in Threads : PickThread(x) \/ Waitfor(x)
      BY <2>1 DEF BeginShutdown, EndSignalling, Joined, PickThread, Waitfor
    <2>2. ASSUME NEW x \in Threads, Signal(x)
          PROVE  \A v \in Workers : (signalled[v] => signalled'[v]) /\ (signalled'[v] \/ delivery'[v] = delivery[v])
      BY <2>2, ThreadKinds DEF Signal, Deliver, TypeInv, TypeOK
    <2> QED
      BY <2>1, <2>2 DEF CollectorStep
  <1>3. PoolLock' /\ Targets' /\ PoolOnce' /\ \A c \in Clients : cpc'[c] # "failed"
    BY <1>1 DEF HandOver, PoolLock, Targets, PoolOnce
  <1>4. \A v \in Workers : Idle(v)' <=> Idle(v)
    BY <1>1 DEF Idle
  <1>5. ASSUME NEW v \in Workers PROVE WorkerOK(v)'
    BY <1>1, <1>2, <1>4 DEF HandOver, WorkerOK, DeliveryOwner, IdleReady, WorkerHolds
  <1> QED
    BY <1>3, <1>5 DEF HandOver

LEMMA HandOverStep == TypeInv /\ HandOver /\ [Next]_vars => HandOver'
  <1> SUFFICES ASSUME TypeInv, HandOver, [Next]_vars PROVE HandOver'
    OBVIOUS
  <1>1. ASSUME NEW c \in Clients, Start(c) \/ (\E t \in Tasks : Execute(c, t)) \/ ClientStep(c)
        PROVE  HandOver'
    BY <1>1, ClientHandOver, StartThreadHandOver, AddThreadHandOver, OfferHandOver DEF ClientStep
  <1>2. ASSUME NEW w \in Workers, WorkerStep(w) PROVE HandOver'
    BY <1>2, WorkerHandOver, ReturnHandOver DEF WorkerStep
  <1>3. CASE UNCHANGED vars
    BY <1>3 DEF vars, poolVars, clientVars, shutdownVars, HandOver, PoolLock, Targets, PoolOnce, WorkerOK,
                DeliveryOwner, IdleReady, WorkerHolds, Idle
  <1> QED
    BY <1>1, <1>2, <1>3, CollectorHandOver DEF Next

LEMMA HandOverHolds == Spec => [](TypeInv /\ HandOver)
  <1>1. Init => TypeInv /\ HandOver
    BY TypeInit, HandOverInit
  <1>2. (TypeInv /\ HandOver) /\ [Next]_vars => (TypeInv /\ HandOver)'
    BY TypeStep, HandOverStep
  <1> QED
    BY <1>1, <1>2, PTL DEF Spec

-----------------------------------------------------------------------------
(* What the hand-over guarantees *)

\* ThreadTakenOnce: however many clients call execute, also during a shutdown, no
\* thread is handed to two of them, and none is in the pool twice.
THEOREM NoThreadTwice == Spec => []ThreadTakenOnce
  <1>1. TypeInv /\ HandOver => ThreadTakenOnce
    <2> SUFFICES ASSUME TypeInv, HandOver PROVE ThreadTakenOnce
      OBVIOUS
    <2>1. \A c \in Clients : \A i \in DOMAIN pool : pool[i] # target[c]
      BY DEF HandOver, PoolOnce, Elements
    <2>2. ASSUME NEW c \in Clients, NEW d \in Clients, target[c] = target[d], target[c] # NoWorker
          PROVE  c = d
      <3>1. cpc[c] \in HoldsPool /\ cpc[d] \in HoldsPool
        BY <2>2 DEF HandOver, Targets, HoldsPool
      <3> QED
        BY <3>1, PoolHeld DEF HandOver
    <2> QED
      BY <2>1, <2>2 DEF ThreadTakenOnce, HandOver, PoolOnce, Once
  <1> QED
    BY <1>1, HandOverHolds, PTL

\* IdleThreadIsReady: an idle thread can take an offer.  The unlock of its
\* deliveryLock is not one too many, even when it came back before its loop locked
\* it again, unless a signal unlocked it.
THEOREM IdleThreadsReady == Spec => []IdleThreadIsReady
  <1>1. TypeInv /\ HandOver => IdleThreadIsReady
    <2> SUFFICES ASSUME TypeInv, HandOver, NEW w \in Workers, Idle(w)
                 PROVE  slot[w] = NoTask /\ (signalled[w] \/ delivery[w].depth >= 1)
      BY DEF IdleThreadIsReady, Idle, Elements
    <2>1. /\ slot[w] = NoTask /\ delivery[w] \in Section(Workers \cup {Creator})
          /\ \/ signalled[w] \/ delivery[w] = OwnedBy(Creator)
             \/ delivery[w].depth >= 2 \/ delivery[w].depth >= 1
      BY DEF HandOver, WorkerOK, IdleReady, TypeInv, TypeOK
    <2> QED
      BY <2>1 DEF OwnedBy, Section
  <1> QED
    BY <1>1, HandOverHolds, PTL

\* NoRefusedOffer: RunQueue::offer accepts every task it is offered, to the very
\* end of the program.
THEOREM OffersAccepted == Spec => []NoRefusedOffer
  <1>1. TypeInv /\ HandOver => NoRefusedOffer
    BY DEF NoRefusedOffer, HandOver, WorkerOK, WorkerHolds
  <1> QED
    BY <1>1, HandOverHolds, PTL

\* NoLostWakeup: a worker with a task is not locked out by its own deliveryLock
\* before it is signalled.
THEOREM WakeupsKept == Spec => []NoLostWakeup
  <1>1. TypeInv /\ HandOver => NoLostWakeup
    BY DEF NoLostWakeup, CanEnter, Free, HandOver, WorkerOK, DeliveryOwner
  <1> QED
    BY <1>1, HandOverHolds, PTL

=============================================================================
