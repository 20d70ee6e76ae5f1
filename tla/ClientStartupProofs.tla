-------------------------- MODULE ClientStartupProofs --------------------------
(***************************************************************************)
(* Theorems about ClientStartup, however deep a section is counted.        *)
(*                                                                         *)
(* No argument is about who holds the section of the future: it may be     *)
(* anybody's.  They are about the order in which two threads run the same  *)
(* stopClient, and what each has read of the other before.                 *)
(***************************************************************************)
EXTENDS ClientStartup, TLAPS

-----------------------------------------------------------------------------
(* The inductive invariant *)

\* Where the dispatcher is before it forgets itself, and where it tells that the
\* start has failed.
Attached == {"pool", "completed", "loop", "turn", "tell", "unregister", "destroyPeer", "clearPeer", "forgetThread"}
Telling  == {"enter", "code", "complete", "leave"}

\* Where main is before the dispatcher runs, where it waits for the answer or
\* plays, and where it ends.
Preparing == {"out", "startThread"}
Waiting   == {"lock", "test", "turn", "unlock", "code"}
Started   == {"addParticipant", "playing", "kill", "signal", "waitfor", "join"} \cup Waiting \cup StopPoints
Ending    == {"destroy", "collect", "closed"}

\* The dispatcher runs once, after main has prepared everything.
ThreadOrder ==
  /\ at["main"] \in Preparing => at["dispatcher"] = "none" /\ ~future.complete /\ future.code = "OK"
  /\ at["main"] = "startThread" => client.thread /\ client.game /\ client.player = "new"
  /\ at["main"] = "setPlayer" => at["dispatcher"] # "none" /\ client.player # "known"
  /\ at["dispatcher"] = "none" /\ at["main"] \in Started => at["main"] \in Waiting /\ future.code = "ERROR"

\* The future is complete when the start has ended, and then the code says how.
FutureTold ==
  /\ future.complete => at["dispatcher"] \notin {"pool", "completed"}
  /\ at["dispatcher"] \in {"none", "pool", "completed"} => ~failed
  /\ failed /\ future.complete => future.code = "ERROR"
  /\ at["dispatcher"] = "complete" => future.code = "ERROR"
  /\ future.code = "ERROR" => client = Cleared
  /\ at["main"] \in {"unlock", "code"} => future.complete
  /\ answer = "ERROR" => future.code = "ERROR"
  /\ answer = "OK" => ~failed /\ future.complete /\ at["dispatcher"] # "none"

\* What the dispatcher's stopClient has cleared so far stays cleared.
DispatcherCleared ==
  LET d == at["dispatcher"] IN
  /\ d \in {"destroyPeer", "clearPeer", "forgetThread", "forgetPlayer"} \cup Telling => ~client.game
  /\ d = "clearPeer" => client.peer # "live"
  /\ d \in {"forgetThread", "forgetPlayer"} \cup Telling => client.peer = "none"
  /\ d \in {"forgetPlayer"} \cup Telling => ~client.thread
  /\ d \in Telling => client.player = "none"

\* Main stops the client only when the dispatcher is joined or has forgotten
\* itself, which is after it is done with the peer and the pool, and so it ends.
StopsApart ==
  /\ at["main"] \in StopPoints \cup Ending \/ ~client.thread => at["dispatcher"] \notin Attached
  /\ client.player = "none" \/ at["main"] = "forgetPlayer" => ~client.thread
  /\ client.peer = "destroyed" => at["main"] = "clearPeer" \/ at["dispatcher"] = "clearPeer"

\* Whoever has no thread any more, and main after its own request, has no game
\* to delete.
GameForgotten ==
  /\ at["main"] \notin Preparing /\ ~client.thread => ~client.game
  /\ at["main"] \in StopPoints \ {"unregister"} => ~client.game

Excused == early \/ refused

\* A registered game is still known as our own, until main may end.
StillOurs ==
  /\ at["dispatcher"] = "none" /\ at["main"] \in {"out"} \cup Waiting => ~registered
  /\ at["main"] = "setPlayer" /\ registered => client.game \/ Excused
  /\ at["main"] \in Started /\ registered => (client.game /\ client.player = "known") \/ Excused
  /\ answer = "OK" /\ at["main"] \in Ending => ~registered \/ Excused

Order ==
  /\ ThreadOrder /\ FutureTold
  /\ DispatcherCleared /\ StopsApart /\ GameForgotten /\ StillOurs
  /\ WorkersAreSignalled

IInv == TypeOK /\ Order

-----------------------------------------------------------------------------
(* Lemmas about the steps of stopClient *)

\* stopClient, point by point.
LEMMA StopPath ==
  ASSUME NEW t \in Threads
  PROVE  /\ NextPoint(t, "unregister") = "destroyPeer"
         /\ NextPoint(t, "destroyPeer") = "clearPeer"
         /\ NextPoint(t, "clearPeer") = "forgetThread"
         /\ NextPoint(t, "forgetThread") = "forgetPlayer"
         /\ NextPoint(t, "forgetPlayer") = AfterStop(t)
  <1>1. /\ DOMAIN StopOrder = 1 .. 5 /\ Len(StopOrder) = 5
        /\ StopOrder[1] = "unregister" /\ StopOrder[2] = "destroyPeer" /\ StopOrder[3] = "clearPeer"
        /\ StopOrder[4] = "forgetThread" /\ StopOrder[5] = "forgetPlayer"
    BY DEF StopOrder
  <1>2. \A i, j \in 1 .. 5 : StopOrder[i] = StopOrder[j] => i = j
    BY <1>1
  <1>3. ASSUME NEW i \in 1 .. 5
        PROVE  (CHOOSE j \in DOMAIN StopOrder : StopOrder[j] = StopOrder[i]) = i
    BY <1>1, <1>2
  <1>4. ASSUME NEW i \in 1 .. 5
        PROVE  NextPoint(t, StopOrder[i]) = IF i = 5 THEN AfterStop(t) ELSE StopOrder[i + 1]
    BY <1>1, <1>3 DEF NextPoint
  <1> QED
    BY <1>1, <1>4

\* The points of stopClient, as a set.
LEMMA StopSet ==
  /\ StopOrder[1] = "unregister"
  /\ StopPoints = {"unregister", "destroyPeer", "clearPeer", "forgetThread", "forgetPlayer"}
  BY DEF StopPoints, StopOrder

\* The two steps of a start that failed.
LEMMA FailureSteps ==
  /\ DOMAIN FailureOrder = {1, 2}
  /\ FailureOrder[1] = "code" /\ FailureOrder[2] = "complete"
  BY DEF FailureOrder

\* The client is cleared when each of its fields is.
Fields == [thread : BOOLEAN, peer : {"none", "live", "destroyed"},
           player : {"none", "new", "known"}, game : BOOLEAN]

LEMMA ClearedFields ==
  ASSUME NEW c \in Fields
  PROVE  c = Cleared <=> ~c.thread /\ ~c.game /\ c.peer = "none" /\ c.player = "none"
  BY DEF Fields, Cleared

\* Unregistering takes the game from the client and leaves its other fields.
LEMMA UnregisteredFields ==
  ASSUME client \in Fields, NEW t \in Threads, Unregister(t)
  PROVE  /\ client' \in Fields /\ client'.game = FALSE
         /\ client'.thread = client.thread /\ client'.peer = client.peer /\ client'.player = client.player
  <1>1. client' = [client EXCEPT !.game = FALSE]
    BY DEF Unregister
  <1> QED
    BY <1>1 DEF Fields

\* Entering and leaving the future's section yields a section.
LEMMA FutureSection ==
  ASSUME NEW cs \in Section(Threads), NEW t \in Threads
  PROVE  /\ Enter(cs, t) \in Section(Threads)
         /\ Leave(cs) \subseteq Section(Threads)
  <1>1. Enter(cs, t) \in Section(Threads)
    BY SectionAssumption DEF Section, Enter
  <1>2. ASSUME NEW d \in Leave(cs) PROVE d \in Section(Threads)
    <2>1. CASE cs.depth > 1
      BY <2>1, SectionAssumption DEF Section, Leave
    <2>2. CASE cs.depth = 1
      BY <2>2, SectionAssumption DEF Section, Leave, Free
    <2>3. CASE ~(cs.depth > 1) /\ cs.depth # 1
      BY <2>3, SectionAssumption DEF Section, Leave
    <2> QED
      BY <2>1, <2>2, <2>3
  <1> QED
    BY <1>1, <1>2

-----------------------------------------------------------------------------
(* The types are kept *)

\* Every step keeps the types.
LEMMA TypeStep == TypeOK /\ [Next]_vars => TypeOK'
  <1> SUFFICES ASSUME TypeOK, [Next]_vars PROVE TypeOK'
    OBVIOUS
  <1> USE StopSet, FailureSteps, FutureSection DEF TypeOK, Kinds, Goto, Threads, MainPoints, DispatcherPoints
  <1>1. CASE StartFails
    <2>1. Free \in Section(Threads)
      BY SectionAssumption DEF Section, Free
    <2> QED
      BY <1>1, <2>1 DEF StartFails, Cleared
  <1>2. CASE StartPeer
    BY <1>2 DEF StartPeer
  <1>3. CASE StartThread
    BY <1>3 DEF StartThread
  <1>4. CASE SetPlayer
    BY <1>4 DEF SetPlayer, WithGuid
  <1>5. CASE AddParticipant
    BY <1>5 DEF AddParticipant
  <1>6. CASE Lock
    BY <1>6 DEF Lock
  <1>7. CASE TestComplete
    BY <1>7 DEF TestComplete
  <1>8. CASE Unlock
    BY <1>8 DEF Unlock
  <1>9. CASE ReturnCode
    BY <1>9 DEF ReturnCode
  <1>10. CASE Quit
    BY <1>10 DEF Quit
  <1>11. CASE TestThread
    BY <1>11 DEF TestThread
  <1>12. CASE Signal
    BY <1>12 DEF Signal
  <1>13. CASE WaitFor
    BY <1>13 DEF WaitFor
  <1>14. CASE Join
    BY <1>14 DEF Join
  <1>15. CASE SignalAll
    BY <1>15 DEF SignalAll
  <1>16. CASE Collect
    BY <1>16 DEF Collect
  <1>17. CASE StartPool
    <2>1. failed' \in BOOLEAN /\ workers' \subseteq Kinds
      BY <1>17 DEF StartPool
    <2> QED
      BY <1>17, <2>1 DEF StartPool, DispatcherStops
  <1>18. CASE Complete
    BY <1>18 DEF Complete
  <1>19. CASE EnterFuture
    BY <1>19 DEF EnterFuture
  <1>20. CASE FailFuture
    <2>1. /\ at' \in [Threads -> MainPoints \cup DispatcherPoints]
          /\ at'["main"] \in MainPoints /\ at'["dispatcher"] \in DispatcherPoints
      BY <1>20 DEF FailFuture
    <2>2. future' \in [section : Section(Threads), complete : BOOLEAN, code : {"OK", "ERROR"}]
      BY <1>20 DEF FailFuture
    <2> QED
      BY <1>20, <2>1, <2>2 DEF FailFuture
  <1>21. CASE LeaveFuture
    BY <1>21 DEF LeaveFuture
  <1>22. CASE LeaveLoop
    BY <1>22 DEF LeaveLoop
  <1>23. CASE TakeTurn \/ TurnEnds
    <2>1. CASE TakeTurn
      BY <2>1 DEF TakeTurn
    <2>2. CASE TurnEnds
      BY <2>2 DEF TurnEnds, DispatcherStops
    <2> QED
      BY <1>23, <2>1, <2>2
  <1>24. CASE CleanUp
    BY <1>24 DEF CleanUp
  <1>25. ASSUME NEW t \in Threads, StopClient(t) PROVE TypeOK'
    <2> USE StopPath DEF Step
    <2>1. CASE Unregister(t)
      <3>1. at' \in [Threads -> MainPoints \cup DispatcherPoints]
        BY <2>1 DEF Unregister
      <3>2. at'["main"] \in MainPoints /\ at'["dispatcher"] \in DispatcherPoints
        BY <2>1 DEF Unregister
      <3>3. client' \in [thread : BOOLEAN, peer : {"none", "live", "destroyed"},
                        player : {"none", "new", "known"}, game : BOOLEAN]
        BY <2>1 DEF Unregister
      <3> QED
        BY <2>1, <3>1, <3>2, <3>3 DEF Unregister
    <2>2. CASE UnregisterFails(t)
      BY <2>2 DEF UnregisterFails
    <2>3. CASE DestroyPeer(t)
      BY <2>3 DEF DestroyPeer
    <2>4. CASE Forget(t)
      <3>1. /\ at' \in [Threads -> MainPoints \cup DispatcherPoints]
            /\ at'["main"] \in MainPoints /\ at'["dispatcher"] \in DispatcherPoints
        BY <2>4 DEF Forget, AfterStop
      <3>2. client' \in [thread : BOOLEAN, peer : {"none", "live", "destroyed"},
                        player : {"none", "new", "known"}, game : BOOLEAN]
        BY <2>4 DEF Forget
      <3> QED
        BY <2>4, <3>1, <3>2 DEF Forget
    <2> QED
      BY <1>25, <2>1, <2>2, <2>3, <2>4 DEF StopClient
  <1>26. CASE Execute \/ WorkersLeave
    BY <1>26 DEF Execute, WorkersLeave
  <1>27. CASE UNCHANGED vars
    BY <1>27 DEF vars
  <1> QED
    BY <1>1, <1>2, <1>3, <1>4, <1>5, <1>6, <1>7, <1>8, <1>9, <1>10, <1>11, <1>12, <1>13, <1>14, <1>15, <1>16, <1>17, <1>18, <1>19, <1>20, <1>21, <1>22, <1>23, <1>24, <1>25, <1>26, <1>27 DEF Next, Main, Dispatcher, Pool

-----------------------------------------------------------------------------
(* The order of the two threads is kept *)

\* startGame and joinGame, up to the wait for the answer.
LEMMA StartKeepsOrder ==
  ASSUME TypeOK, Order, StartFails \/ StartPeer \/ StartThread \/ SetPlayer \/ AddParticipant
  PROVE  Order'
  <1> USE StopSet, FailureSteps DEF Order, ThreadOrder, FutureTold, DispatcherCleared, StopsApart, GameForgotten, StillOurs, WorkersAreSignalled,
         TypeOK, Goto, Threads, MainPoints, DispatcherPoints, Attached, Telling, Preparing, Waiting, Started, Ending, Excused, Cleared
  <1>1. CASE StartFails
    BY <1>1 DEF StartFails
  <1>2. CASE StartPeer
    BY <1>2 DEF StartPeer
  <1>3. CASE StartThread
    BY <1>3 DEF StartThread
  <1>4. CASE SetPlayer
    BY <1>4 DEF SetPlayer, WithGuid
  <1>5. CASE AddParticipant
    BY <1>5 DEF AddParticipant
  <1> QED
    BY <1>1, <1>2, <1>3, <1>4, <1>5

\* waitFor, whose answer the application gets, and the decision to quit.
LEMMA WaitKeepsOrder ==
  ASSUME TypeOK, Order, Lock \/ TestComplete \/ Unlock \/ ReturnCode \/ Quit
  PROVE  Order'
  <1> USE StopSet, FailureSteps DEF Order, ThreadOrder, FutureTold, DispatcherCleared, StopsApart, GameForgotten, StillOurs, WorkersAreSignalled,
         TypeOK, Goto, Threads, MainPoints, DispatcherPoints, Attached, Telling, Preparing, Waiting, Started, Ending, Excused, Cleared
  <1>1. CASE Lock
    BY <1>1 DEF Lock
  <1>2. CASE TestComplete
    BY <1>2 DEF TestComplete
  <1>3. CASE Unlock
    BY <1>3 DEF Unlock
  <1>4. CASE ReturnCode
    BY <1>4 DEF ReturnCode
  <1>5. CASE Quit
    BY <1>5 DEF Quit
  <1> QED
    BY <1>1, <1>2, <1>3, <1>4, <1>5

\* killClient and ROGDestroy, but for stopClient.
LEMMA KillKeepsOrder ==
  ASSUME TypeOK, Order, TestThread \/ Signal \/ WaitFor \/ Join \/ SignalAll \/ Collect
  PROVE  Order'
  <1> USE StopSet, FailureSteps DEF Order, ThreadOrder, FutureTold, DispatcherCleared, StopsApart, GameForgotten, StillOurs, WorkersAreSignalled,
         TypeOK, Goto, Threads, MainPoints, DispatcherPoints, Attached, Telling, Preparing, Waiting, Started, Ending, Excused, Cleared
  <1>1. CASE TestThread
    BY <1>1 DEF TestThread
  <1>2. CASE Signal
    BY <1>2 DEF Signal
  <1>3. CASE WaitFor
    BY <1>3 DEF WaitFor
  <1>4. CASE Join
    BY <1>4 DEF Join, HasId
  <1>5. CASE SignalAll
    BY <1>5 DEF SignalAll, Running
  <1>6. CASE Collect
    BY <1>6 DEF Collect, Running
  <1> QED
    BY <1>1, <1>2, <1>3, <1>4, <1>5, <1>6

\* The dispatcher, but for stopClient, and its pool.
LEMMA DispatcherKeepsOrder ==
  ASSUME TypeOK, Order, StartPool \/ Complete \/ EnterFuture \/ FailFuture \/ LeaveFuture
           \/ LeaveLoop \/ TakeTurn \/ Execute \/ TurnEnds \/ WorkersLeave \/ CleanUp
  PROVE  Order'
  <1> USE StopSet, FailureSteps DEF Order, ThreadOrder, FutureTold, DispatcherCleared, StopsApart, GameForgotten, StillOurs, WorkersAreSignalled,
         TypeOK, Goto, Threads, MainPoints, DispatcherPoints, Attached, Telling, Preparing, Waiting, Started, Ending, Excused, Cleared
  <1>1. CASE StartPool
    BY <1>1 DEF StartPool, DispatcherStops
  <1>2. CASE Complete
    BY <1>2 DEF Complete
  <1>3. CASE EnterFuture
    BY <1>3 DEF EnterFuture
  <1>4. CASE FailFuture
    BY <1>4 DEF FailFuture
  <1>5. CASE LeaveFuture
    BY <1>5 DEF LeaveFuture
  <1>6. CASE LeaveLoop
    BY <1>6 DEF LeaveLoop
  <1>7. CASE TakeTurn
    BY <1>7 DEF TakeTurn
  <1>8. CASE Execute
    BY <1>8 DEF Execute
  <1>9. CASE TurnEnds
    BY <1>9 DEF TurnEnds, DispatcherStops
  <1>10. CASE WorkersLeave
    BY <1>10 DEF WorkersLeave
  <1>11. CASE CleanUp
    BY <1>11 DEF CleanUp
  <1> QED
    BY <1>1, <1>2, <1>3, <1>4, <1>5, <1>6, <1>7, <1>8, <1>9, <1>10, <1>11

\* stopClient, whichever thread runs it.
LEMMA StopKeepsOrder ==
  ASSUME TypeOK, Order, NEW t \in Threads, StopClient(t)
  PROVE  Order'
  <1>0. ASSUME Unregister(t)
        PROVE  client = Cleared => client' = Cleared
    <2>1. client \in Fields
      BY DEF TypeOK, Fields
    <2>2. /\ client' \in Fields /\ client'.game = FALSE
          /\ client'.thread = client.thread /\ client'.peer = client.peer /\ client'.player = client.player
      BY <1>0, <2>1, UnregisteredFields
    <2> QED
      BY <2>1, <2>2, ClearedFields
  <1> USE StopSet, StopPath DEF Order, ThreadOrder, FutureTold, DispatcherCleared, StopsApart, GameForgotten, StillOurs, WorkersAreSignalled,
         TypeOK, Goto, Threads, MainPoints, DispatcherPoints, Attached, Telling, Preparing, Waiting, Started, Ending, Excused, Cleared
  <1>1. CASE Unregister(t)
    <2>1. CASE t = "main"
      <3>1. client = Cleared => client' = Cleared
        BY <1>0, <1>1
      <3>2. ThreadOrder' /\ FutureTold'
        BY <1>1, <2>1, <3>1 DEF Unregister, Step
      <3>3. DispatcherCleared' /\ GameForgotten'
        BY <1>1, <2>1 DEF Unregister, Step
      <3>4. StopsApart'
        BY <1>1, <2>1 DEF Unregister, Step
      <3>5. StillOurs'
        BY <1>1, <2>1 DEF Unregister, Step
      <3>6. WorkersAreSignalled'
        BY <1>1, <2>1, StopPath DEF Unregister, Step
      <3> QED
        BY <3>2, <3>3, <3>4, <3>5, <3>6
    <2>2. CASE t = "dispatcher"
      BY <1>1, <2>2 DEF Unregister, Step
    <2> QED
      BY <2>1, <2>2
  <1>2. CASE UnregisterFails(t)
    BY <1>2 DEF UnregisterFails
  <1>3. CASE DestroyPeer(t)
    <2>1. CASE t = "main"
      <3>1. client = Cleared => client' = Cleared
        BY <1>3 DEF DestroyPeer
      <3>2. ThreadOrder' /\ FutureTold'
        BY <1>3, <2>1, <3>1 DEF DestroyPeer, Step
      <3>3. DispatcherCleared' /\ GameForgotten'
        BY <1>3, <2>1 DEF DestroyPeer, Step
      <3>4. StopsApart'
        BY <1>3, <2>1 DEF DestroyPeer, Step
      <3>5. StillOurs'
        BY <1>3, <2>1 DEF DestroyPeer, Step
      <3>6. WorkersAreSignalled'
        BY <1>3, <2>1, StopPath DEF DestroyPeer, Step
      <3> QED
        BY <3>2, <3>3, <3>4, <3>5, <3>6
    <2>2. CASE t = "dispatcher"
      BY <1>3, <2>2 DEF DestroyPeer, Step
    <2> QED
      BY <2>1, <2>2
  <1>4. CASE Forget(t)
    <2>1. CASE t = "main"
      <3>1. ThreadOrder' /\ FutureTold' /\ DispatcherCleared'
        BY <1>4, <2>1 DEF Forget, Step, AfterStop
      <3>2. StopsApart' /\ GameForgotten' /\ StillOurs' /\ WorkersAreSignalled'
        BY <1>4, <2>1 DEF Forget, Step, AfterStop
      <3> QED
        BY <3>1, <3>2
    <2>2. CASE t = "dispatcher"
      <3>1. ThreadOrder' /\ FutureTold' /\ DispatcherCleared'
        BY <1>4, <2>2 DEF Forget, Step, AfterStop
      <3>2. StopsApart' /\ GameForgotten' /\ StillOurs' /\ WorkersAreSignalled'
        BY <1>4, <2>2 DEF Forget, Step, AfterStop
      <3> QED
        BY <3>1, <3>2
    <2> QED
      BY <2>1, <2>2
  <1> QED
    BY <1>1, <1>2, <1>3, <1>4 DEF StopClient

\* The invariant holds at first, and every step keeps it.
LEMMA IInvInit == Init => IInv
  <1> SUFFICES ASSUME Init PROVE IInv
    OBVIOUS
  <1>1. Free \in Section(Threads)
    BY SectionAssumption DEF Section, Free
  <1>2. TypeOK
    <2>1. client \in Fields
      BY DEF Init, Cleared, Fields
    <2>2. future \in [section : Section(Threads), complete : BOOLEAN, code : {"OK", "ERROR"}]
      BY <1>1 DEF Init
    <2>3. /\ at \in [Threads -> MainPoints \cup DispatcherPoints]
          /\ at["main"] \in MainPoints /\ at["dispatcher"] \in DispatcherPoints
      BY DEF Init, MainPoints, DispatcherPoints, Threads
    <2> QED
      BY <2>1, <2>2, <2>3 DEF Init, TypeOK, Fields
  <1>3. Order
    BY StopSet DEF Init, Order, ThreadOrder, FutureTold, DispatcherCleared, StopsApart, GameForgotten, StillOurs, WorkersAreSignalled,
       Cleared, Attached, Telling, Preparing, Waiting, Started, Ending, Excused
  <1> QED
    BY <1>2, <1>3 DEF IInv

LEMMA IInvStep == IInv /\ [Next]_vars => IInv'
  <1> SUFFICES ASSUME IInv, [Next]_vars PROVE Order'
    BY TypeStep DEF IInv
  <1>1. CASE UNCHANGED vars
    BY <1>1 DEF vars, IInv, Order, ThreadOrder, FutureTold, DispatcherCleared, StopsApart, GameForgotten, StillOurs, WorkersAreSignalled,
       Excused
  <1>2. CASE Next
    BY <1>2, StartKeepsOrder, WaitKeepsOrder, KillKeepsOrder, DispatcherKeepsOrder, StopKeepsOrder
       DEF Next, Main, Dispatcher, Pool, IInv, Threads
  <1> QED
    BY <1>1, <1>2

LEMMA IInvHolds == Spec => []IInv
  BY IInvInit, IInvStep, PTL DEF Spec

-----------------------------------------------------------------------------
(* The theorems *)

\* WorkersAreSignalled: no pool thread is started once ROGDestroy has signalled
\* the threads that run, so whatever it joins it has signalled.
THEOREM NoLateWorker == Spec => []WorkersAreSignalled
  <1>1. IInv => WorkersAreSignalled
    BY DEF IInv, Order
  <1> QED
    BY <1>1, IInvHolds, PTL

\* TypeOK: both threads stay on their paths, the section of the future within
\* its range, and every field has one of its values.
THEOREM TypeCorrect == Spec => []TypeOK
  <1>1. IInv => TypeOK
    BY DEF IInv
  <1> QED
    BY <1>1, IInvHolds, PTL

\* AnswerIsFinal: a start that is answered with OK did not fail, and one that is
\* answered with ERROR has been stopped by the time waitFor returns.
THEOREM AnswersAreFinal == Spec => []AnswerIsFinal
  <1>1. IInv => AnswerIsFinal
    BY DEF IInv, Order, FutureTold, AnswerIsFinal
  <1> QED
    BY <1>1, IInvHolds, PTL

\* PeerDestroyedOnce: the two threads that run stopClient never both destroy
\* the peer, although neither locks anything.
THEOREM OneDestroysPeer == Spec => []PeerDestroyedOnce
  <1>1. IInv => PeerDestroyedOnce
    BY StopSet DEF IInv, Order, StopsApart, PeerDestroyedOnce, Threads, Attached
  <1> QED
    BY <1>1, IInvHolds, PTL

\* PlayedUnregisters: a program that played leaves no game behind when it
\* closes, but for the two cases the property names.
THEOREM PlayedLeavesNoGame == Spec => []PlayedUnregisters
  <1>1. IInv => PlayedUnregisters
    BY DEF IInv, Order, StillOurs, Ending, Excused, PlayedUnregisters
  <1> QED
    BY <1>1, IInvHolds, PTL

=============================================================================
