----------------------------- MODULE ClientStartup -----------------------------
(***************************************************************************)
(* The life of one GameClient: startGame or joinGame, the ClientFuture the *)
(* application waits on, killClient and ROGDestroy, beside the dispatcher  *)
(* (GameClient::run), which may fail and then stops the client itself.     *)
(* Both threads run stopClient, so it is taken field by field.             *)
(*                                                                         *)
(* ClientFuture is a Semaphore: waitFor enters it once and leaves it once  *)
(* a turn, and once more in the end.  An Object that is NULL throws, a     *)
(* pointer of RakNet that is NULL or was destroyed ends the process.       *)
(* Nothing here depends on what is played: that is GameMesh.               *)
(*                                                                         *)
(* Of the dispatcher's pool only its threads are here, and of them which   *)
(* kinds there are: what ROGDestroy joins.  A call of execute may wait for *)
(* ever, and so may a worker (ThreadPool tells when), hence neither is     *)
(* fair, and what depends on them says so.                                 *)
(***************************************************************************)
EXTENDS CriticalSection, Sequences

Threads == {"main", "dispatcher"}

VARIABLES
  at,          \* of each thread, the code it runs next
  future,      \* startupFuture
  client,      \* the fields of GameClient that stopClient clears
  signalled,   \* the dispatcher thread's signalFlag
  workers,     \* the kinds of pool threads among the running threads
  registered,  \* our own game is in the directory
  answer,      \* what startGame, joinGame or waitFor told the application
  failed,      \* history: the dispatcher could not start its pool
  early,       \* history: the dispatcher stopped before main had set the guid
  refused      \* history: the directory did not delete the game for main

vars == <<at, future, client, signalled, workers, registered, answer, failed, early, refused>>

Cleared == [thread |-> FALSE, peer |-> "none", player |-> "none", game |-> FALSE]

\* Thread: in runningThreads from start to cleanup, which clears _thrid later.
Kinds == {"unsignalled", "signalled"}
Running == at["dispatcher"] \notin {"none", "clearIds", "ended"}

\* Parts of the code, each after a fault one could put into it; the Fault... are
\* in no specification, they are what the properties are tried against.

\* stopClient; the fault forgets the thread before the peer is destroyed.
FaultStopOrder == <<"unregister", "forgetThread", "destroyPeer", "clearPeer", "forgetPlayer">>
StopOrder == <<"unregister", "destroyPeer", "clearPeer", "forgetThread", "forgetPlayer">>
StopPoints == {StopOrder[i] : i \in 1 .. 5}

\* What waitfor waits for; the fault takes the flag for the end.
FaultHasId == ~signalled
HasId == at["dispatcher"] \notin {"none", "ended"}

\* Where the dispatcher goes to stop the client; the fault calls killClient.
FaultDispatcherStops == "join"
DispatcherStops == StopOrder[1]

\* May setComplete be called after a start?  The fault takes the lock for it.
FaultMayComplete == CanEnter(future.section, "dispatcher")
MayComplete == TRUE

\* A failing start first sets the code; the fault sets it last.
FaultFailureOrder == <<"complete", "code">>
FailureOrder == <<"code", "complete">>

\* myPlayer after setClientGuid; the fault is without it.
FaultWithGuid == "new"
WithGuid == "known"

Init ==
  /\ at = [main |-> "out", dispatcher |-> "none"]
  /\ future = [section |-> Free, complete |-> FALSE, code |-> "OK"]
  /\ client = [Cleared EXCEPT !.player = "new"]
  /\ signalled = FALSE /\ registered = FALSE /\ failed = FALSE
  /\ workers = {}
  /\ early = FALSE /\ refused = FALSE
  /\ answer = "none"

Goto(t, from, to) == at[t] = from /\ at' = [at EXCEPT ![t] = to]

-----------------------------------------------------------------------------
(* main: startGame or joinGame *)

\* RakNet, the directory or Connect fails: all in one thread.  startGame throws,
\* and so does joinGame, except when it could not connect.
StartFails ==
  /\ \/ Goto("main", "out", "destroy") /\ answer' = "thrown"
     \/ Goto("main", "out", "lock") /\ UNCHANGED answer
  /\ client' = Cleared
  /\ future' = [section |-> Free, complete |-> TRUE, code |-> "ERROR"]
  /\ UNCHANGED <<signalled, workers, registered, failed, early, refused>>

\* The peer is started, and a game is opened or one to join is known.
StartPeer ==
  /\ Goto("main", "out", "startThread")
  /\ client' = [thread |-> TRUE, peer |-> "live", player |-> "new", game |-> TRUE]
  /\ registered' \in BOOLEAN
  /\ UNCHANGED <<future, signalled, workers, answer, failed, early, refused>>

\* Thread::start; one that fails throws out of startGame.
StartThread ==
  /\ at["main"] = "startThread"
  /\ \/ at' = [main |-> "setPlayer", dispatcher |-> "pool"] /\ UNCHANGED answer
     \/ at' = [at EXCEPT !["main"] = "destroy"] /\ answer' = "thrown"
  /\ UNCHANGED <<future, client, signalled, workers, registered, failed, early, refused>>

SetPlayer ==
  /\ IF client.player = "none"
     THEN Goto("main", "setPlayer", "destroy") /\ answer' = "thrown" /\ UNCHANGED client
     ELSE /\ Goto("main", "setPlayer", "addParticipant")
          /\ client' = [client EXCEPT !.player = WithGuid]
          /\ UNCHANGED answer
  /\ UNCHANGED <<future, signalled, workers, registered, failed, early, refused>>

AddParticipant ==
  /\ Goto("main", "addParticipant", IF client.peer = "live" THEN "lock" ELSE "crashed")
  /\ UNCHANGED <<future, client, signalled, workers, registered, answer, failed, early, refused>>

-----------------------------------------------------------------------------
(* main: ClientFuture::waitFor *)

Lock ==
  /\ CanEnter(future.section, "main")
  /\ Goto("main", "lock", "test")
  /\ future' = [future EXCEPT !.section = Enter(@, "main")]
  /\ UNCHANGED <<client, signalled, workers, registered, answer, failed, early, refused>>

TestComplete ==
  /\ Goto("main", "test", IF future.complete THEN "unlock" ELSE "turn")
  /\ UNCHANGED <<future, client, signalled, workers, registered, answer, failed, early, refused>>

Unlock ==
  /\ Goto("main", "turn", "test") \/ Goto("main", "unlock", "code")
  /\ \E s \in Leave(future.section) : future' = [future EXCEPT !.section = s]
  /\ UNCHANGED <<client, signalled, workers, registered, answer, failed, early, refused>>

ReturnCode ==
  /\ Goto("main", "code", IF future.code = "OK" THEN "playing" ELSE "destroy")
  /\ answer' = future.code
  /\ UNCHANGED <<future, client, signalled, workers, registered, failed, early, refused>>

-----------------------------------------------------------------------------
(* main: killClient and ROGDestroy *)

Quit ==
  /\ Goto("main", "playing", "kill")
  /\ UNCHANGED <<future, client, signalled, workers, registered, answer, failed, early, refused>>

TestThread ==
  /\ Goto("main", "kill", IF client.thread THEN "signal" ELSE StopOrder[1])
  /\ UNCHANGED <<future, client, signalled, workers, registered, answer, failed, early, refused>>

\* dispatcherThread is read again for each call: it may be NULL by then.
Signal ==
  /\ Goto("main", "signal", IF client.thread THEN "waitfor" ELSE "destroy")
  /\ signalled' = (signalled \/ client.thread)
  /\ UNCHANGED <<future, client, workers, registered, answer, failed, early, refused>>

WaitFor ==
  /\ Goto("main", "waitfor", IF client.thread THEN "join" ELSE "destroy")
  /\ UNCHANGED <<future, client, signalled, workers, registered, answer, failed, early, refused>>

Join ==
  /\ ~HasId
  /\ Goto("main", "join", StopOrder[1])
  /\ UNCHANGED <<future, client, signalled, workers, registered, answer, failed, early, refused>>

\* CollectRemainingThreads signals whoever runs, and joins whoever still runs, or
\* was started since.
SignalAll ==
  /\ Goto("main", "destroy", "collect")
  /\ signalled' = (signalled \/ Running)
  /\ workers' = IF workers = {} THEN {} ELSE {"signalled"}
  /\ UNCHANGED <<future, client, registered, answer, failed, early, refused>>

Collect ==
  /\ ~Running /\ workers = {}
  /\ Goto("main", "collect", "closed")
  /\ UNCHANGED <<future, client, signalled, workers, registered, answer, failed, early, refused>>

-----------------------------------------------------------------------------
(* stopClient, in either thread *)

AfterStop(t) ==
  CASE t = "main" -> "destroy"
    [] t = "dispatcher" /\ failed -> "enter"
    [] t = "dispatcher" /\ ~failed -> "cleanup"

NextPoint(t, point) ==
  LET i == CHOOSE j \in DOMAIN StopOrder : StopOrder[j] = point IN
  IF i = Len(StopOrder) THEN AfterStop(t) ELSE StopOrder[i + 1]

Step(t, point) == Goto(t, point, NextPoint(t, point))

\* Our game is deleted when the guid of its host is our player's.
Unregister(t) ==
  /\ Step(t, "unregister")
  /\ registered' = (registered /\ ~(client.game /\ client.player = "known"))
  /\ early' = (early \/ at["main"] = "setPlayer")
  /\ client' = [client EXCEPT !.game = FALSE]
  /\ UNCHANGED <<future, signalled, workers, answer, failed, refused>>

\* deleteGame throws what is not answered with 200, and the rest of stopClient is
\* skipped.  The directory may have deleted the game all the same.
UnregisterFails(t) ==
  /\ registered /\ client.game /\ client.player = "known"
  /\ Goto(t, "unregister", IF t = "main" THEN "destroy" ELSE "cleanup")
  /\ registered' \in BOOLEAN
  /\ refused' = (refused \/ t = "main")
  /\ UNCHANGED <<future, client, signalled, workers, answer, failed, early>>

DestroyPeer(t) ==
  /\ Step(t, "destroyPeer")
  /\ client' = [client EXCEPT !.peer = IF @ = "live" THEN "destroyed" ELSE @]
  /\ UNCHANGED <<future, signalled, workers, registered, answer, failed, early, refused>>

Forget(t) ==
  /\ \/ Step(t, "clearPeer") /\ client' = [client EXCEPT !.peer = "none"]
     \/ Step(t, "forgetThread") /\ client' = [client EXCEPT !.thread = FALSE]
     \/ Step(t, "forgetPlayer") /\ client' = [client EXCEPT !.player = "none"]
  /\ UNCHANGED <<future, signalled, workers, registered, answer, failed, early, refused>>

StopClient(t) == Unregister(t) \/ UnregisterFails(t) \/ DestroyPeer(t) \/ Forget(t)

-----------------------------------------------------------------------------
(* The dispatcher *)

StartPool ==
  /\ \/ /\ Goto("dispatcher", "pool", "completed")
        /\ workers' = {"unsignalled"}
        /\ UNCHANGED failed
     \/ /\ Goto("dispatcher", "pool", DispatcherStops)
        /\ workers' \in {{}, {"unsignalled"}}
        /\ failed' = TRUE
  /\ UNCHANGED <<future, client, signalled, registered, answer, early, refused>>

\* Without the lock; the code is set after that, to what it was.
Complete ==
  /\ MayComplete
  /\ Goto("dispatcher", "completed", "loop")
  /\ future' = [future EXCEPT !.complete = TRUE]
  /\ UNCHANGED <<client, signalled, workers, registered, answer, failed, early, refused>>

EnterFuture ==
  /\ CanEnter(future.section, "dispatcher")
  /\ Goto("dispatcher", "enter", FailureOrder[1])
  /\ future' = [future EXCEPT !.section = Enter(@, "dispatcher")]
  /\ UNCHANGED <<client, signalled, workers, registered, answer, failed, early, refused>>

FailFuture ==
  /\ \E i \in DOMAIN FailureOrder :
       /\ Goto("dispatcher", FailureOrder[i], IF i = 1 THEN FailureOrder[2] ELSE "leave")
       /\ future' = IF FailureOrder[i] = "code" THEN [future EXCEPT !.code = "ERROR"]
                    ELSE [future EXCEPT !.complete = TRUE]
  /\ UNCHANGED <<client, signalled, workers, registered, answer, failed, early, refused>>

LeaveFuture ==
  /\ Goto("dispatcher", "leave", "cleanup")
  /\ \E s \in Leave(future.section) : future' = [future EXCEPT !.section = s]
  /\ UNCHANGED <<client, signalled, workers, registered, answer, failed, early, refused>>

\* The loop tests the flag, and takes another turn.
LeaveLoop ==
  /\ signalled
  /\ Goto("dispatcher", "loop", "cleanup")
  /\ UNCHANGED <<future, client, signalled, workers, registered, answer, failed, early, refused>>

TakeTurn ==
  /\ ~signalled
  /\ Goto("dispatcher", "loop", "turn")
  /\ UNCHANGED <<future, client, signalled, workers, registered, answer, failed, early, refused>>

\* Packets become tasks: execute may start another thread for one, or throw, as
\* a packet may, out of the loop.  What is told of that is a task again.
Execute ==
  /\ at["dispatcher"] \in {"turn", "tell"}
  /\ workers' = workers \cup {"unsignalled"}
  /\ UNCHANGED <<at, future, client, signalled, registered, answer, failed, early, refused>>

TurnEnds ==
  /\ \/ Goto("dispatcher", "turn", "loop") \/ Goto("dispatcher", "turn", "tell")
     \/ Goto("dispatcher", "tell", DispatcherStops) \/ Goto("dispatcher", "tell", "cleanup")
  /\ UNCHANGED <<future, client, signalled, workers, registered, answer, failed, early, refused>>

\* The last worker that was signalled leaves the running threads.
WorkersLeave ==
  /\ "signalled" \in workers
  /\ workers' = workers \ {"signalled"}
  /\ UNCHANGED <<at, future, client, signalled, registered, answer, failed, early, refused>>

CleanUp ==
  /\ Goto("dispatcher", "cleanup", "clearIds") \/ Goto("dispatcher", "clearIds", "ended")
  /\ UNCHANGED <<future, client, signalled, workers, registered, answer, failed, early, refused>>

Main ==
  \/ StartThread \/ SetPlayer \/ AddParticipant
  \/ Lock \/ TestComplete \/ Unlock \/ ReturnCode
  \/ TestThread \/ Signal \/ WaitFor \/ SignalAll \/ Collect
  \/ Join \/ StopClient("main")

Alive == at["main"] # "crashed"

Dispatcher ==
  /\ Alive
  /\ \/ StartPool \/ Complete \/ EnterFuture \/ FailFuture \/ LeaveFuture \/ LeaveLoop
     \/ TakeTurn \/ CleanUp \/ StopClient("dispatcher")

Pool == Alive /\ (Execute \/ TurnEnds \/ WorkersLeave)

Next == StartFails \/ StartPeer \/ Main \/ Quit \/ Dispatcher \/ Pool

\* Both threads are scheduled; nobody has to start a game or to quit, and nothing
\* is assumed of the pool.
Spec == Init /\ [][Next]_vars /\ WF_vars(Main) /\ WF_vars(Dispatcher)

-----------------------------------------------------------------------------
(* Properties *)

MainPoints == StopPoints \cup
  {"out", "startThread", "setPlayer", "addParticipant", "lock", "test", "turn", "unlock", "code",
   "playing", "kill", "signal", "waitfor", "join", "destroy", "collect", "closed", "crashed"}
DispatcherPoints == StopPoints \cup
  {"none", "pool", "completed", "loop", "turn", "tell", "enter", "code", "complete", "leave",
   "cleanup", "clearIds", "ended"}

TypeOK ==
  /\ at \in [Threads -> MainPoints \cup DispatcherPoints]
  /\ at["main"] \in MainPoints /\ at["dispatcher"] \in DispatcherPoints
  /\ future \in [section : Section(Threads), complete : BOOLEAN, code : {"OK", "ERROR"}]
  /\ client \in [thread : BOOLEAN, peer : {"none", "live", "destroyed"},
                 player : {"none", "new", "known"}, game : BOOLEAN]
  /\ workers \subseteq Kinds
  /\ {signalled, registered, failed, early, refused} \subseteq BOOLEAN
  /\ answer \in {"none", "thrown", "OK", "ERROR"}

\* What waitFor returns is how the start ended, although the section it reads
\* the code in may be anybody's: no OK for a pool that did not start, and no
\* ERROR while stopClient is still at work.
AnswerIsFinal ==
  /\ answer = "OK" => ~failed
  /\ answer = "ERROR" => client = Cleared

\* The application's stopClient and the dispatcher's never destroy one peer
\* twice, whenever the dispatcher fails during killClient.
PeerDestroyedOnce ==
  \A t \in Threads : at[t] = "destroyPeer" => client.peer # "destroyed"

\* A program that played has no game in the directory when it closes, whoever
\* stopped the client: what the directory refused the dispatcher, killClient asks
\* for again.  Unless it is refused that too, or the dispatcher failed before
\* main had set the guid by which stopDirectoryClient knows its own game.
PlayedUnregisters ==
  answer = "OK" /\ at["main"] = "closed" => ~registered \/ early \/ refused

\* Every pool thread that ROGDestroy has to join it has signalled: the dispatcher,
\* who alone starts them, is joined, or past its last task, before the signals.
WorkersAreSignalled ==
  at["main"] \in {"collect", "closed"} => "unsignalled" \notin workers

\* A waiter gets its answer once the pool has started or the future is complete:
\* success is told without the lock, so it does not matter that a waiter of some
\* turns may have ruined the section.
StartIsAnswered ==
  at["dispatcher"] = "completed" \/ future.complete
    ~> at["main"] \notin {"lock", "test", "turn", "unlock", "code"}

\* killClient ends, also when the dispatcher fails and stops the client meanwhile,
\* provided that execute returns to the dispatcher; and the program closes if the
\* workers that were signalled leave.
PoolReturns == []<>(at["dispatcher"] \notin {"turn", "tell"})
SignalledLeave == <>[]("signalled" \notin workers)

KillEnds ==
  /\ PoolReturns => (at["main"] = "kill" ~> at["main"] = "destroy")
  /\ PoolReturns /\ SignalledLeave => (at["main"] = "kill" ~> at["main"] = "closed")

=============================================================================
