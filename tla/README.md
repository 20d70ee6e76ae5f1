# Verification of easygametools

easygametools is a toolkit for peer-to-peer games. A Windows C++ library
(`src/game_client/game_client`) gives a game threads, a thread pool, reference
counting and a `GameClient` that joins a mesh of players; a Java web
application (`src/directory/directory-server`) is the directory in which the
hosts of games register so that players find them.

This directory holds TLA+ models of the parts of that code whose correctness
depends on the order of concurrent steps, TLC configurations that check them on
small instances, and proofs by TLAPS that hold for every instance.
`PROJECT.json` lists the parts, the runs, the source lines behind every
definition, the hazards and the theorems.

- [The system](#the-system)
- [Modules](#modules)
- [What the runs check](#what-the-runs-check)
- [Where code and comments differ](#where-code-and-comments-differ)
- [What is proved](#what-is-proved)
- [What is not modelled](#what-is-not-modelled)

## The system

### The client library

| Part | State | Operations | Talks to | Hard behaviour |
|---|---|---|---|---|
| `Semaphore` | one `CRITICAL_SECTION` | `lock`, `unlock` | all below | recursive; used as a signal between threads; left more often than entered |
| `ThreadPool` | `pool`, `taskQueue`, two semaphores | `start`, `execute`, `runQueueEvent` | its `RunQueue`s, which call it back | two locks taken in two orders; a thread offered to while it is still returning |
| `RunQueue` | `submittedTask`, `submittedSem`, `deliveryLock`, a listener | `run`, `offer`, `signal` | the pool | sleeping and waking by a recursive lock |
| `Thread` | `runningThreads`, the signal flag | `start`, `signal`, `waitfor`, `cleanup`, `CollectRemainingThreads` | the runnable | threads born while the others are collected |
| `Reference`, `Object` | counts, trees of live and dead objects | `AddRef`, `Release`, `new`, `CollectGarbage` | everything | counts changed without a lock; memory used again |
| `GameClient` | directory client, current game, players, mesh, future | `startGame`, `joinGame`, `run`, `stopClient`, `killClient` | RakNet, pool tasks, directory | host migration; fields shared by the dispatcher, tasks and the application |
| Message handlers | none of their own | challenge, response, accepted | `gamePlayers`, directory | a handshake that outlives the connection it is about |
| `DirectoryClient` | the session cookie | one HTTP call per operation | the directory | failures as exceptions, or as nothing at all |
| `ClientFuture` | `complete`, `code` | `setComplete`, `setCode`, `waitFor` | starter and waiter | a wait that leaves a lock it does not hold |
| `Logger` | loggers, one shared file | `log`, `CollectRemainingLoggers` | everything | shared file, shut down piecemeal |

A correct pool runs every task it accepted once; never hands one thread to two
clients; never refuses an offer, which would leave a lock held; never sleeps on
a task. A correct client library
ends: every join returns. A correct `GameClient` tells the application how its
start ended; is listed in the directory exactly while it hosts; agrees with the
others on who plays; and, when the host is gone, finds a new one that registers.

### The directory server

| Part | State | Operations | Talks to | Hard behaviour |
|---|---|---|---|---|
| Game service (`GamerServiceImpl`, `GameManagerImpl`) | the table of games | `startGame`, `updateGame`, `stopGame`, `adoptGame`, `validateUser`, reads | sessions, cleaner | a Java monitor inside a transaction: what was checked may be stale at the commit |
| Cleaner (`InactiveGameCleanerImpl`, `GameRemover`) | the ids it listed | one round a minute | the game service's monitor | a list read before the monitor is entered; a round that dies half way |
| Login (`LoginServiceImpl`, `SessionState`) | user and `hostGameId` of a session | `login` | game service | state of a session that outlives, or forgets, the game it names; another user's login while a request of the session is under way |
| Accounts (`UserServiceImpl`) | users, activations | register, activate, forgot, reset, login, save, remove | e-mail, sessions | whole rows written back after others changed them; e-mail sent before the commit |
| Installation | one row | `install`, `resetAdmin` | schema export | run once |

A correct directory lists a host at most once and an address at most once; gives
a session power over its own user's game only; closes a game because its host
said so or because it was late, never otherwise; never shows a closed game
again; gets rid of abandoned games; and answers every request. Correct accounts
are opened by the code that was mailed for them and by no other, once, and
nobody is locked out of one for good.

## Modules

| Module | Models |
|---|---|
| `CriticalSection` | `Semaphore.h`, as a value with an owner and a depth. |
| `ThreadPool` | `ThreadPool.cpp`, `RunQueue.h` and the collection of threads in `Thread.cpp`. |
| `TaskExecutor` | The promise of a pool: what is submitted is begun once, and ends. |
| `DirectoryServer` | The game service, the cleaner and the sessions' users and `hostGameId`. |
| `GameRegistry` | The promise of the directory: unique hosts and addresses, closed games stay closed. |
| `GameMesh` | Many `GameClient`s: hosting, joining, the handshake, host migration; with `GameRegistry` as their directory. |
| `ClientStartup` | One `GameClient` in detail: the application's thread, the dispatcher and `ClientFuture`. |
| `UserAccounts` | Accounts and mailed codes: `UserServiceImpl` over the tables of users and activations. |
| `ThreadPoolProofs`, `ThreadPoolTasksProofs`, `DirectoryServerProofs`, `GameMeshProofs`, `GameMeshMembersProofs`, `ClientStartupProofs`, `UserAccountsProofs` | Theorems about the module each is named for. |
| `MCThreadPool`, `MCDirectoryServer`, `MCGameMesh`, `MCUserAccounts` | Values and symmetry for TLC. |

`GameRegistry` is used twice: `DirectoryServer` implements it, and `GameMesh`
takes its games from it. So the clients are checked against what the directory
was shown to promise, and not against its transactions.

In every module the small parts of the code that matter most stand beside
variants named `Fault...`. No specification uses these; each property was seen
to fail when one of them takes its original's place.

### ThreadPool

The processes are *clients* (threads that call `execute`; `GameClient` has one,
its dispatcher), *workers* (a `Thread` with its `RunQueue`) and the *collector*
that runs `ROGDestroy`. Each has a program counter (`cpc`, `wpc`, `collector`),
and a step leads from one blocking lock to the next, so every interleaving at
the locks is there. What is held only within a step has no variable:
`submittedSem` is held at the points `Busy`; `runningSem` is held across steps
only by the signalling collector.

| Code | Model |
|---|---|
| `pool`, `taskQueue`, `currentSize` | `pool`, `taskQueue`, the constant-valued `currentSize`: the code never changes it |
| `threadPoolSem`, `taskQueueSem` | `poolSem`, `queueSem`, values of `CriticalSection` |
| `submittedTask`, `deliveryLock` of a queue | `slot`, `delivery` |
| `ThreadPool::start` | `Start`, `StartThread`, `StartDone` |
| `ThreadPool::execute` | `Execute`, then `TakeIdle` or `AddThread`, `Offer`; or `QueueTask`, `LockQueue`, `AppendTask` |
| `RunQueue::run` | `Top`, `Wake`, `Poll`, `Run`, `Relock` |
| `ThreadPool::runQueueEvent` | `Completed`, `TakeQueued`, `Reoffer`, `UnlockAgain`; or `NothingQueued`, `ReturnToPool` |
| `Thread::cleanup`, a client's end | `Exit`, `Cleanup`; `ClientExit`, `ClientCleanup`: out of `runningThreads` first, done with its fields later |
| `CollectRemainingThreads`, `isclosing` | `BeginShutdown`, `Signal`, `EndSignalling`, then for one thread after another `PickThread`, `Waitfor`; `Joined` |

Three things deserve a reader's attention.

*Recursion.* A Win32 critical section belongs to the thread that entered it and
may be entered again; leaving it does not check who leaves. `deliveryLock`
depends on all of that: a worker sleeps because the thread that constructed its
`RunQueue` (`Creator`) entered it, and an offer wakes it by leaving it. Leaving
a section nobody is in is undefined, and `Leave` has both outcomes: nothing
happens, or the section never admits anyone again. A worker may enter
`deliveryLock` again and again before it is left, without bound; the model
counts up to `MaxDepth` and stays there, so its depth is never above the
program's. With a smaller depth a leave frees or ruins a section sooner than in
the program: the bound adds behaviours, and hides none of the stray leaves.

*The second unlock.* After a worker took a queued task, `ThreadPool.cpp` leaves
`taskQueueSem` at line 118 and again at 132. From then on two threads may be
inside, and the array is a data race: `QueueAfter` lets either write win.

*Threads that `execute` adds* have no listener (line 70 makes a `RunQueue`
without one), so they fire no events, never return to the pool and end their
lives asleep.

### DirectoryServer

A request is two or three steps: entering `synchronized(gameRemover)`, where the
method does that, its work in there, and the commit, which the transactional
proxy around the method makes *after* the monitor was left. Reads see committed
rows. `em.persist` of a game, whose id is an `AUTO_INCREMENT` column, sends its
`INSERT` at once and waits for an uncommitted row with the same key; updates and
deletes are sent at the commit and fail it when their row has gone.

| Code | Model |
|---|---|
| the `games` table and its unique columns | `games`, `SameKey`, `Committed`, `Uncommitted` |
| the generated ids | `used`, `FreshIds` |
| `SessionState.user`, `.hostGameId` | `user`, `hostGame` |
| the monitor of `gameRemover` | `monitor` (held across steps by an adoption that waits to insert, and by the cleaner) |
| `startGame` | `StartGame`, `Insert` or `InsertRefused`, `CommitCreate` |
| `updateGame`, `stopGame` | `UpdateGame`, `UpdateFound`, `CommitUpdate`; `StopGame`, `StopFound`, `CommitStop` |
| `adoptGame` | `AdoptGame`, `AdoptFound`, then as `startGame` but inside the monitor |
| `validateUser` | `ValidateUser`, `CommitValidate`; it does not enter the monitor |
| `cleanOldGames`, `removeGame` | `ListOldGames`, `Examine`, `Remove` |
| a login, of whomever, into a session | `Login` |

A method reads the session several times (lines 76, 77 and 79, 124 and 145, or 51
and 57). These reads are taken together, within the step they belong to; not
so the read after the insert (61, 155), which may have waited for long, and
meets whatever login there was meanwhile. `asker` and `crossed` are histories:
the user for whom a stop was accepted, and the sessions whose login overtook a
creation of somebody else's.

`getAvailableGames` and `getUpdatedGame` read and change nothing. A
`validateUser` of somebody who is not the game's host writes back what it read
unchanged. Both are left out. A row carries its age instead of `lastUpdate`; a
tick is the time between two distinguishable ages, and ages above the timeout are
all alike because the code compares only with the timeout. Hibernate and InnoDB
are external: what is said of them above is the model's assumption.

### GameMesh

A client has an application thread that may host, join, stop or be killed; a
dispatcher that takes packets in order; and a pool that runs tasks in any order,
also after `stopClient`, which clears the fields but does not wait for them.

| Code | Model |
|---|---|
| `theGameImPlaying`, `creator`, `gamePlayers`, the peer | `client[c].record`, `.creator`, `.players`, `.app` with `.life` |
| `hostGameId` of the client's session | `client[c].hostGame` |
| what `Receive` will return, the pool's unfinished tasks | `packets[c]`, `tasks[c]` |
| the connections, the ban list, the mesh's idea of its host | `link`, `banned`, `client[c].fcmHost` |
| `startGame`, `joinGame` | `StartGame`, `JoinGame`, then `Connect` |
| `killClient`, the end of `stopClient`, a crash | `KillClient`, `FinishStop`, `Crash` |
| `run`, per kind of packet | `ConnectionLost`, `NewConnection`, `NoFreeConnections`, `NewHost`, `ProtocolMessage` |
| the message handlers | `ChallengeTask`; `ResponseTask`, then `AdmitTask` or `BootTask`; `AcceptedTask` |
| `DirectoryAdoptTask`, and `updateGame` with its answer | `AdoptTask`, `AdoptedTask`; for the creator `AnnounceTask`; begun after a stop `OldAdoptTask` |
| the directory's cleaner | `CleanUp`, when it is `Timely` |

A task that waits for the directory is two steps, so anything may happen between
the effect there and the use of the answer. An object that was cleared is an
`Object` that is NULL, which throws and ends the task or the loop; a pointer of
RakNet that was cleared, or the null host guid of an empty record, ends the
process (`Die`). RakNet's own rules (who connects to whom, what is told of a lost
connection, which peer is the host) are the model's assumption; its sources are
not in the tree. So is `Timely`, which is about time: the cleaner removes a game
after two minutes, its host refreshes it every 45 seconds, and a client gets the
answer to an adoption in less. No guard of `cleanOldGames` says so. That a host
keeps its game is shown under that assumption and not beyond it: `directory_stale`
has a refresh that comes late, and loses the game.

### ClientStartup

`GameMesh` takes `startGame` and `stopClient` in large steps. Here they are taken
statement by statement for one client, because two threads run them: main starts
the dispatcher *before* it sets its own fields, and a dispatcher that fails stops
the client itself. `at` is where each thread is, `client` the fields that
`stopClient` clears, `future` the `ClientFuture`: a section of `CriticalSection`,
a flag and a code.

| Code | Model |
|---|---|
| `startGame`, `joinGame` | `StartFails`, or `StartPeer`, `StartThread`, `SetPlayer`, `AddParticipant` |
| `ClientFuture::waitFor` | `Lock`, `TestComplete`, `Unlock` (in every turn and once more), `ReturnCode` |
| `killClient` | `TestThread`, `Signal`, `WaitFor`, `Join`, each reading `dispatcherThread` again |
| `stopClient`, by either thread | `Unregister`, or `UnregisterFails`, which skips the rest; `DestroyPeer`, `Forget` |
| `run` | `StartPool`, then `Complete`, the loop: `TakeTurn`, `Execute`, `TurnEnds` (which may fail) and `LeaveLoop`; or `EnterFuture`, `FailFuture`, `LeaveFuture` |
| `ROGDestroy`, `Thread::cleanup` | `SignalAll`, `Collect`; `CleanUp`, of a pool thread `WorkersLeave` |

`ROGDestroy` joins all threads, the pool's too. `workers` tells of these only
which kinds run, those that were signalled and those that were not: the former
may leave, or may not, the latter never do. What the pool does besides is
`ThreadPool`'s matter.

`errorState` is left out: nothing but `getErrorState` reads it.

### UserAccounts

A request reads rows, some insert a code or an account, and it commits. Hibernate
writes *all columns* of a changed row as the request read it, so an old copy
undoes what others did since. `tx[k].row` is that copy; `fresh` says whether
another commit touched the account since. `uses` and `overwritten` are histories.

| Code | Model |
|---|---|
| `users`, `activations` | `accounts`; `codes` with `owner` and `kind` |
| `registerAccount` | `RegisterAccount`, `InsertUser` (which mails) or `InsertUserRefused`, `CommitRegister` |
| `forgotPassword` | `ForgotPassword`, `InsertCode` (which mails) or `InsertCodeRefused`, `CommitForgot` |
| `activate`, `resetPassword` | `Activate`, `ResetPassword`, `CommitUse` |
| a login, `saveMyAccount` | `Login`, `SaveMyAccount`, `CommitSave` |
| `unregisterAccount` | `UnregisterAccount`, `CommitUnregister` |
| InnoDB: the shared lock of an inserted reference, a deadlock's victim | `Locking`, `Deadlock` |

Codes and ids are numbers counted up, which is what a random code and an
`AUTO_INCREMENT` column are to a program that only compares them. Full-row
updates and `MySQL5InnoDBDialect` are the configuration's.

## What the runs check

| Run | Instance | Question |
|---|---|---|
| `pool_grow` | 2 clients, 2 + 2 workers, 3 tasks, `maxSize` 3 | Does a pool that may grow run every task once, in the end? |
| `pool_fixed` | 2 clients, 2 workers, 4 tasks, `maxSize` 2 | Where tasks are queued and a section is unlocked twice: is a thread taken twice, an offer refused, a wake-up lost? |
| `pool_shutdown` | 2 clients, 1 + 2 workers, 3 tasks, `ROGDestroy` at any time | Is a task lost, a thread taken twice, an offer refused or a wake-up lost? |
| `directory_safe` | 2 requests, 2 sessions, 2 users, 2 addresses, 2 games | Power over games, causes of closing, and the refinement of `GameRegistry`. |
| `directory_live` | 2 requests, 1 session, 2 users, 2 addresses, 2 games whose ids come back | Is every request answered, and an overdue game refreshed or removed in the end? |
| `mesh_play` | 3 clients, 2 of them of one user, 2 games, 1 incoming connection | Do hosts keep their games, handshakes end in agreement, and orphans register? |
| `startup` | 1 client, 2 threads and their pool | Is what the application is told true, and what does it need to close? |
| `accounts` | 3 requests, 1 session, 1 name, 2 accounts, 3 codes | Are accounts opened by their own codes, once, and never locked for good? |

`pool_deadlock`, `pool_joins`, `directory_stale` and `mesh_creator` show the
disagreements of the next section.

### The pool's properties

`TypeOK` bounds the state. `TaskInOnePlace`: an accepted task is in one hand, one
slot or the queue until it ran, then nowhere. `IdleThreadIsReady`: a worker puts
its thread into the pool (`ThreadPool.cpp:127`) before it locks its own
`deliveryLock` again (`RunQueue.h:53`), and still a client that takes it finds
an empty slot and a locked lock. That lock, and the one of `NoLostWakeup`, is out
of anybody's hands once `ROGDestroy` signals the thread (`RunQueue.h:74` unlocks
it unasked), so both except a thread that was signalled, and no other.
`ThreadTakenOnce`, `NoRefusedOffer`
and `NoLostWakeup` say what their names do.
`ExecutesTasks` is the refinement of `TaskExecutor` with its fairness, that is,
with the promise that tasks are begun; `ExecutesTasksSafely` is the same without
that promise, for a pool that is being shut down.

`TaskInOnePlace` is not among the properties of `pool_fixed`: there the second
unlock makes `taskQueue` a data race in which an appended task may be lost, and
`ExecutesTasks` fails because of it and of `pool_deadlock`. `GameClient`
makes `ThreadPool(10, 15)`, which grows, so `pool_grow` is the pool the library
itself uses.

Bounds. Two clients contend for `threadPoolSem` and for a thread; two
constructor's workers are the least with which one is taken while another
returns; two added ones let both clients add a thread at the same time; three
tasks for two workers let a thread be used again while another task arrives,
four let the fixed pool queue two. `MaxDepth` is 3: the depths the code tells
apart are 0, 1 and more. `ExtraWorkers` bounds how many threads `execute` may
add: where there is one per task the bound never binds, with three tasks
and two constructor's workers two suffice, since a thread is added only when the
pool is empty.

Deadlock is checked in `pool_grow`: when all tasks have run, the added workers
still turn their loops or sleep while a client may yet be signalled or call; TLC
finds no state without a successor before that. It is not checked in the
instances of a full pool, where the deadlock of `pool_deadlock` is real, nor where
`ROGDestroy` ends the program.

### The directory's properties

`HostGameIsOwn`: what a session's `hostGameId` names is, if it is there, a game of
the user who is logged in, and no two sessions hold one id, although it is set
before the row is committed and kept after the row is gone. There is one
exception: a user who logged in while a creation of somebody else's was waiting for
its row (what comes of it is told in the next section). `GameClosesForCause`:
a game goes because a stop was accepted while its host was logged in, or because
it was once overdue, whatever the logins, also those of the exception.
`ImplementsRegistry`: the committed table refines `GameRegistry`: hosts and
addresses unique, a closed game stays closed whatever late update or validation
is committed. `AbandonedGameCloses` and `RequestAnswered` are the liveness
properties.

Bounds. Two requests are the least that race, and pairs are what the monitor and
the row locks are about; the cleaner makes a third process. Any of two users may
log in to any of two sessions at any time, so there are two hosts, one user with
two sessions, and a session that changes hands under a request. `Games` counts the
ids ever given out, `RoomToCreate` keeps enough of them for the creations that
have begun: two suffice for a game that is closed and one that follows it, and
for a new game beside a closed one's late commits. `Timeout` 0 makes a game
overdue one tick after a refresh, the shortest time that tells fresh from late. Only
validations that add a player are asked for (`AddsPlayer`). The run has 1,170,689
states, users, sessions, addresses, games and requests taken as alike.

Liveness is checked without symmetry, which would not be sound, and on a smaller
instance, `directory_live`. Two requests are the least that can wait for each other,
inside the monitor and outside, for the row of the same user or the same address. Two
users who take turns in one session have two games, which may be on the cleaner's
list together, and either may be stopped or refreshed between its steps. Where ids
are finite and never come back, the table comes to rest, and whatever is overdue
then is removed because nothing happens any more. So the ids come back here
(`RecyclingSpec` of `MCDirectoryServer`) when no row, request, session or list refers
to them, and creations never end. Three things are left out to keep the run below
three minutes (`Bounded`): the validations, whose players nobody waits for; one of
the two addresses for one of the two users; and, of two free ids, which is given out
first. 196,038 states.

`AbandonedGameCloses` needs the condition it has: from some time on no round is
`CutShort`, that is, ended by a listed game that has gone, with others behind it.
The query that lists the games orders nothing, so any of them may be first.

### The mesh's properties

`HostKeepsGame`: a client that plays and whose record names it as the host has
that game in the directory, under its user, its guid and the session that may
refresh and delete it; a refused adoption, a late answer, another host or the
cleaner must never part record, row and session. `StopUnregisters`: a client that stops
leaves no game behind, unless an adoption was on its way or, in a later life, it
was refused and has no record any more (next section).
`MutualKnowledge`: whoever lists the host it is connected to is on that host's
list, whatever was lost or booted meanwhile. The player is in its first life,
since a later one may be surprised by a task of the first; the host may be in
any. `HandshakeEnds`: two that are
connected know each other in the end, or are parted. `OrphanRegisters`: a player
that lost its host becomes a host that is listed, or leaves, or is refused
because its user hosts elsewhere.

Bounds. Three clients are the least in which a host is lost while two others
play, or one is refused because the host is full (`MaxIncoming` 1). Two of them
are of one user, so that an adoption is refused by the unique key. Two games are
the one that is lost and the one that follows it. Each client plays once; what
changes when one plays again is told in the next section. The run has 118,949
states. `HostKeepsGame`, `MutualKnowledge` and `StopUnregisters` are also proved,
for any number of clients, games and lives.

A client that has stopped for good, or crashed, does nothing more, so deadlock is
not checked.

### The start-up's properties

`AnswerIsFinal`: no OK for a pool that did not start, and no ERROR while
`stopClient` is still at work, although `waitFor` reads the code in a section
that may be anybody's. `PeerDestroyedOnce`: the application's `stopClient` and
the dispatcher's never destroy one peer twice, whenever the dispatcher fails
during `killClient`. `PlayedUnregisters`: a program that played has no game in
the directory when it closes: what the directory refused a failing dispatcher,
`killClient` asks for again, and only its own request may fail for good.
`StartIsAnswered`: a waiter gets its answer once the pool has started or the future
is complete. `WorkersAreSignalled`: when `ROGDestroy` joins threads, no pool thread
is left that it has not signalled; `pool_joins` shows that such a thread is never
joined, and here is why this program has none: its dispatcher, the only caller of
`execute`, is joined before, or past its last task. `KillEnds`: `killClient`
returns if `execute` returns to the dispatcher (which it does not always in a full
pool, `pool_deadlock`, but does in one that may grow, `pool_grow`), and then
the program closes if the pool threads that were signalled leave (`pool_joins`
also has one that does not). `ClientStartup` assumes neither, it states both.

There is one life and one client: nothing here depends on others. Each of the
two threads has one way through its code. `MaxDepth` 2 is the depth of a section
entered twice, which the code never needs. 2,076 states. The program may end, so
deadlock is not checked.

### The accounts' properties

`CodeUsedOnce`: `activate` and `resetPassword` may both have read a code before
either deletes it. `ActiveWasConfirmed`: an account is active, and its password
another than its first, only by a code that was made for *it*, also when a
request ends after the account was removed and its name registered again.
`ConfirmationHonoured`: a code is mailed before the commit, and still it is
stored then and stays until it is used. `InactiveHasCode`: nobody is locked out,
except by a save of a stale row.

Bounds. Three requests are two that read the same row and a third that changes
it between their commits. One name is the interesting case, since only a name
that is used again makes two accounts meet; two accounts are the removed one and
its successor; three codes are a confirmation for each and a reset. 683,816
states with requests taken as alike. Rows and codes run out in the bounded
model, so deadlock is not checked. All five are proved without the bounds.

### Fairness

Pool: every client, every worker and the collector is weakly fair. Windows
schedules each runnable thread, tasks return, and a critical section that stays
free is entered. Nobody has to call `start`, `execute` or `ROGDestroy`. A lock
that is passed around for ever could starve a thread under weak fairness; with
finitely many tasks that does not arise.

Directory: requests and cleaner are strongly fair, because a thread that waits
for a Java monitor or a row lock which is free again and again gets it in the
end; the scheduler calls the cleaner for ever, and time passes. No client has to
send a request.

Mesh: a client's dispatcher, its tasks, its connection attempts and the rest of a
stop that has begun are weakly fair, and so is a timely cleaner, game by game: threads
are scheduled, RakNet answers and the scheduler calls. Nobody has to host, to
join, to stop or to crash.

Start-up: both threads are weakly fair, but nobody has to start a game, nobody
has to quit, and the dispatcher need not fail. The calls of `execute` and the
pool's threads are not fair at all.

Accounts: no liveness is stated, and no fairness assumed.

## Where code and comments differ

Each of these has a run that ends with a counterexample.

- `pool_deadlock`: a task is never queued. `execute` takes `threadPoolSem`, then
  `taskQueueSem`; a worker that found the queue empty takes them the other way
  round. Both wait for ever.
- `pool_joins`: `CollectRemainingThreads` signals those it finds; a thread that is
  started afterwards, by `start` or `execute`, is waited for and never signalled.
  So is one whose `deliveryLock` the signal's stray unlock ruined.
- `directory_stale`: a refresh that has left the monitor and is committed between
  the cleaner's second look and its removal does not save the game.
- `mesh_creator`: `stopClient` "returns the client back to its original state"
  but for `creator`. A client that hosted once, stopped and joined another game
  takes itself for that game's creator when it becomes its host, and never
  registers. The instance has 2 clients with a user each, one of which plays
  twice, and 3 games; the counterexample has 22 states.

More follows from the models and has no run of its own.

*Pool.* Nothing increments `currentSize`, so `maxSize` limits nothing once it
exceeds `minSize` (`ThreadPool.cpp:66`): every task that finds no idle thread
makes one more. A worker that took a queued task unlocks `taskQueueSem` at line 118
and, after the offer, at 132, where it does not hold it: two threads may be in there,
or, as Windows documents such an unlock, nobody may get in any more, and the next
queued task stays where it is. `CollectRemainingThreads` logs "Waiting for all threads
to exit" (`Thread.cpp:223`), but its loop ends when each has left `runningThreads`,
which is early in `Thread::cleanup` (176): a thread may still tell its listener and
clear its fields (179-185) when `ROGDestroy` goes on to delete every object. Only the
`Sleep(200)` at line 241 stands in between.

*Directory.* "For every game we found we need to re-select it"
(`InactiveGameCleanerImpl.java:37`), but a listed game that has gone makes line 42 fail
and ends the round, with others not looked at (`CutShort`). "amke sure only the host
validates users" (sic, `GamerServiceImpl.java:193`), but a creation that another user's
login to the same HTTP session overtakes gives its id to the new session state (61,
155), and `validateUser` compares the id alone (194): whoever is logged in then adds
players to a game that is not theirs. `updateGame` and `stopGame` compare the user too.
Two validations of one game read its players and write them back:
the later commit drops the player of the earlier (`GamerServiceImpl.java:199`).
The comment "if we found the game then we beat the synchronizer to deleting it"
(`GamerServiceImpl.java:72, 94`) holds only inside the monitor: `Examine` and
`Remove` may come between `UpdateFound` and `CommitUpdate`.

*Mesh.* With `Lives <- Twice` in `mesh_play`, `HandshakeEnds` fails, and so does
`MutualKnowledge` without `life = 1`. A task of a client's earlier life (`GameClient.cpp:96`)
may run in its next one and list the host of another game; that host's challenge
is then taken for a listed player's message (550) and never answered.
A game that an adoption opened while its client was stopping stays listed until
the cleaner gets it, which is why `StopUnregisters` excepts an adoption under way.
Players that join it reach the client in its next life, and make it a host before
its own connection is refused for want of room: then it adopts, loses its record
to the refusal (428) and has nothing left to delete its game by. Three clients
that play twice do that in 43 states. And `adoptGame`
(`DirectoryClient.cpp:423`) does not look at the HTTP status, so a refusal becomes
an empty record whose null guid ends the process in `killClient`.

*Start-up.* Line 366 of `GameClient.cpp` stops the client after a pool that did
not start "to make sure we unregister from the directory server". If main has
not yet set its guid (791) the comparison with the game's host fails and the game
stays; `PlayedUnregisters` concerns programs that did play. If the dispatcher
fails before line 793, main uses the mesh that was destroyed. After a start that
failed, the turns of `waitFor` may have ruined the future's section, so the
dispatcher waits at line 372 for ever and the application is never told; nor is
it when that dispatcher's `deleteGame` throws, past lines 372 to 375. A thread
that cannot be started (785) throws out of `startGame` without `stopClient`.

*Accounts.* Without the exception of `overwritten`, `InactiveHasCode` fails in 14
states: `saveMyAccount` reads an account that `forgotPassword` locked, the new
code opens it and is deleted, and the save writes the inactive row back. A login
or a save likewise undoes the lock of a `forgotPassword` that committed between.
A mail whose transaction is a deadlock's victim holds a code that is void. A
session's account is found by name, whoever has the name by then. `resetPassword`
with an unknown code dereferences null (`UserServiceImpl.java:101`).

## What is proved

All theorems are about every instance: any sets, any bounds, under the
assumptions the modules state of their constants. TLC checked each inductive
invariant on small instances before it was proved.

| Module | Theorem | Statement |
|---|---|---|
| `ThreadPoolProofs` | `TypeCorrect` | `Spec => []TypeOK` |
| | `NoThreadTwice` | `Spec => []ThreadTakenOnce` |
| | `IdleThreadsReady` | `Spec => []IdleThreadIsReady` |
| | `OffersAccepted` | `Spec => []NoRefusedOffer` |
| | `WakeupsKept` | `Spec => []NoLostWakeup` |
| `ThreadPoolTasksProofs` | `TaskKept` | `Growing /\ Spec => []TaskInOnePlace` |
| | `PoolExecutes` | `Growing /\ Spec => ExecutesTasksSafely`, a refinement |
| `DirectoryServerProofs` | `TypeCorrect` | `Spec => []TypeOK` |
| | `SessionsOwnTheirGames` | `Spec => []HostGameIsOwn` |
| | `GamesCloseForCause` | `Spec => GameClosesForCause`, an action property |
| | `TableIsRegister` | `Spec => ImplementsRegistry`, a refinement |
| `GameMeshProofs` | `TypeCorrect` | `Spec => []TypeOK` |
| | `HostsAreListed` | `Spec => []HostKeepsGame` |
| `GameMeshMembersProofs` | `KnownToEachOther` | `Spec => []MutualKnowledge` |
| | `StopDeletesGame` | `Spec => StopUnregisters`, an action property |
| `ClientStartupProofs` | `TypeCorrect` | `Spec => []TypeOK` |
| | `AnswersAreFinal` | `Spec => []AnswerIsFinal` |
| | `OneDestroysPeer` | `Spec => []PeerDestroyedOnce` |
| | `PlayedLeavesNoGame` | `Spec => []PlayedUnregisters` |
| | `NoLateWorker` | `Spec => []WorkersAreSignalled` |
| `UserAccountsProofs` | `TypeCorrect` | `Spec => []TypeOK` |
| | `OncePerCode` | `Spec => []CodeUsedOnce` |
| | `OpenedByOwnCode` | `Spec => []ActiveWasConfirmed` |
| | `MailsHold` | `Spec => []ConfirmationHonoured` |
| | `NobodyLockedOut` | `Spec => []InactiveHasCode` |

**The pool.** The theorems hold with `ROGDestroy` at any time, and `MaxDepth` is
at least 2. `ThreadTakenOnce`, `IdleThreadIsReady`, `NoRefusedOffer` and
`NoLostWakeup` are not inductive. Their strengthening is `TypeInv /\ HandOver`.
`HandOver` says where a thread can be: in the pool at most once, or in one
client's hand, or neither, according to where its worker is; that a worker's slot
is filled only by whoever has it in hand; and how deep its `deliveryLock` is at
each point of its loop. Of a worker that was signalled only the lock is unknown:
a signal leaves it once, whether or not it is entered. That it may then pass the
lock with nothing to do, or never again, disturbs neither its slot nor its place.
The crucial part is the
worker between `ReturnToPool` and `Relock`: it is already in the pool while it is
still on its way to sleep, and an offer that arrives then leaves `deliveryLock` at
a depth from which the worker's two entries still succeed. The proof makes no use
of `taskQueueSem` excluding anyone, which is why these properties survive the
second unlock.

What becomes of a task is proved for every pool with `currentSize < maxSize`
(`Growing`), the pool the library uses being one, and with a shutdown at any
time. Such a pool never queues a task (`NoneQueued`), so a task is at every
moment the `load` of one thread, its client or its worker, or done
(`CarriedOnce`); execute, an accepted offer and the end of a run are the only
steps that change a load (`StepKinds`). The full pool queues tasks, and there the
race for `taskQueue` makes both statements false.

**The directory.** A request acts at its commit on what it read inside a monitor
that it has left. The invariant says what of that is still so: `CreateOK`, a game
that was inserted and not committed has an id and keys of its own, and at most the
session that made it remembers it, for the row's host or, if a login overtook it,
for somebody else (`Hosted`); `RequestOK`, the game of a stop that is to be
committed is of the user it was accepted for, or has gone; `LateOK` and `CleanerOK`, what the cleaner
is about to remove was overdue, whatever was committed since it looked. For the
refinement, every step either opens one pending game (`CreateOpens`), closes some
(`EndCloses`), or leaves the committed hosts and addresses as they are
(`SameRegister`), also when an id is given out and the row is not yet visible
(`InsertHides`). It gives `GameMesh` the register it stands on.

**The mesh.** `HostKeepsGame` is about the record a client has, but a client gets
its record from the answer to an adoption, which may have been asked in an
earlier life. The invariant is about all records a client has or is about to get
(`Claims`): any of them that names its present guid is listed, with its user and
its session (`ClaimsKept`). A new life begins with a guid that no answer on its
way can name. An adoption opens a game only for a user who lists none, so it
finds the client with no claim; the cleaner is assumed to be `Timely`; another client's stop closes only what it lists itself.

`MutualKnowledge` and `StopUnregisters` relate what two clients know, or a client
and the directory, while packets and tasks of all kinds are on their way. The
argument has two parts. First, whatever a step brings about has a cause
(`Caused`, `StepCaused`): a connection was asked for, a packet was sent by a
connected peer on account of a packet or task, a player was listed by an
admission or an acceptance, a game was opened by an adoption that is now being
answered. The application's start of a life (`ApplicationBegins`) is a client's only
step without one, and it changes nothing but that client and the game it lists;
the cleaner's (`CleanUpParts`) only takes games away. Second, steps with
causes keep `Meeting` (`CausedKeeps`). Its main parts are `MembersKnown`, that a
player in its first life which is connected to its host hears from that host
only, while the host hears from it what a player says, so an acceptance can only
follow an admission that a loss or a boot has not undone; `AloneUnheard`, that
nobody has heard of a client before its first connection is made, which is where
that player starts; and `ListedOwned`, that a client's record is of the game listed
at its guid, unless an adoption is being answered or was refused, or the client
was refused itself in a later life. For an answer that is late by a life this
needs `AnswersListed`: the game of an answer stays listed until the answer is
taken, and so keeps the user from listing another.

**The start-up.** The section of the future may be anybody's, so no argument is
about who holds it. They are about the order in which two threads run the same
`stopClient`, and what each has read of the other before. The invariant `IInv`
says that the dispatcher runs once and after main has prepared everything
(`ThreadOrder`); that the future is complete only when the start has ended, and
its code is ERROR only after every field was cleared (`FutureTold`); what a
thread in the middle of `stopClient` has cleared, and that it stays cleared
(`DispatcherCleared`, `GameForgotten`); that main begins its own `stopClient` only
when the dispatcher is joined or has forgotten itself, which is after it is done
with the peer and with the pool (`StopsApart`); and that a listed game is still known as our own
until main ends (`StillOurs`).

**The accounts.** What a request read may be old at its commit. The invariant
says that an old copy of a row is still `ConfirmedBy` used codes of its own
account: an id and a code are never given out again (`Counted`), a used code is
gone and stays used (`UsesOK`), and a code that was made but not yet stored is its
request's alone (`PendingOK`).

**Model-checked only.** Everything that is liveness or refinement under fairness,
which TLAPS does not reason about: `ExecutesTasks`, `AbandonedGameCloses`,
`RequestAnswered`, `OrphanRegisters`, `HandshakeEnds`, `StartIsAnswered`,
`KillEnds`. And the runs that end with a counterexample, which need no proof.
Every other property of a run is a theorem.

## What is not modelled

Most of the tree is vendored code (protobuf with its compiler and tests,
OpenContainers, libb64), which is not verified here, so the mapped lines are a
small share of all. RakNet, irrXML, Spring and Hibernate are not in the tree;
they are modelled where the code depends on them, and marked external.

Of the project's own code:

- `Reference` and `Object` count without locks (`Reference.cpp:147`), so any two
  concurrent releases are a data race; there is no protocol to check. The same
  holds of `gamePlayers`, whose semaphore is never locked: `GameMesh` has the
  order of its changes, not the tree they would corrupt.
- `Logger`, `Config`, the XML loaders, HTTP, dates, base64: I/O and sequential
  conversions.
- A directory request of `GameMesh` that fails on the way (a deletion that fails
  is in `ClientStartup`), and Spring Security's authentication.
- A second login at a client of `GameMesh`; at the directory it is in
  `DirectoryServer`.
- Client events: tasks that only call the application's listener. For the pool
  they are tasks like any other.
- Installation, which an administrator runs once and alone; validation, merging,
  e-mail texts and web pages.
- A `FatalException` of a task is caught by the loop that runs it and looks like
  a return. Starting a thread (`Thread.cpp:132-152`) fails only in `ClientStartup`.
- The two ends of `RunQueue` and `taskQueue` that nobody reaches in a well-formed
  call: an offer of a NULL task, and what `removeAt` of an empty array yields where
  the race for `taskQueue` has emptied it.
- An `UPDATE` of a row that Hibernate finds clean is not sent; `UserAccounts` writes
  the row back all the same, and so overwrites more often than the program.
