---------------------------- MODULE DirectoryServer ----------------------------
(***************************************************************************)
(* The game half of the directory server: GamerServiceImpl, the            *)
(* GameManagerImpl queries it makes, the scheduled InactiveGameCleanerImpl *)
(* with its GameRemover, and the MySQL table of games underneath.          *)
(*                                                                         *)
(* A session belongs to whoever logged in last: its SessionState names the *)
(* user, and the game that user hosts, and a login puts a new one in its   *)
(* place, also while requests of the session are under way.                *)
(*                                                                         *)
(* The service methods synchronize on gameRemover inside a transaction:    *)
(* the proxy that begins and commits it is around the method, so a commit  *)
(* comes after the monitor was left.  A request is therefore two steps or  *)
(* three: entering the monitor (where the method uses it), what it does    *)
(* there, and the commit.  A read sees committed rows.  An INSERT is sent  *)
(* at once (the id is an AUTO_INCREMENT column) and waits for an           *)
(* uncommitted row with the same unique key; UPDATE and DELETE are sent    *)
(* when the transaction commits, and fail it when their row is gone.       *)
(*                                                                         *)
(* A row has an age, the time since its lastUpdate, instead of a time      *)
(* stamp: one tick is a minute, and ages beyond the timeout are one.       *)
(***************************************************************************)
EXTENDS Naturals, FiniteSets

CONSTANTS
  Users, Sessions,
  Addresses,    \* hostName and hostPort
  Games,        \* game ids; bounds how many games are ever created
  Requests,     \* the threads that serve requests
  Timeout,      \* 120000 ms, in ticks
  Nobody,       \* nobody holds the monitor
  Cleaner,      \* the scheduler's thread, as the monitor's owner
  NoSession,    \* the session of a thread that serves nobody
  NoGame,       \* a null game id
  NoRow         \* no such row

ASSUME DirectoryAssumption ==
  /\ Timeout \in Nat
  /\ NoGame \notin Games
  /\ NoSession \notin Sessions
  /\ Nobody # Cleaner
  /\ {Nobody, Cleaner} \cap Requests = {}

Ages == 0 .. Timeout + 1
Rows == [host : Users, address : Addresses, age : Ages, players : SUBSET Users]
ASSUME RowAssumption == NoRow \notin Rows

VARIABLES
  games,      \* the committed rows of the table
  used,       \* ids given out
  user, hostGame,   \* SessionState.user and hostGameId of each session
  pc, session, game, row,   \* of each request: where it is, and its data
  monitor,    \* who is inside synchronized(gameRemover)
  cleaner,    \* where the cleaner is, the ids it listed, the one it examines
  asker,      \* history: for which user a request was accepted to stop its game
  crossed,    \* history: sessions whose last login overtook a creation of
              \* another user's
  late        \* history: games whose committed row was ever overdue

sessionVars == <<user, hostGame, crossed>>
requestVars == <<pc, session, game, row, asker>>
vars == <<games, used, sessionVars, requestVars, monitor, cleaner, late>>

Points == {"idle", "update", "stop", "adopt", "insert",
           "commitCreate", "commitUpdate", "commitStop", "commitValidate"}

Stored == {g \in Games : games[g] # NoRow}

SameKey(r, q) == r.host = q.host \/ r.address = q.address

LateAfter == late \cup {g \in Games : games'[g] # NoRow /\ games'[g].age > Timeout}

CleanerIdle == [at |-> "idle", list |-> {}, game |-> NoGame]

(* Small parts of the code, each after a fault one could put into it: the      *)
(* faults named Fault... are in no specification, they are what the properties *)
(* are tried against.                                                          *)

\* Is a game overdue?  The fault is early by one.
FaultStale(r) == r.age >= Timeout
Stale(r) == r.age > Timeout

\* The caller is the session that hosts g, and its user owns the row; the fault
\* takes anybody.
FaultIsHost(s, g) == TRUE
IsHost(s, g) == hostGame[s] = g /\ games[g].host = user[s]

\* The row startGame and adoptGame make; the fault mixes up session and user.
FaultNewRow(s, a) == [host |-> s, address |-> a, age |-> 0, players |-> {user[s]}]
NewRow(s, a) == [host |-> user[s], address |-> a, age |-> 0, players |-> {user[s]}]

\* The hostGameId of a session that logs in is a new SessionState's; the fault
\* goes on with the old one.
FaultHostGameAfterLogin(s) == hostGame
HostGameAfterLogin(s) == [hostGame EXCEPT ![s] = NoGame]

\* The ids the database may give out next.
FreshIds == Games \ used

\* The monitor after k has left its synchronized block; the fault keeps it.
FaultReleased(k) == monitor
Released(k) == IF monitor = k THEN Nobody ELSE monitor

\* The cleaner when list is still to be examined; the fault never ends a round.
FaultCleanerAfter(list) == [at |-> "round", list |-> list, game |-> NoGame]
CleanerAfter(list) ==
  IF list = {} THEN CleanerIdle ELSE [at |-> "round", list |-> list, game |-> NoGame]

\* What an UPDATE of row g leaves: nothing when the row is gone.  The fault
\* inserts it again, as the merge of a detached game would.
FaultWritten(g, r) == r
Written(g, r) == IF g \in Stored THEN r ELSE NoRow

Init ==
  /\ games = [g \in Games |-> NoRow]
  /\ used = {}
  /\ user \in [Sessions -> Users]
  /\ hostGame = [s \in Sessions |-> NoGame]
  /\ crossed = {}
  /\ asker = [k \in Requests |-> {}]
  /\ pc = [k \in Requests |-> "idle"]
  /\ session = [k \in Requests |-> NoSession]
  /\ game = [k \in Requests |-> NoGame]
  /\ row = [k \in Requests |-> NoRow]
  /\ monitor = Nobody
  /\ cleaner = CleanerIdle
  /\ late = {}

-----------------------------------------------------------------------------
(* Requests *)

Begin(k, s, point, g, r) ==
  /\ pc[k] = "idle"
  /\ pc' = [pc EXCEPT ![k] = point]
  /\ session' = [session EXCEPT ![k] = s]
  /\ game' = [game EXCEPT ![k] = g]
  /\ row' = [row EXCEPT ![k] = r]
  /\ UNCHANGED asker

\* The method returns or throws, and nothing is left of the request.
Answer(k) ==
  /\ pc' = [pc EXCEPT ![k] = "idle"]
  /\ session' = [session EXCEPT ![k] = NoSession]
  /\ game' = [game EXCEPT ![k] = NoGame]
  /\ row' = [row EXCEPT ![k] = NoRow]
  /\ asker' = [asker EXCEPT ![k] = {}]

Goto(k, point, r, u) ==
  /\ pc' = [pc EXCEPT ![k] = point]
  /\ row' = [row EXCEPT ![k] = r]
  /\ asker' = [asker EXCEPT ![k] = u]
  /\ UNCHANGED <<session, game>>

\* The bound on creations: an id is left for every request that may insert a game.
RoomToCreate ==
  Cardinality({k \in Requests : pc[k] \in {"adopt", "insert"}}) < Cardinality(Games \ used)

\* startGame, updateGame, stopGame and adoptGame arrive.  A game id a client
\* can name is one the directory gave out.
StartGame(k, s, a) ==
  /\ RoomToCreate
  /\ Begin(k, s, "insert", NoGame, NewRow(s, a))
  /\ UNCHANGED <<games, used, sessionVars, monitor, cleaner, late>>

UpdateGame(k, s, g) ==
  /\ g \in used
  /\ Begin(k, s, "update", g, NoRow)
  /\ UNCHANGED <<games, used, sessionVars, monitor, cleaner, late>>

StopGame(k, s, g) ==
  /\ g \in used
  /\ Begin(k, s, "stop", g, NoRow)
  /\ UNCHANGED <<games, used, sessionVars, monitor, cleaner, late>>

AdoptGame(k, s, g) ==
  /\ RoomToCreate
  /\ g \in used
  /\ Begin(k, s, "adopt", g, NoRow)
  /\ UNCHANGED <<games, used, sessionVars, monitor, cleaner, late>>

\* validateUser does not synchronize: it reads the game, adds the player if the
\* host asks, and is left with the commit.
ValidateUser(k, s, g, u) ==
  /\ g \in Stored
  /\ hostGame[s] = g
  /\ Begin(k, s, "commitValidate", g, [games[g] EXCEPT !.players = @ \cup {u}])
  /\ UNCHANGED <<games, used, sessionVars, monitor, cleaner, late>>

\* updateGame inside the monitor: refresh the game it found, or throw.
UpdateFound(k) ==
  LET g == game[k] IN
  /\ pc[k] = "update"
  /\ monitor = Nobody
  /\ IF g \in Stored /\ IsHost(session[k], g)
     THEN Goto(k, "commitUpdate", [games[g] EXCEPT !.age = 0], {})
     ELSE Answer(k)
  /\ UNCHANGED <<games, used, sessionVars, monitor, cleaner, late>>

\* stopGame inside the monitor: delete the game it found, or do nothing.
StopFound(k) ==
  LET g == game[k] IN
  /\ pc[k] = "stop"
  /\ monitor = Nobody
  /\ IF g \in Stored /\ IsHost(session[k], g)
     THEN Goto(k, "commitStop", NoRow, {user[session[k]]})
     ELSE Answer(k)
  /\ UNCHANGED <<games, used, sessionVars, monitor, cleaner, late>>

\* adoptGame inside the monitor: the old host's own user may not adopt; anyone
\* else makes a game of his own, with the address a he came with, and stays in
\* the monitor to insert it.
AdoptFound(k, a) ==
  LET g == game[k] IN
  /\ pc[k] = "adopt"
  /\ monitor = Nobody
  /\ IF g \in Stored /\ games[g].host = user[session[k]]
     THEN Answer(k) /\ UNCHANGED monitor
     ELSE Goto(k, "insert", NewRow(session[k], a), {}) /\ monitor' = k
  /\ UNCHANGED <<games, used, sessionVars, cleaner, late>>

Committed(r) == \E g \in Stored : SameKey(r, games[g])
Uncommitted(k, r) == \E j \in Requests \ {k} : pc[j] = "commitCreate" /\ SameKey(r, row[j])

\* em.persist: the row gets its id, and the session, whoever is logged in by now,
\* remembers it as the game it hosts before the row is committed.
Insert(k, g) ==
  /\ pc[k] = "insert"
  /\ ~Committed(row[k])
  /\ ~Uncommitted(k, row[k])
  /\ g \in FreshIds
  /\ used' = used \cup {g}
  /\ hostGame' = [hostGame EXCEPT ![session[k]] = g]
  /\ pc' = [pc EXCEPT ![k] = "commitCreate"]
  /\ game' = [game EXCEPT ![k] = g]
  /\ monitor' = Released(k)
  /\ UNCHANGED <<games, user, crossed, session, row, asker, cleaner, late>>

\* A committed row has one of the keys: the insert fails.
InsertRefused(k) ==
  /\ pc[k] = "insert"
  /\ Committed(row[k])
  /\ Answer(k)
  /\ monitor' = Released(k)
  /\ UNCHANGED <<games, used, sessionVars, cleaner, late>>

CommitCreate(k) ==
  /\ pc[k] = "commitCreate"
  /\ games' = [games EXCEPT ![game[k]] = row[k]]
  /\ late' = LateAfter
  /\ Answer(k)
  /\ UNCHANGED <<used, sessionVars, monitor, cleaner>>

CommitUpdate(k) ==
  LET g == game[k] IN
  /\ pc[k] = "commitUpdate"
  /\ games' = [games EXCEPT ![g] =
                 Written(g, IF g \in Stored THEN [@ EXCEPT !.age = row[k].age] ELSE row[k])]
  /\ late' = LateAfter
  /\ Answer(k)
  /\ UNCHANGED <<used, sessionVars, monitor, cleaner>>

\* The players of the game are a bag: its rows are deleted and written anew.
CommitValidate(k) ==
  LET g == game[k] IN
  /\ pc[k] = "commitValidate"
  /\ games' = [games EXCEPT ![g] =
                 Written(g, IF g \in Stored THEN [@ EXCEPT !.players = row[k].players] ELSE row[k])]
  /\ Answer(k)
  /\ UNCHANGED <<used, sessionVars, monitor, cleaner, late>>

CommitStop(k) ==
  /\ pc[k] = "commitStop"
  /\ games' = [games EXCEPT ![game[k]] = NoRow]
  /\ Answer(k)
  /\ UNCHANGED <<used, sessionVars, monitor, cleaner, late>>

\* A login, the first or another, puts a new SessionState into the session.  A
\* creation that is under way there for another user goes on.
Login(s, u) ==
  /\ user' = [user EXCEPT ![s] = u]
  /\ hostGame' = HostGameAfterLogin(s)
  /\ crossed' = IF \E k \in Requests : session[k] = s /\ pc[k] = "insert" /\ row[k].host # u
                THEN crossed \cup {s} ELSE crossed \ {s}
  /\ UNCHANGED <<games, used, requestVars, monitor, cleaner, late>>

-----------------------------------------------------------------------------
(* InactiveGameCleanerImpl.cleanOldGames, every minute *)

ListOldGames ==
  /\ cleaner.at = "idle"
  /\ cleaner' = CleanerAfter({g \in Stored : Stale(games[g])})
  /\ UNCHANGED <<games, used, sessionVars, requestVars, monitor, late>>

\* Re-select a listed game inside the monitor.  When it is gone, the method
\* fails on a null reference and the round is over.
Examine(g) ==
  /\ cleaner.at = "round"
  /\ g \in cleaner.list
  /\ monitor = Nobody
  /\ \/ /\ g \notin Stored
        /\ cleaner' = CleanerIdle
        /\ UNCHANGED monitor
     \/ /\ g \in Stored /\ ~Stale(games[g])
        /\ cleaner' = CleanerAfter(cleaner.list \ {g})
        /\ UNCHANGED monitor
     \/ /\ g \in Stored /\ Stale(games[g])
        /\ cleaner' = [cleaner EXCEPT !.at = "remove", !.game = g]
        /\ monitor' = Cleaner
  /\ UNCHANGED <<games, used, sessionVars, requestVars, late>>

\* GameRemover.removeGame, a transaction of its own inside the monitor, which
\* fails, and the round with it, when the row has gone since.
Remove ==
  /\ cleaner.at = "remove"
  /\ games' = [games EXCEPT ![cleaner.game] = NoRow]
  /\ cleaner' = IF cleaner.game \in Stored
                THEN CleanerAfter(cleaner.list \ {cleaner.game}) ELSE CleanerIdle
  /\ monitor' = Nobody
  /\ UNCHANGED <<used, sessionVars, requestVars, late>>

Older(r) ==
  IF r = NoRow THEN NoRow
  ELSE [r EXCEPT !.age = IF @ > Timeout THEN @ ELSE @ + 1]

Tick ==
  /\ games' = [g \in Games |-> Older(games[g])]
  /\ row' = [k \in Requests |-> Older(row[k])]
  /\ late' = LateAfter
  /\ UNCHANGED <<used, sessionVars, pc, session, game, asker, monitor, cleaner>>

-----------------------------------------------------------------------------
RequestStep(k) ==
  \/ UpdateFound(k) \/ StopFound(k) \/ (\E a \in Addresses : AdoptFound(k, a))
  \/ (\E g \in Games : Insert(k, g)) \/ InsertRefused(k)
  \/ CommitCreate(k) \/ CommitUpdate(k) \/ CommitValidate(k) \/ CommitStop(k)

CleanerStep == ListOldGames \/ (\E g \in Games : Examine(g)) \/ Remove

Arrive ==
  \E k \in Requests, s \in Sessions :
    \/ \E a \in Addresses : StartGame(k, s, a)
    \/ \E g \in Games : UpdateGame(k, s, g) \/ StopGame(k, s, g) \/ AdoptGame(k, s, g)
    \/ \E g \in Games, u \in Users : ValidateUser(k, s, g, u)

Next ==
  \/ Arrive
  \/ \E k \in Requests : RequestStep(k)
  \/ \E s \in Sessions, u \in Users : Login(s, u)
  \/ CleanerStep
  \/ Tick

\* A request that was begun is carried out, the scheduler keeps calling the
\* cleaner, and time passes.  The monitor and the locks of the database admit a
\* waiting thread in the end, hence the strong fairness of whoever waits there.
\* No client has to call anything.
Fairness ==
  /\ \A k \in Requests : SF_vars(RequestStep(k))
  /\ SF_vars(CleanerStep)
  /\ WF_vars(Tick)

Spec == Init /\ [][Next]_vars /\ Fairness

-----------------------------------------------------------------------------
(* Properties *)

Cleaners ==
  [at : {"idle", "round", "remove"}, list : SUBSET Games, game : Games \cup {NoGame}]

TypeOK ==
  /\ games \in [Games -> Rows \cup {NoRow}]
  /\ used \subseteq Games
  /\ user \in [Sessions -> Users]
  /\ hostGame \in [Sessions -> Games \cup {NoGame}]
  /\ crossed \subseteq Sessions
  /\ asker \in [Requests -> SUBSET Users]
  /\ pc \in [Requests -> Points]
  /\ session \in [Requests -> Sessions \cup {NoSession}]
  /\ game \in [Requests -> Games \cup {NoGame}]
  /\ row \in [Requests -> Rows \cup {NoRow}]
  /\ monitor \in Requests \cup {Nobody, Cleaner}
  /\ cleaner \in Cleaners
  /\ late \subseteq Games

\* The hostGameId of a session, if it names a stored game, names one of the user
\* who is logged in there, whatever logins, creations and commits overlap, with
\* one exception: that user logged in while a creation of another user's was
\* waiting for its row.  Of no game do two sessions hold the id.  Creation
\* remembers the id before it commits, and ids outlive rows.
HostGameIsOwn ==
  /\ \A s \in Sessions : hostGame[s] \in Stored =>
        games[hostGame[s]].host = user[s] \/ s \in crossed
  /\ \A s, t \in Sessions : hostGame[s] = hostGame[t] /\ hostGame[s] # NoGame => s = t

\* A game closes for one of two causes: its host was logged in when the directory
\* accepted to stop it, or it was overdue at some time.  A host that is never late never loses its game,
\* whatever the cleaner, other hosts and its own other requests do.
GameClosesForCause ==
  [][\A g \in Stored : games'[g] = NoRow =>
       \/ g \in late
       \/ \E k \in Requests : /\ pc[k] = "commitStop" /\ pc'[k] = "idle"
                              /\ game[k] = g /\ games[g].host \in asker[k]]_vars

\* The table implements the register: hosts and addresses are unique among
\* committed rows, and no late commit of an update or a validation brings back a
\* game that was removed meanwhile.
Pending(g) == \E k \in Requests : pc[k] = "commitCreate" /\ game[k] = g

Registry == INSTANCE GameRegistry WITH
  open    <- Stored,
  closed  <- {g \in used \ Stored : ~Pending(g)},
  host    <- [g \in Stored |-> games[g].host],
  address <- [g \in Stored |-> games[g].address]

ImplementsRegistry == Registry!Spec

\* A game nobody updates is cleaned up in the end, unless round after round is cut
\* short by a listed game that has gone, before the others were looked at.
Overdue(g) == g \in Stored /\ Stale(games[g])
CutShort == cleaner.at # "idle" /\ cleaner'.at = "idle" /\ Cardinality(cleaner.list) > 1

AbandonedGameCloses ==
  <>[][~CutShort]_vars => \A g \in Games : Overdue(g) ~> ~Overdue(g)

\* Every request is answered: the monitor and the waits for uncommitted rows
\* form no cycle.
RequestAnswered == \A k \in Requests : pc[k] # "idle" ~> pc[k] = "idle"

-----------------------------------------------------------------------------
(* What a comment of the code says, and the code does not do. *)

\* Re-selecting a game keeps the cleaner from removing one that was refreshed.
RemovedGameIsStale ==
  [][\A g \in Stored : games'[g] = NoRow /\ cleaner' # cleaner => Stale(games[g])]_vars

=============================================================================
