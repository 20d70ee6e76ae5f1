------------------------------- MODULE GameMesh -------------------------------
(***************************************************************************)
(* GameClient: programs that host a game, join one, and take it over when  *)
(* its host is gone.  A client has three kinds of threads: the application *)
(* (startGame, joinGame, killClient), the dispatcher (GameClient::run),    *)
(* which takes packets one at a time, and the pool, which runs the tasks   *)
(* the dispatcher submits in any order, also after the client was stopped. *)
(* The directory is the register of GameRegistry: a request that a client  *)
(* waits for is a step, one a task waits for is two, its effect at the     *)
(* directory and its answer.                                               *)
(*                                                                         *)
(* RakNet is external.  A client gets a new guid with every life of its    *)
(* peer; members connect to the host only (SetConnectOnNewRemoteConnection *)
(* is false), so a member that loses its host is the host of a mesh of its *)
(* own.  The plugins run inside Receive: what they know is as old as the   *)
(* packets the dispatcher took.  stopClient closes without a notification: *)
(* the others see a lost connection, as after a crash.                     *)
(*                                                                         *)
(* Left out: tasks that tell the application of an event, and the refresh  *)
(* of a game by DirectoryUpdateTask, which changes nothing of the client;  *)
(* what the refresh does at the directory is Refreshed.  A second task     *)
(* equal to one that is pending would do what the first does: tasks are a  *)
(* set.                                                                    *)
(***************************************************************************)
EXTENDS Naturals, FiniteSets, Sequences

CONSTANTS
  Clients, Users,
  UserOf,        \* who is logged in at a client
  Lives,         \* bound: how often each client plays
  MaxGames,      \* bound: games the directory ever opens
  MaxIncoming,   \* SetMaximumIncomingConnections
  NoClient,      \* nobody to connect to
  NoRecord       \* theGameImPlaying is NULL

ASSUME MeshAssumption ==
  /\ UserOf \in [Clients -> Users]
  /\ Lives \in [Clients -> Nat]
  /\ MaxGames \in Nat /\ MaxIncoming \in Nat
  /\ NoClient \notin Clients

Games == 1 .. MaxGames
NoGame == 0

\* A peer in one of its lives, for RakNetGUID.
Guids == UNION {{c} \X (1 .. Lives[c]) : c \in Clients}
NoGuid == <<NoClient, 0>>

\* What a client knows of its game: an id, and the guid of its host.  The
\* answer to a refused adoption is parsed into a record without either.
Records == [id : Games, host : Guids]
EmptyRecord == [id |-> NoGame, host |-> NoGuid]
ASSUME RecordAssumption == NoRecord \notin Records \cup {EmptyRecord}

VARIABLES
  open, closed, host, address,   \* the directory's register
  client,    \* of each client, the fields of GameClient and of its session
  packets,   \* of each client, what rakPeer->Receive will return
  tasks,     \* of each client, the tasks its pool has not finished
  link,      \* the connections, <<joiner, joined>>
  banned     \* AddToBanList: <<who bans, the client banned>>

vars == <<open, closed, host, address, client, packets, tasks, link, banned>>
directory == <<open, closed, host, address>>

Directory == INSTANCE GameRegistry WITH Addresses <- Guids

Guid(c) == <<c, client[c].life>>

Unstarted ==
  [app |-> "out", life |-> 0, record |-> NoRecord, creator |-> FALSE, hostGame |-> NoGame,
   players |-> {}, joining |-> NoClient, fcmHost |-> NoGuid]

\* After stopClient: every field as at first, but for creator.
Stopped(c) == [Unstarted EXCEPT !.life = client[c].life, !.creator = client[c].creator]
Dead(c) == [Stopped(c) EXCEPT !.app = "dead"]

Listed(u) == \E g \in open : host[g] = u
NewGame == Cardinality(open \cup closed) + 1

Peers(c) == {g \in Guids : <<Guid(c), g>> \in link \/ <<g, Guid(c)>> \in link}
Incoming(c) == {l \in link : l[2] = Guid(c)}
Packet(type, c) == [type |-> type, from |-> Guid(c)]
Task(kind, peer) == [kind |-> kind, peer |-> peer, record |-> NoRecord, old |-> FALSE]

\* The mailboxes after c sends to those of its peers that are in to.
Sent(c, to, type) ==
  [p \in Clients |->
     IF Guid(p) \in Peers(c) \cap to THEN Append(packets[p], Packet(type, c)) ELSE packets[p]]

\* Parts of the code, each after a fault one could put into it; the Fault...
\* are in no specification, they are what the properties are tried against.

\* stopDirectoryClient: is the game mine to delete?  The fault asks whether this
\* client created one.
FaultOwnsRecord(c) == client[c].creator
OwnsRecord(c) == client[c].record.host = Guid(c)

\* What the dispatcher submits to a host that has just become one; the fault
\* takes every host for the creator of the game.
FaultHostTask(c) == Task("announce", NoGuid)
HostTask(c) == Task(IF client[c].creator THEN "announce" ELSE "adopt", NoGuid)

\* The record made of the answer to an adoption; the fault keeps the id.
FaultAdopted(c, g) == [id |-> client[c].record.id, host |-> Guid(c)]
Adopted(c, g) == [id |-> g, host |-> Guid(c)]

\* The record after a full host refused the connection; the fault leaves an id.
FaultNoFreeRecord(c) == [id |-> client[c].record.id, host |-> NoGuid]
NoFreeRecord(c) == NoRecord

\* The host's players once p is admitted; the fault accepts p without listing it.
FaultWithPlayer(c, p) == client[c].players
WithPlayer(c, p) == client[c].players \cup {p}

\* The messages a player that is not listed yet may send, and the task each is
\* handed to; the fault forgets the answer to a challenge.
FaultStrangerTask == [CHALLENGE |-> "challenge", ACCEPTED |-> "accepted"]
StrangerTask == [CHALLENGE |-> "challenge", RESPONSE |-> "response", ACCEPTED |-> "accepted"]

\* The host of g plays it and refreshes it, with the session that opened it.
Refreshed(g) ==
  \E c \in Clients : /\ client[c].app = "in"
                     /\ client[c].record = [id |-> g, host |-> Guid(c)]
                     /\ client[c].hostGame = g

Init ==
  /\ Directory!Init
  /\ client = [c \in Clients |-> Unstarted]
  /\ packets = [c \in Clients |-> <<>>]
  /\ tasks = [c \in Clients |-> {}]
  /\ link = {}
  /\ banned = {}

-----------------------------------------------------------------------------
(* The calls of DirectoryClient.  One that opens a game succeeds when neither  *)
(* the user nor the address is listed; one that is not allowed to delete the   *)
(* game is answered like one that is.                                          *)

OpensGame(c, guid) ==
  /\ NewGame \in Games
  /\ Directory!Open(NewGame, UserOf[c], guid)

DeleteGame(c, id) ==
  IF client[c].hostGame = id /\ id \in open THEN Directory!Close(id) ELSE UNCHANGED directory

\* validateUser of a user who exists, for the game of our record.
Validated(c) == client[c].record.id \in open

-----------------------------------------------------------------------------
(* The application *)

\* startClient, then startGame.  When the directory refuses the game, stopClient
\* leaves everything as it was.
StartGame(c) ==
  LET n == client[c].life + 1 IN
  /\ client[c].app = "out"
  /\ n <= Lives[c]
  /\ OpensGame(c, <<c, n>>)
  /\ client' = [client EXCEPT ![c] =
       [Unstarted EXCEPT !.app = "in", !.life = n, !.creator = TRUE, !.hostGame = NewGame,
                         !.record = [id |-> NewGame, host |-> <<c, n>>], !.players = {<<c, n>>}]]
  /\ UNCHANGED <<packets, tasks, link, banned>>

\* startClient, then joinGame with a game of the list; Connect returns at once.
JoinGame(c, g) ==
  LET n == client[c].life + 1 IN
  /\ client[c].app = "out"
  /\ n <= Lives[c]
  /\ g \in open
  /\ address[g][1] # c
  /\ client' = [client EXCEPT ![c] =
       [Stopped(c) EXCEPT !.app = "in", !.life = n, !.joining = address[g][1],
                          !.record = [id |-> g, host |-> address[g]], !.players = {<<c, n>>}]]
  /\ UNCHANGED <<directory, packets, tasks, link, banned>>

\* c is gone from the mesh, as gone: the others' connections to it break.
LeaveMesh(c, gone) ==
  /\ client' = [client EXCEPT ![c] = gone]
  /\ packets' = [Sent(c, Guids, "LOST") EXCEPT ![c] = <<>>]
  /\ link' = {l \in link : Guid(c) \notin {l[1], l[2]}}

\* The process ends without a word.
Die(c) ==
  /\ LeaveMesh(c, Dead(c))
  /\ tasks' = [tasks EXCEPT ![c] = {}]
  /\ UNCHANGED banned

\* killClient: the dispatcher is over, stopDirectoryClient deletes the game if
\* it is ours.  A record without a host's guid is a null pointer to strcmp.
KillClient(c) ==
  /\ client[c].app = "in"
  /\ IF client[c].record = EmptyRecord
     THEN Die(c) /\ UNCHANGED directory
     ELSE /\ IF client[c].record # NoRecord /\ OwnsRecord(c)
             THEN DeleteGame(c, client[c].record.id) ELSE UNCHANGED directory
          /\ client' = [client EXCEPT ![c].app = "closing", ![c].record = NoRecord]
          /\ UNCHANGED <<packets, tasks, link, banned>>

\* The rest of stopClient: the peer is destroyed, which an adoption that has not
\* begun still has a pointer to.
FinishStop(c) ==
  /\ client[c].app = "closing"
  /\ LeaveMesh(c, Stopped(c))
  /\ tasks' = [tasks EXCEPT ![c] = {[t EXCEPT !.old = (t.kind = "adopt")] : t \in @}]
  /\ UNCHANGED <<directory, banned>>

Crash(c) ==
  /\ client[c].app \in {"in", "closing"}
  /\ Die(c)
  /\ UNCHANGED directory

-----------------------------------------------------------------------------
(* RakNet, for a client that connects *)

Connected(c, h) ==
  /\ client[h].app \in {"in", "closing"}
  /\ <<Guid(h), c>> \notin banned

Connect(c) ==
  LET h == client[c].joining IN
  /\ h # NoClient
  /\ client' = [client EXCEPT ![c].joining = NoClient]
  /\ CASE Connected(c, h) /\ Cardinality(Incoming(h)) < MaxIncoming ->
            /\ link' = link \cup {<<Guid(c), Guid(h)>>}
            /\ packets' = [packets EXCEPT ![h] = Append(@, Packet("INCOMING", c))]
       [] Connected(c, h) /\ Cardinality(Incoming(h)) >= MaxIncoming ->
            /\ packets' = [packets EXCEPT ![c] = Append(@, Packet("NO_FREE", c))]
            /\ UNCHANGED link
       [] OTHER -> UNCHANGED <<packets, link>>
  /\ UNCHANGED <<directory, tasks, banned>>

-----------------------------------------------------------------------------
(* The dispatcher *)

Received(c, type) ==
  /\ client[c].app = "in"
  /\ packets[c] # <<>>
  /\ Head(packets[c]).type = type

Receive(c, type) ==
  /\ Received(c, type)
  /\ packets' = [packets EXCEPT ![c] = Tail(@)]

From(c) == Head(packets[c]).from

\* A null game is dereferenced after the packet's work: run catches it, and the
\* dispatcher begins to stop the client itself.
Alive(c) == IF client[c].record = NoRecord THEN "closing" ELSE "in"

\* A member that lost its host is the host of what is left, and told so next.
ConnectionLost(c) ==
  LET orphaned == client[c].fcmHost = From(c) IN
  /\ Received(c, "LOST")
  /\ packets' = [packets EXCEPT ![c] =
                   (IF orphaned THEN <<Packet("NEW_HOST", c)>> ELSE <<>>) \o Tail(@)]
  /\ client' = [client EXCEPT ![c].players = @ \ {From(c)}, ![c].app = Alive(c),
                              ![c].fcmHost = IF orphaned THEN Guid(c) ELSE @]
  /\ UNCHANGED <<directory, tasks, link, banned>>

NewConnection(c) ==
  LET alive == client[c].record # NoRecord IN
  /\ Received(c, "INCOMING")
  /\ packets' = [(IF alive THEN Sent(c, {From(c)}, "CHALLENGE") ELSE packets)
                   EXCEPT ![c] = Tail(@)]
  /\ client' = [client EXCEPT ![c].app = Alive(c)]
  /\ UNCHANGED <<directory, tasks, link, banned>>

NoFreeConnections(c) ==
  /\ Receive(c, "NO_FREE")
  /\ client' = [client EXCEPT ![c].record = NoFreeRecord(c)]
  /\ UNCHANGED <<directory, tasks, link, banned>>

NewHost(c) ==
  LET isHost == From(c) = Guid(c) IN
  /\ Receive(c, "NEW_HOST")
  /\ tasks' = IF isHost /\ client[c].record # NoRecord
              THEN [tasks EXCEPT ![c] = @ \cup {HostTask(c)}] ELSE tasks
  /\ client' = [client EXCEPT ![c].fcmHost = From(c),
                              ![c].app = IF isHost THEN Alive(c) ELSE @]
  /\ UNCHANGED <<directory, link, banned>>

\* handleProtocolMessage: a handshake for those who are not listed, the listed
\* ones' messages are events.
ProtocolMessage(c) ==
  \E type \in {"CHALLENGE", "RESPONSE", "ACCEPTED", "NEWHOST"} :
    /\ Receive(c, type)
    /\ tasks' = IF From(c) \notin client[c].players /\ type \in DOMAIN StrangerTask
                THEN [tasks EXCEPT ![c] = @ \cup {Task(StrangerTask[type], From(c))}]
                ELSE tasks
    /\ UNCHANGED <<directory, client, link, banned>>

-----------------------------------------------------------------------------
(* The tasks of the pool.  One that uses the peer or the mesh of a client that *)
(* was stopped goes through a null pointer; one that asks for its game throws. *)

Started(c) == client[c].app \in {"in", "closing"}

\* The task is over, and leaves next behind, its other half.
Done(c, t, next) == tasks' = [tasks EXCEPT ![c] = (@ \ {t}) \cup next]

ChallengeTask(c, t) ==
  /\ t.kind = "challenge"
  /\ IF Started(c)
     THEN /\ packets' = Sent(c, {t.peer}, "RESPONSE")
          /\ Done(c, t, {})
          /\ UNCHANGED <<client, link, banned>>
     ELSE Die(c)
  /\ UNCHANGED directory

\* The directory is asked whether the player may join the game of our record.
ResponseTask(c, t) ==
  /\ t.kind = "response"
  /\ Done(c, t, IF client[c].record = NoRecord THEN {}
                ELSE {Task(IF Validated(c) THEN "admit" ELSE "boot", t.peer)})
  /\ UNCHANGED <<directory, client, packets, link, banned>>

\* The player is listed, made a participant and told.
AdmitTask(c, t) ==
  LET p == t.peer
      joins == p \in Peers(c)
      first == client[c].fcmHost = NoGuid
      told == Sent(c, {p}, "ACCEPTED") IN
  /\ t.kind = "admit"
  /\ IF ~Started(c) THEN Die(c)
     ELSE /\ client' = [client EXCEPT ![c].players = WithPlayer(c, p),
                                      ![c].fcmHost = IF joins /\ first THEN Guid(c) ELSE @]
          /\ packets' = [d \in Clients |->
               IF joins /\ (d = p[1] \/ (d = c /\ first))
               THEN Append(told[d], Packet("NEW_HOST", c)) ELSE told[d]]
          /\ Done(c, t, {})
          /\ UNCHANGED <<link, banned>>
  /\ UNCHANGED directory

\* bootPlayer: off the list, banned, and its connection closed without a word.
BootTask(c, t) ==
  LET p == t.peer IN
  /\ t.kind = "boot"
  /\ IF ~Started(c) THEN Die(c)
     ELSE /\ client' = [client EXCEPT ![c].players = @ \ {p}]
          /\ banned' = banned \cup {<<Guid(c), p[1]>>}
          /\ link' = link \ {<<p, Guid(c)>>, <<Guid(c), p>>}
          /\ packets' = IF p \in Peers(c)
                        THEN [packets EXCEPT ![p[1]] = Append(@, Packet("LOST", c))] ELSE packets
          /\ Done(c, t, {})
  /\ UNCHANGED directory

AcceptedTask(c, t) ==
  /\ t.kind = "accepted"
  /\ client' = [client EXCEPT ![c].players = @ \cup {t.peer}]
  /\ Done(c, t, {})
  /\ UNCHANGED <<directory, packets, link, banned>>

\* DirectoryAdoptTask asks the directory for a game of its own in place of the
\* one in our record, unless that one is still there and was this user's too.
\* What the unique keys or the directory refuse is answered like a game.
AdoptTask(c, t) ==
  LET answer == [t EXCEPT !.kind = "adopted"] IN
  /\ t.kind = "adopt" /\ ~t.old
  /\ CASE client[c].record = NoRecord ->
            Done(c, t, {}) /\ UNCHANGED <<directory, client>>
       [] client[c].record # NoRecord /\ Listed(UserOf[c]) ->
            /\ Done(c, t, {[answer EXCEPT !.record = EmptyRecord]})
            /\ UNCHANGED <<directory, client>>
       [] client[c].record # NoRecord /\ ~Listed(UserOf[c]) ->
            /\ OpensGame(c, Guid(c))
            /\ Done(c, t, {[answer EXCEPT !.record = Adopted(c, NewGame)]})
            /\ client' = [client EXCEPT ![c].hostGame = NewGame]
  /\ UNCHANGED <<packets, link, banned>>

\* An adoption that begins after stopClient reads a peer and a host name that
\* were deleted: an exception at best.
OldAdoptTask(c, t) ==
  /\ t.kind = "adopt" /\ t.old
  /\ \/ Done(c, t, {}) /\ UNCHANGED <<client, packets, link, banned>>
     \/ Die(c)
  /\ UNCHANGED directory

\* The answer becomes our record, and all players are told of their new host.
AdoptedTask(c, t) ==
  /\ t.kind = "adopted"
  /\ IF Started(c)
     THEN /\ client' = [client EXCEPT ![c].record = t.record]
          /\ packets' = Sent(c, Guids, "NEWHOST")
          /\ Done(c, t, {})
          /\ UNCHANGED <<link, banned>>
     ELSE Die(c)
  /\ UNCHANGED directory

\* The creator only tells the players.
AnnounceTask(c, t) ==
  /\ t.kind = "announce"
  /\ packets' = IF client[c].record = NoRecord THEN packets ELSE Sent(c, Guids, "NEWHOST")
  /\ Done(c, t, {})
  /\ UNCHANGED <<directory, client, link, banned>>

-----------------------------------------------------------------------------
\* The directory's cleaner removes a game.
CleanUp(g) ==
  /\ g \in open
  /\ Directory!Close(g)
  /\ UNCHANGED <<client, packets, tasks, link, banned>>

\* An assumption about time: the cleaner removes no game that its host refreshes,
\* and none whose adoption is not answered yet.  The code has no guard to that
\* effect: a game is removed after two minutes, and refreshed every 45 seconds.
Timely(g) ==
  /\ ~Refreshed(g)
  /\ \A c \in Clients : \A t \in tasks[c] : t.kind = "adopted" => t.record.id # g

Dispatch(c) ==
  ConnectionLost(c) \/ NewConnection(c) \/ NoFreeConnections(c) \/ NewHost(c) \/ ProtocolMessage(c)

RunTask(c) ==
  \E t \in tasks[c] :
    \/ ChallengeTask(c, t) \/ ResponseTask(c, t) \/ AdmitTask(c, t) \/ BootTask(c, t)
    \/ AcceptedTask(c, t) \/ AdoptTask(c, t) \/ OldAdoptTask(c, t) \/ AdoptedTask(c, t)
    \/ AnnounceTask(c, t)

Application(c) ==
  StartGame(c) \/ (\E g \in Games : JoinGame(c, g)) \/ KillClient(c) \/ Crash(c)

Next ==
  \/ \E c \in Clients : Application(c) \/ FinishStop(c) \/ Connect(c) \/ Dispatch(c) \/ RunTask(c)
  \/ \E g \in Games : Timely(g) /\ CleanUp(g)

\* Packets are received, tasks are run, what was begun is carried out; nobody
\* has to play, to stop or to crash.
Fairness ==
  /\ \A c \in Clients : /\ WF_vars(Dispatch(c)) /\ WF_vars(RunTask(c))
                        /\ WF_vars(Connect(c)) /\ WF_vars(FinishStop(c))
  /\ \A g \in Games : WF_vars(Timely(g) /\ CleanUp(g))

Spec == Init /\ [][Next]_vars /\ Fairness

-----------------------------------------------------------------------------
(* Properties *)

PacketType ==
  {"LOST", "INCOMING", "NO_FREE", "NEW_HOST", "CHALLENGE", "RESPONSE", "ACCEPTED", "NEWHOST"}
TaskKind ==
  {"challenge", "response", "admit", "boot", "accepted", "adopt", "adopted", "announce"}
AnyRecord == Records \cup {EmptyRecord, NoRecord}

ClientState ==
  [app : {"out", "in", "closing", "dead"}, life : Nat, record : AnyRecord,
   creator : BOOLEAN, hostGame : Games \cup {NoGame}, players : SUBSET Guids,
   joining : Clients \cup {NoClient}, fcmHost : Guids \cup {NoGuid}]

Tasks == [kind : TaskKind, peer : Guids \cup {NoGuid}, record : AnyRecord, old : BOOLEAN]

TypeOK ==
  /\ open \subseteq Games /\ closed \subseteq Games
  /\ host \in [open -> Users] /\ address \in [open -> Guids]
  /\ client \in [Clients -> ClientState]
  /\ packets \in [Clients -> Seq([type : PacketType, from : Guids])]
  /\ tasks \in [Clients -> SUBSET Tasks]
  /\ link \subseteq Guids \X Guids
  /\ banned \subseteq Guids \X Clients

\* A client whose record says that it is the host has that game in the
\* directory, under its user, and with the session that may refresh and delete
\* it.  Adoptions, refusals and the cleaner must never part the three.
HostKeepsGame ==
  \A c \in Clients :
    LET g == client[c].record.id IN
    client[c].app = "in" /\ client[c].record # NoRecord /\ client[c].record.host = Guid(c)
      => /\ g \in open /\ host[g] = UserOf[c] /\ address[g] = Guid(c)
         /\ client[c].hostGame = g

\* A client that stops leaves no game of this life in the directory, unless an
\* adoption was under way.  (In a later life a full host may have refused it after
\* those who followed a listing of its earlier life had made it a host; then it
\* has no record to delete the game by.)
StopUnregisters ==
  [][\A c \in Clients :
       client[c].app = "in" /\ client'[c].app = "closing"
         /\ (client[c].life = 1 \/ client[c].record # NoRecord)
         /\ (\A t \in tasks[c] : t.kind \notin {"adopt", "adopted"})
       => \A g \in open' : address'[g] # Guid(c)]_vars

\* Whoever lists the host it is connected to is on that host's list: acceptance
\* follows admission, whatever was lost or booted meanwhile.  The player is in
\* its first life (a task of an earlier one may list the host before it is
\* asked), the host in any.
MutualKnowledge ==
  \A l \in link :
    client[l[1][1]].life = 1 /\ l[2] \in client[l[1][1]].players
      => l[1] \in client[l[2][1]].players

\* A player that lost its host becomes a host that is listed in the directory,
\* or leaves, or is refused because its user hosts elsewhere; unless it was the
\* creator of an earlier game.  (A listing needs an id the bound has left.)
Orphan(c) ==
  client[c].app = "in" /\ client[c].fcmHost = Guid(c)
Settled(c) ==
  \/ client[c].app # "in" \/ Listed(UserOf[c])
  \/ client[c].record = EmptyRecord \/ NewGame \notin Games
OrphanRegisters ==
  \A c \in Clients : Orphan(c) /\ ~client[c].creator ~> Settled(c)

\* A handshake ends: the two know each other, or are parted.
HandshakeEnds ==
  \A c, h \in Clients :
    <<Guid(c), Guid(h)>> \in link
      ~> \/ <<Guid(c), Guid(h)>> \notin link
         \/ Guid(c) \in client[h].players /\ Guid(h) \in client[c].players

-----------------------------------------------------------------------------
(* What comments of the code say, and the code does not do. *)

\* "let the new host create a new one": also if it created a game before.
EveryOrphanRegisters ==
  \A c \in Clients : Orphan(c) ~> Settled(c)

=============================================================================
