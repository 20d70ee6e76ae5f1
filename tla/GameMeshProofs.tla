---------------------------- MODULE GameMeshProofs ----------------------------
(***************************************************************************)
(* Theorems about GameMesh, for every set of clients and users, however    *)
(* often the clients play, and any number of games and connections.        *)
(*                                                                         *)
(* A client takes its game from the answer to a task that may have been    *)
(* submitted in an earlier life.  The invariant is about all the records a *)
(* client has or is about to get: what any of them claims is so.           *)
(***************************************************************************)
EXTENDS GameMesh, SequenceTheorems, TLAPS

-----------------------------------------------------------------------------
(* The inductive invariant *)

Packets == [type : PacketType, from : Guids]

\* A client that plays has a guid.
ClientOK(c) ==
  /\ client[c].life <= Lives[c]
  /\ \/ client[c].app \in {"in", "closing"}
     \/ client[c].record # NoRecord
     \/ client[c].joining # NoClient
     => client[c].life >= 1

\* A task for a peer has one, and an answer has a record, which is of a life
\* that the client has begun.
TaskOK(c, t) ==
  /\ t.kind \in {"challenge", "response", "admit", "boot", "accepted"} => t.peer \in Guids
  /\ t.kind = "adopted" =>
       /\ t.record # NoRecord
       /\ t.record.host[1] = c => t.record.host[2] <= client[c].life

TypeInv ==
  /\ TypeOK
  /\ \A c \in Clients : ClientOK(c) /\ \A t \in tasks[c] : TaskOK(c, t)

\* The records that a client has, or that a task of it will make its own.
Claims(c) == {client[c].record} \cup {t.record : t \in {x \in tasks[c] : x.kind = "adopted"}}

Lists(c, id) ==
  id \in open /\ host[id] = UserOf[c] /\ address[id] = Guid(c) /\ client[c].hostGame = id

ClaimsKept ==
  \A c \in Clients :
    client[c].app = "in" =>
      \A r \in Claims(c) : r # NoRecord /\ r.host = Guid(c) => Lists(c, r.id)

IInv == TypeInv /\ ClaimsKept

-----------------------------------------------------------------------------
(* Lemmas *)

\* A guid is a client's, in one of its lives.
LEMMA GuidParts ==
  /\ \A g \in Guids : g[1] \in Clients /\ g[2] \in Nat /\ g = <<g[1], g[2]>>
  /\ \A c \in Clients, n \in Nat : n >= 1 /\ n <= Lives[c] => <<c, n>> \in Guids
  BY MeshAssumption DEF Guids

\* No record and the empty record are nobody's.
LEMMA NobodysRecords ==
  /\ NoRecord \notin Records /\ NoRecord # EmptyRecord
  /\ \A c \in Clients : \A n : EmptyRecord.host # <<c, n>>
  BY RecordAssumption, MeshAssumption DEF EmptyRecord, NoGuid

\* A client of which there is more than its fields at first has a guid.
LEMMA HasGuid ==
  ASSUME TypeInv, NEW c \in Clients, client[c].life >= 1
  PROVE  Guid(c) \in Guids
  <1>1. client[c].life \in Nat /\ client[c].life <= Lives[c]
    BY DEF TypeInv, TypeOK, ClientOK, ClientState
  <1> QED
    BY <1>1, GuidParts DEF Guid

\* A connection is between two guids.
LEMMA PeersHaveGuids ==
  ASSUME TypeInv, NEW c \in Clients, NEW g \in Peers(c)
  PROVE  Guid(c) \in Guids /\ g \in Guids
  BY DEF Peers, TypeInv, TypeOK

\* What is sent is a packet.
LEMMA Sending ==
  ASSUME TypeInv, NEW c \in Clients, NEW to, NEW type \in PacketType
  PROVE  Sent(c, to, type) \in [Clients -> Seq(Packets)]
  <1>1. packets \in [Clients -> Seq(Packets)]
    BY DEF TypeInv, TypeOK, Packets
  <1>2. ASSUME NEW p \in Clients, Guid(p) \in Peers(c) \cap to
        PROVE  Append(packets[p], Packet(type, c)) \in Seq(Packets)
    <2>1. Packet(type, c) \in Packets
      BY <1>2, PeersHaveGuids DEF Packet, Packets
    <2> QED
      BY <1>1, <2>1
  <1> QED
    BY <1>1, <1>2 DEF Sent

\* What a step does to one client, to its tasks and to the directory, while it
\* leaves the other clients and what they list alone.
LEMMA ClientStep ==
  ASSUME IInv, NEW c \in Clients, NEW r \in ClientState, NEW T \in SUBSET Tasks,
         client' = [client EXCEPT ![c] = r], tasks' = [tasks EXCEPT ![c] = T],
         open' \subseteq Games, closed' \subseteq Games,
         host' \in [open' -> Users], address' \in [open' -> Guids],
         packets' \in [Clients -> Seq(Packets)],
         link' \subseteq Guids \X Guids, banned' \subseteq Guids \X Clients,
         r.life <= Lives[c], client[c].life <= r.life,
         \/ r.app \in {"in", "closing"} \/ r.record # NoRecord \/ r.joining # NoClient
         => r.life >= 1,
         \A t \in T : TaskOK(c, t),
         \A d \in Clients \ {c} : \A id \in Games :
           Lists(d, id) => id \in open' /\ host'[id] = host[id] /\ address'[id] = address[id],
         r.app = "in" =>
           \A q \in {r.record} \cup {t.record : t \in {x \in T : x.kind = "adopted"}} :
             q # NoRecord /\ q.host = <<c, r.life>> =>
               /\ q.id \in open' /\ host'[q.id] = UserOf[c] /\ address'[q.id] = <<c, r.life>>
               /\ r.hostGame = q.id
  PROVE  IInv'
  <1>1. /\ client \in [Clients -> ClientState] /\ tasks \in [Clients -> SUBSET Tasks]
        /\ open \subseteq Games
    BY DEF IInv, TypeInv, TypeOK
  <1>2. /\ client'[c] = r /\ tasks'[c] = T
        /\ \A d \in Clients \ {c} : client'[d] = client[d] /\ tasks'[d] = tasks[d]
    BY <1>1
  <1>3. client' \in [Clients -> ClientState] /\ tasks' \in [Clients -> SUBSET Tasks]
    BY <1>1
  <1>4. TypeOK'
    BY <1>3 DEF TypeOK, Packets
  <1>5. ASSUME NEW d \in Clients
        PROVE  ClientOK(d)' /\ \A t \in tasks'[d] : TaskOK(d, t)'
    <2>1. CASE d = c
      <3>1. ClientOK(d)'
        BY <1>2, <2>1 DEF ClientOK
      <3>2. ASSUME NEW t \in T
            PROVE  TaskOK(c, t)'
        <4>1. TaskOK(c, t) /\ t \in Tasks
          OBVIOUS
        <4>2. r.life \in Nat /\ client[c].life \in Nat
          BY <1>1 DEF ClientState
        <4>3. t.kind = "adopted" /\ t.record.host[1] = c => t.record.host[2] <= r.life
          <5> SUFFICES ASSUME t.kind = "adopted", t.record.host[1] = c
                       PROVE  t.record.host[2] <= r.life
            OBVIOUS
          <5>1. t.record \in Records \cup {EmptyRecord}
            BY <4>1 DEF TaskOK, Tasks, AnyRecord
          <5>2. t.record.host[2] \in Nat
            BY <5>1, GuidParts DEF Records, EmptyRecord, NoGuid
          <5> QED
            BY <4>1, <4>2, <5>2 DEF TaskOK
        <4> QED
          BY <1>2, <4>1, <4>3 DEF TaskOK
      <3> QED
        BY <1>2, <2>1, <3>1, <3>2
    <2>2. CASE d # c
      <3>1. ClientOK(d) /\ \A t \in tasks[d] : TaskOK(d, t)
        BY DEF IInv, TypeInv
      <3> QED
        BY <1>2, <2>2, <3>1 DEF ClientOK, TaskOK
    <2> QED
      BY <2>1, <2>2
  <1>6. ClaimsKept'
    <2> SUFFICES ASSUME NEW d \in Clients, client'[d].app = "in",
                        NEW q \in Claims(d)', q # NoRecord, q.host = Guid(d)'
                 PROVE  Lists(d, q.id)'
      BY DEF ClaimsKept
    <2>1. CASE d = c
      <3>1. Guid(c)' = <<c, r.life>>
        BY <1>2 DEF Guid
      <3>2. q \in {r.record} \cup {t.record : t \in {x \in T : x.kind = "adopted"}}
        BY <1>2, <2>1 DEF Claims
      <3> QED
        BY <1>2, <2>1, <3>1, <3>2 DEF Lists
    <2>2. CASE d # c
      <3>1. q \in Claims(d) /\ client[d].app = "in" /\ Guid(d)' = Guid(d)
        BY <1>2, <2>2 DEF Claims, Guid
      <3>2. Lists(d, q.id)
        BY <3>1 DEF IInv, ClaimsKept
      <3>3. q.id \in Games
        BY <1>1, <3>2 DEF Lists
      <3> QED
        BY <1>2, <2>2, <3>1, <3>2, <3>3 DEF Lists
    <2> QED
      BY <2>1, <2>2
  <1> QED
    BY <1>4, <1>5, <1>6 DEF IInv, TypeInv

\* A step of a client that claims nothing new, nor changes the directory.
LEMMA QuietStep ==
  ASSUME IInv, NEW c \in Clients, NEW r \in ClientState, NEW T \in SUBSET Tasks,
         client' = [client EXCEPT ![c] = r], tasks' = [tasks EXCEPT ![c] = T],
         UNCHANGED directory,
         packets' \in [Clients -> Seq(Packets)],
         link' \subseteq Guids \X Guids, banned' \subseteq Guids \X Clients,
         r.life = client[c].life,
         \/ r.app \in {"in", "closing"} \/ r.record # NoRecord \/ r.joining # NoClient
         => r.life >= 1,
         \A t \in T : TaskOK(c, t),
         r.app = "in" =>
           /\ client[c].app = "in" /\ r.hostGame = client[c].hostGame
           /\ r.record \in Claims(c) \cup {NoRecord, EmptyRecord}
           /\ \A t \in T : t.kind = "adopted" => t.record \in Claims(c) \cup {EmptyRecord}
  PROVE  IInv'
  <1>1. /\ open \subseteq Games /\ closed \subseteq Games
        /\ host \in [open -> Users] /\ address \in [open -> Guids]
        /\ client \in [Clients -> ClientState] /\ client[c].life <= Lives[c]
        /\ open' = open /\ closed' = closed /\ host' = host /\ address' = address
    BY DEF IInv, TypeInv, TypeOK, ClientOK, directory
  <1>2. client[c].life <= r.life /\ r.life <= Lives[c]
    BY <1>1 DEF ClientState
  <1>3. r.app = "in" =>
          \A q \in {r.record} \cup {t.record : t \in {x \in T : x.kind = "adopted"}} :
            q # NoRecord /\ q.host = <<c, r.life>> =>
               /\ q.id \in open /\ host[q.id] = UserOf[c] /\ address[q.id] = <<c, r.life>>
               /\ r.hostGame = q.id
    <2> SUFFICES ASSUME r.app = "in",
                        NEW q \in {r.record} \cup {t.record : t \in {x \in T : x.kind = "adopted"}},
                        q # NoRecord, q.host = <<c, r.life>>
                 PROVE  /\ q.id \in open /\ host[q.id] = UserOf[c] /\ address[q.id] = <<c, r.life>>
                        /\ r.hostGame = q.id
      OBVIOUS
    <2>1. q \in Claims(c) /\ Guid(c) = <<c, r.life>>
      BY NobodysRecords DEF Guid
    <2>2. Lists(c, q.id)
      BY <2>1 DEF IInv, ClaimsKept
    <2> QED
      BY <2>1, <2>2 DEF Lists
  <1>4. \A d \in Clients \ {c} : \A id \in Games :
          Lists(d, id) => id \in open' /\ host'[id] = host[id] /\ address'[id] = address[id]
    BY <1>1 DEF Lists
  <1> QED
    BY <1>1, <1>2, <1>3, <1>4, ClientStep

\* What the types say of a client.
LEMMA Typed ==
  ASSUME IInv, NEW c \in Clients
  PROVE  /\ client \in [Clients -> ClientState] /\ tasks \in [Clients -> SUBSET Tasks]
         /\ packets \in [Clients -> Seq(Packets)]
         /\ link \subseteq Guids \X Guids /\ banned \subseteq Guids \X Clients
         /\ client = [client EXCEPT ![c] = client[c]] /\ tasks = [tasks EXCEPT ![c] = tasks[c]]
         /\ client[c] \in ClientState /\ tasks[c] \in SUBSET Tasks
         /\ client[c].record \in AnyRecord /\ client[c].life \in Nat
         /\ \A t \in tasks[c] : TaskOK(c, t) /\ (t.kind = "adopted" => t.record \in Claims(c))
         /\ client[c].record \in Claims(c)
         /\ \/ client[c].app \in {"in", "closing"}
            \/ client[c].record # NoRecord
            \/ client[c].joining # NoClient
            => client[c].life >= 1 /\ Guid(c) \in Guids
  <1>1. client \in [Clients -> ClientState] /\ tasks \in [Clients -> SUBSET Tasks]
    BY DEF IInv, TypeInv, TypeOK
  <1>2. /\ packets \in [Clients -> Seq(Packets)]
        /\ link \subseteq Guids \X Guids /\ banned \subseteq Guids \X Clients
    BY DEF IInv, TypeInv, TypeOK, Packets
  <1>3. /\ client = [client EXCEPT ![c] = client[c]] /\ tasks = [tasks EXCEPT ![c] = tasks[c]]
        /\ client[c] \in ClientState /\ tasks[c] \in SUBSET Tasks
    BY <1>1
  <1>4. client[c].record \in AnyRecord /\ client[c].life \in Nat
    BY <1>3 DEF ClientState
  <1>5. /\ \A t \in tasks[c] : TaskOK(c, t) /\ (t.kind = "adopted" => t.record \in Claims(c))
        /\ client[c].record \in Claims(c)
    BY DEF IInv, TypeInv, Claims
  <1>6. \/ client[c].app \in {"in", "closing"}
        \/ client[c].record # NoRecord
        \/ client[c].joining # NoClient
        => client[c].life >= 1 /\ Guid(c) \in Guids
    BY HasGuid DEF IInv, TypeInv, ClientOK
  <1> QED
    BY <1>1, <1>2, <1>3, <1>4, <1>5, <1>6

\* A task that has no peer and no record.
LEMMA NewTask ==
  ASSUME NEW kind \in TaskKind, NEW peer \in Guids \cup {NoGuid}, kind # "adopted",
         NEW c \in Clients,
         kind \in {"challenge", "response", "admit", "boot", "accepted"} => peer \in Guids
  PROVE  /\ Task(kind, peer) \in Tasks /\ TaskOK(c, Task(kind, peer))
         /\ Task(kind, peer).kind # "adopted"
  BY DEF Task, Tasks, TaskOK, AnyRecord

\* The client that is left when stopClient is through, or the process is gone.
LEMMA StoppedClient ==
  ASSUME IInv, NEW c \in Clients
  PROVE  /\ Stopped(c) \in ClientState /\ Dead(c) \in ClientState
         /\ Stopped(c).app = "out" /\ Dead(c).app = "dead"
         /\ Stopped(c).life = client[c].life /\ Dead(c).life = client[c].life
         /\ Stopped(c).record = NoRecord /\ Dead(c).record = NoRecord
         /\ Stopped(c).joining = NoClient /\ Dead(c).joining = NoClient
         /\ Stopped(c).players = {} /\ Stopped(c).hostGame = NoGame
  <1>1. client[c].life \in Nat /\ client[c].creator \in BOOLEAN
    BY Typed DEF ClientState
  <1> QED
    BY <1>1 DEF Stopped, Dead, Unstarted, ClientState, AnyRecord

\* LeaveMesh keeps packets and connections.
LEMMA Leaving ==
  ASSUME IInv, NEW c \in Clients, NEW gone, LeaveMesh(c, gone)
  PROVE  /\ packets' \in [Clients -> Seq(Packets)]
         /\ link' \subseteq Guids \X Guids
  <1>1. Sent(c, Guids, "LOST") \in [Clients -> Seq(Packets)]
    BY Sending DEF IInv, PacketType
  <1>2. <<>> \in Seq(Packets)
    OBVIOUS
  <1>3. link \subseteq Guids \X Guids
    BY Typed
  <1> QED
    BY <1>1, <1>2, <1>3 DEF LeaveMesh

\* A process that is gone claims nothing.
LEMMA DieKeeps ==
  ASSUME IInv, NEW c \in Clients, Die(c), UNCHANGED directory
  PROVE  IInv'
  <1>1. /\ client' = [client EXCEPT ![c] = Dead(c)] /\ tasks' = [tasks EXCEPT ![c] = {}]
        /\ UNCHANGED banned /\ LeaveMesh(c, Dead(c))
    BY DEF Die, LeaveMesh
  <1>2. banned' \subseteq Guids \X Clients /\ {} \in SUBSET Tasks
    BY <1>1, Typed
  <1> QED
    BY <1>1, <1>2, Leaving, StoppedClient, QuietStep

-----------------------------------------------------------------------------
(* The application *)

\* A game that is opened takes no other client's place in the directory.
LEMMA Opening ==
  ASSUME IInv, NEW u \in Users, NEW g \in Guids, NewGame \in Games, Directory!Open(NewGame, u, g)
  PROVE  /\ open' \subseteq Games /\ closed' \subseteq Games
         /\ host' \in [open' -> Users] /\ address' \in [open' -> Guids]
         /\ NewGame \in open' /\ host'[NewGame] = u /\ address'[NewGame] = g
         /\ \A id \in open : id \in open' /\ host'[id] = host[id] /\ address'[id] = address[id]
  <1>1. /\ open \subseteq Games /\ closed \subseteq Games
        /\ host \in [open -> Users] /\ address \in [open -> Guids]
    BY DEF IInv, TypeInv, TypeOK
  <1>2. /\ NewGame \notin open /\ open' = open \cup {NewGame} /\ closed' = closed
        /\ host' = [h \in open' |-> IF h = NewGame THEN u ELSE host[h]]
        /\ address' = [h \in open' |-> IF h = NewGame THEN g ELSE address[h]]
    BY DEF Directory!Open
  <1> HIDE DEF NewGame
  <1> QED
    BY <1>1, <1>2

\* A game that is closed is nobody's but the one that lists it.
LEMMA Closing ==
  ASSUME IInv, NEW g, Directory!Close(g)
  PROVE  /\ open' \subseteq Games /\ closed' \subseteq Games
         /\ host' \in [open' -> Users] /\ address' \in [open' -> Guids]
         /\ \A id \in open \ {g} : id \in open' /\ host'[id] = host[id] /\ address'[id] = address[id]
  <1>1. /\ open \subseteq Games /\ closed \subseteq Games
        /\ host \in [open -> Users] /\ address \in [open -> Guids]
    BY DEF IInv, TypeInv, TypeOK
  <1>2. /\ g \in open /\ open' = open \ {g} /\ closed' = closed \cup {g}
        /\ host' = [h \in open' |-> host[h]]
        /\ address' = [h \in open' |-> address[h]]
    BY DEF Directory!Close
  <1> QED
    BY <1>1, <1>2

\* startGame lists the game it claims; no task knows the guid of the new life.
LEMMA StartGameKeeps ==
  ASSUME IInv, NEW c \in Clients, StartGame(c)
  PROVE  IInv'
  <1> DEFINE n == client[c].life + 1
             r == [Unstarted EXCEPT !.app = "in", !.life = n, !.creator = TRUE, !.hostGame = NewGame,
                            !.record = [id |-> NewGame, host |-> <<c, n>>], !.players = {<<c, n>>}]
  <1>1. /\ n <= Lives[c] /\ NewGame \in Games /\ Directory!Open(NewGame, UserOf[c], <<c, n>>)
        /\ client' = [client EXCEPT ![c] = r]
        /\ UNCHANGED <<packets, tasks, link, banned>>
    BY DEF StartGame, OpensGame
  <1>2. n \in Nat /\ n >= 1 /\ client[c].life < n
    BY Typed
  <1>3. <<c, n>> \in Guids /\ UserOf[c] \in Users
    BY <1>1, <1>2, GuidParts, MeshAssumption
  <1>4. r \in ClientState
    <2>1. [id |-> NewGame, host |-> <<c, n>>] \in AnyRecord
      BY <1>1, <1>3 DEF AnyRecord, Records
    <2> HIDE DEF n
    <2> QED
      BY <1>1, <1>2, <1>3, <2>1 DEF Unstarted, ClientState
  <1>5. /\ r.app = "in" /\ r.life = n /\ r.record = [id |-> NewGame, host |-> <<c, n>>]
        /\ r.hostGame = NewGame
    BY DEF Unstarted
  <1>6. /\ open' \subseteq Games /\ closed' \subseteq Games
        /\ host' \in [open' -> Users] /\ address' \in [open' -> Guids]
        /\ NewGame \in open' /\ host'[NewGame] = UserOf[c] /\ address'[NewGame] = <<c, n>>
        /\ \A id \in open : id \in open' /\ host'[id] = host[id] /\ address'[id] = address[id]
    BY <1>1, <1>3, Opening
  <1>7. \A t \in tasks[c] : t.kind = "adopted" => t.record.host # <<c, n>>
    <2>1. \A t \in tasks[c] : t.kind = "adopted" /\ t.record.host[1] = c => t.record.host[2] <= client[c].life
      BY Typed DEF TaskOK
    <2>2. ASSUME NEW t \in tasks[c], t.kind = "adopted", t.record.host = <<c, n>>
          PROVE  FALSE
      <3>1. t.record.host[1] = c /\ t.record.host[2] = n
        BY <2>2
      <3> QED
        BY <1>2, <2>1, <2>2, <3>1, Typed
    <2> QED
      BY <2>2
  <1>8. \A d \in Clients \ {c} : \A id \in Games :
          Lists(d, id) => id \in open' /\ host'[id] = host[id] /\ address'[id] = address[id]
    BY <1>6 DEF Lists
  <1>9. \A q \in {r.record} \cup {t.record : t \in {x \in tasks[c] : x.kind = "adopted"}} :
          q # NoRecord /\ q.host = <<c, r.life>> =>
            /\ q.id \in open' /\ host'[q.id] = UserOf[c] /\ address'[q.id] = <<c, r.life>>
            /\ r.hostGame = q.id
    BY <1>5, <1>6, <1>7
  <1>10. /\ packets' \in [Clients -> Seq(Packets)] /\ tasks' = [tasks EXCEPT ![c] = tasks[c]]
         /\ link' \subseteq Guids \X Guids /\ banned' \subseteq Guids \X Clients
         /\ tasks[c] \in SUBSET Tasks /\ \A t \in tasks[c] : TaskOK(c, t)
    BY <1>1, Typed
  <1>11. r.life <= Lives[c] /\ client[c].life <= r.life /\ r.life >= 1
    BY <1>1, <1>2, <1>5, Typed
  <1> HIDE DEF r, n
  <1> QED
    BY <1>1, <1>4, <1>6, <1>8, <1>9, <1>10, <1>11, ClientStep

\* joinGame takes a record of another client's game.
LEMMA JoinGameKeeps ==
  ASSUME IInv, NEW c \in Clients, NEW g \in Games, JoinGame(c, g)
  PROVE  IInv'
  <1> DEFINE n == client[c].life + 1
             r == [Stopped(c) EXCEPT !.app = "in", !.life = n, !.joining = address[g][1],
                              !.record = [id |-> g, host |-> address[g]], !.players = {<<c, n>>}]
  <1>1. /\ n <= Lives[c] /\ g \in open /\ address[g][1] # c
        /\ client' = [client EXCEPT ![c] = r]
        /\ UNCHANGED <<directory, packets, tasks, link, banned>>
    BY DEF JoinGame
  <1>2. n \in Nat /\ n >= 1 /\ client[c].life < n
    BY Typed
  <1>3. <<c, n>> \in Guids /\ address[g] \in Guids /\ address[g][1] \in Clients
    BY <1>1, <1>2, GuidParts DEF IInv, TypeInv, TypeOK
  <1>4. r \in ClientState
    <2>1. [id |-> g, host |-> address[g]] \in AnyRecord
      BY <1>3 DEF AnyRecord, Records
    <2>2. Stopped(c) \in ClientState
      BY StoppedClient
    <2>3. {<<c, n>>} \in SUBSET Guids
      BY <1>3
    <2> HIDE DEF n
    <2> QED
      BY <1>2, <1>3, <2>1, <2>2, <2>3 DEF ClientState
  <1>5. /\ r.app = "in" /\ r.life = n /\ r.record = [id |-> g, host |-> address[g]]
    BY StoppedClient DEF ClientState
  <1>6. /\ open' \subseteq Games /\ closed' \subseteq Games
        /\ host' \in [open' -> Users] /\ address' \in [open' -> Guids]
        /\ open' = open /\ host' = host /\ address' = address
    BY <1>1 DEF directory, IInv, TypeInv, TypeOK
  <1>7. \A t \in tasks[c] : t.kind = "adopted" => t.record.host # <<c, n>>
    <2>1. \A t \in tasks[c] : t.kind = "adopted" /\ t.record.host[1] = c => t.record.host[2] <= client[c].life
      BY Typed DEF TaskOK
    <2>2. ASSUME NEW t \in tasks[c], t.kind = "adopted", t.record.host = <<c, n>>
          PROVE  FALSE
      <3>1. t.record.host[1] = c /\ t.record.host[2] = n
        BY <2>2
      <3> QED
        BY <1>2, <2>1, <2>2, <3>1, Typed
    <2> QED
      BY <2>2
  <1>8. \A d \in Clients \ {c} : \A id \in Games :
          Lists(d, id) => id \in open' /\ host'[id] = host[id] /\ address'[id] = address[id]
    BY <1>6 DEF Lists
  <1>9. \A q \in {r.record} \cup {t.record : t \in {x \in tasks[c] : x.kind = "adopted"}} :
          q # NoRecord => q.host # <<c, r.life>>
    BY <1>1, <1>5, <1>7
  <1>10. /\ packets' \in [Clients -> Seq(Packets)] /\ tasks' = [tasks EXCEPT ![c] = tasks[c]]
         /\ link' \subseteq Guids \X Guids /\ banned' \subseteq Guids \X Clients
         /\ tasks[c] \in SUBSET Tasks /\ \A t \in tasks[c] : TaskOK(c, t)
    BY <1>1, Typed
  <1>11. r.life <= Lives[c] /\ client[c].life <= r.life /\ r.life >= 1
    BY <1>1, <1>2, <1>5, Typed
  <1> HIDE DEF r, n
  <1> QED
    BY <1>1, <1>4, <1>6, <1>8, <1>9, <1>10, <1>11, ClientStep

\* killClient deletes at most the game of the client that stops.
LEMMA KillClientKeeps ==
  ASSUME IInv, NEW c \in Clients, KillClient(c)
  PROVE  IInv'
  <1>1. CASE client[c].record = EmptyRecord
    BY <1>1, DieKeeps DEF KillClient
  <1>2. CASE client[c].record # EmptyRecord
    <2> DEFINE r == [client[c] EXCEPT !.app = "closing", !.record = NoRecord]
    <2>1. /\ client[c].app = "in"
          /\ IF client[c].record # NoRecord /\ OwnsRecord(c)
             THEN DeleteGame(c, client[c].record.id) ELSE UNCHANGED directory
          /\ client' = [client EXCEPT ![c].app = "closing", ![c].record = NoRecord]
          /\ UNCHANGED <<packets, tasks, link, banned>>
      BY <1>2 DEF KillClient
    <2>2. /\ r \in ClientState /\ r.app = "closing" /\ r.record = NoRecord
          /\ r.life = client[c].life /\ r.life >= 1 /\ r.life <= Lives[c]
      BY <2>1, Typed DEF ClientState, AnyRecord, IInv, TypeInv, ClientOK
    <2>3. client' = [client EXCEPT ![c] = r]
      BY <2>1, Typed
    <2>4. /\ packets' \in [Clients -> Seq(Packets)] /\ tasks' = [tasks EXCEPT ![c] = tasks[c]]
          /\ link' \subseteq Guids \X Guids /\ banned' \subseteq Guids \X Clients
          /\ tasks[c] \in SUBSET Tasks /\ \A t \in tasks[c] : TaskOK(c, t)
      BY <2>1, Typed
    <2>5. CASE UNCHANGED directory
      <3> HIDE DEF r
      <3> QED
        BY <2>2, <2>3, <2>4, <2>5, QuietStep
    <2>6. ASSUME client[c].record # NoRecord, OwnsRecord(c), Directory!Close(client[c].record.id)
          PROVE  IInv'
      <3> DEFINE g == client[c].record.id
      <3>1. Lists(c, g)
        BY <2>1, <2>6, Typed DEF OwnsRecord, IInv, ClaimsKept
      <3>2. \A d \in Clients \ {c} : ~Lists(d, g)
        BY <3>1 DEF Lists, Guid
      <3>3. \A d \in Clients \ {c} : \A id \in Games :
              Lists(d, id) => id \in open' /\ host'[id] = host[id] /\ address'[id] = address[id]
        BY <2>6, <3>2, Closing DEF Lists
      <3>4. /\ open' \subseteq Games /\ closed' \subseteq Games
            /\ host' \in [open' -> Users] /\ address' \in [open' -> Guids]
        BY <2>6, Closing
      <3>5. client[c].life <= r.life
        BY <2>2, Typed
      <3> HIDE DEF r, g
      <3> QED
        BY <2>2, <2>3, <2>4, <3>3, <3>4, <3>5, ClientStep
    <2> QED
      BY <2>1, <2>5, <2>6 DEF DeleteGame
  <1> QED
    BY <1>1, <1>2

\* The rest of stopClient leaves the tasks, but claims nothing.
LEMMA FinishStopKeeps ==
  ASSUME IInv, NEW c \in Clients, FinishStop(c)
  PROVE  IInv'
  <1> DEFINE T == {[t EXCEPT !.old = (t.kind = "adopt")] : t \in tasks[c]}
  <1>1. /\ LeaveMesh(c, Stopped(c)) /\ client' = [client EXCEPT ![c] = Stopped(c)]
        /\ tasks' = [tasks EXCEPT ![c] = T] /\ UNCHANGED <<directory, banned>>
    BY DEF FinishStop, LeaveMesh
  <1>2. T \in SUBSET Tasks /\ \A t \in T : TaskOK(c, t)
    <2>1. ASSUME NEW t \in tasks[c]
          PROVE  [t EXCEPT !.old = (t.kind = "adopt")] \in Tasks /\ TaskOK(c, [t EXCEPT !.old = (t.kind = "adopt")])
      <3>1. t \in Tasks /\ TaskOK(c, t) /\ (t.kind = "adopt") \in BOOLEAN
        BY Typed
      <3> QED
        BY <3>1 DEF Tasks, TaskOK
    <2> QED
      BY <2>1
  <1>3. banned' \subseteq Guids \X Clients
    BY <1>1, Typed
  <1> HIDE DEF T
  <1> QED
    BY <1>1, <1>2, <1>3, Leaving, StoppedClient, QuietStep

\* Whatever the application calls.
LEMMA ApplicationKeeps ==
  ASSUME IInv, NEW c \in Clients, Application(c)
  PROVE  IInv'
  <1>1. CASE Crash(c)
    BY <1>1, DieKeeps DEF Crash
  <1> QED
    BY <1>1, StartGameKeeps, JoinGameKeeps, KillClientKeeps DEF Application

\* RakNet connects, or refuses a connection.
LEMMA ConnectKeeps ==
  ASSUME IInv, NEW c \in Clients, Connect(c)
  PROVE  IInv'
  <1> DEFINE h == client[c].joining
             r == [client[c] EXCEPT !.joining = NoClient]
  <1>1. /\ h # NoClient /\ client' = [client EXCEPT ![c].joining = NoClient]
        /\ UNCHANGED <<directory, tasks, banned>>
    BY DEF Connect
  <1>2. h \in Clients /\ Guid(c) \in Guids /\ client[c].life >= 1
    BY <1>1, Typed DEF ClientState
  <1>3. /\ r \in ClientState /\ r.life = client[c].life /\ r.record = client[c].record
        /\ r.app = client[c].app /\ r.hostGame = client[c].hostGame
        /\ client' = [client EXCEPT ![c] = r]
    BY <1>1, Typed DEF ClientState
  <1>4. /\ packets' \in [Clients -> Seq(Packets)] /\ link' \subseteq Guids \X Guids
    <2>1. packets \in [Clients -> Seq(Packets)] /\ link \subseteq Guids \X Guids
      BY Typed
    <2>2. Packet("INCOMING", c) \in Packets /\ Packet("NO_FREE", c) \in Packets
      BY <1>2 DEF Packet, Packets, PacketType
    <2>3. /\ Append(packets[h], Packet("INCOMING", c)) \in Seq(Packets)
          /\ Append(packets[c], Packet("NO_FREE", c)) \in Seq(Packets)
      BY <1>2, <2>1, <2>2
    <2>4. \/ /\ Connected(c, h) /\ link' = link \cup {<<Guid(c), Guid(h)>>}
             /\ packets' = [packets EXCEPT ![h] = Append(@, Packet("INCOMING", c))]
          \/ packets' = [packets EXCEPT ![c] = Append(@, Packet("NO_FREE", c))] /\ UNCHANGED link
          \/ UNCHANGED <<packets, link>>
      BY DEF Connect
    <2>5. Connected(c, h) => Guid(h) \in Guids
      BY <1>2, Typed DEF Connected
    <2>6. CASE Connected(c, h) /\ link' = link \cup {<<Guid(c), Guid(h)>>}
               /\ packets' = [packets EXCEPT ![h] = Append(@, Packet("INCOMING", c))]
      <3>1. link' \subseteq Guids \X Guids
        BY <1>2, <2>1, <2>5, <2>6
      <3> HIDE DEF h
      <3> QED
        BY <1>2, <2>1, <2>3, <2>6, <3>1
    <2>7. CASE packets' = [packets EXCEPT ![c] = Append(@, Packet("NO_FREE", c))] /\ UNCHANGED link
      BY <2>1, <2>3, <2>7
    <2> QED
      BY <2>1, <2>4, <2>6, <2>7
  <1>5. /\ tasks' = [tasks EXCEPT ![c] = tasks[c]] /\ banned' \subseteq Guids \X Clients
        /\ tasks[c] \in SUBSET Tasks
        /\ \A t \in tasks[c] : TaskOK(c, t) /\ (t.kind = "adopted" => t.record \in Claims(c))
        /\ client[c].record \in Claims(c)
    BY <1>1, Typed
  <1> HIDE DEF r
  <1> QED
    BY <1>1, <1>2, <1>3, <1>4, <1>5, QuietStep

-----------------------------------------------------------------------------
(* The dispatcher *)

\* The packet that is received, and the packets that are left.
LEMMA Taken ==
  ASSUME IInv, NEW c \in Clients, packets[c] # <<>>
  PROVE  /\ Head(packets[c]) \in Packets /\ Tail(packets[c]) \in Seq(Packets)
         /\ From(c) \in Guids
  <1>1. packets[c] \in Seq(Packets)
    BY Typed
  <1>2. Head(packets[c]) \in Packets /\ Tail(packets[c]) \in Seq(Packets)
    BY <1>1, HeadTailProperties
  <1> QED
    BY <1>2 DEF From, Packets

\* A step of the dispatcher: it changes no record, but forgets it, and it
\* submits tasks that are no answers.
LEMMA DispatchStep ==
  ASSUME IInv, NEW c \in Clients, client[c].app = "in", NEW r \in ClientState, NEW T \in SUBSET Tasks,
         client' = [client EXCEPT ![c] = r], tasks' = [tasks EXCEPT ![c] = T],
         packets' \in [Clients -> Seq(Packets)], UNCHANGED <<directory, link, banned>>,
         r.app \in {"in", "closing"}, r.life = client[c].life, r.hostGame = client[c].hostGame,
         r.record \in {client[c].record, NoRecord},
         \A t \in T \ tasks[c] : TaskOK(c, t) /\ t.kind # "adopted"
  PROVE  IInv'
  <1>1. /\ link' \subseteq Guids \X Guids /\ banned' \subseteq Guids \X Clients
        /\ client[c].life >= 1 /\ client[c].record \in Claims(c)
        /\ \A t \in tasks[c] : TaskOK(c, t) /\ (t.kind = "adopted" => t.record \in Claims(c))
    BY Typed
  <1>2. \A t \in T : TaskOK(c, t) /\ (t.kind = "adopted" => t.record \in Claims(c))
    BY <1>1
  <1> QED
    BY <1>1, <1>2, QuietStep

\* Whatever packet is received.
LEMMA DispatchKeeps ==
  ASSUME IInv, NEW c \in Clients, Dispatch(c)
  PROVE  IInv'
  <1>1. client[c].app = "in" /\ packets[c] # <<>> /\ UNCHANGED <<directory, link, banned>>
    BY DEF Dispatch, ConnectionLost, NewConnection, NoFreeConnections, NewHost, ProtocolMessage,
           Receive, Received
  <1>2. /\ Tail(packets[c]) \in Seq(Packets) /\ From(c) \in Guids /\ Guid(c) \in Guids
        /\ packets \in [Clients -> Seq(Packets)]
        /\ [packets EXCEPT ![c] = Tail(@)] \in [Clients -> Seq(Packets)]
        /\ tasks = [tasks EXCEPT ![c] = tasks[c]] /\ tasks[c] \in SUBSET Tasks
        /\ client = [client EXCEPT ![c] = client[c]] /\ client[c] \in ClientState
        /\ client[c].fcmHost \in Guids \cup {NoGuid} /\ client[c].players \in SUBSET Guids
        /\ Alive(c) \in {"in", "closing"}
    <2>1. Tail(packets[c]) \in Seq(Packets) /\ From(c) \in Guids
      BY <1>1, Taken
    <2>2. /\ Guid(c) \in Guids /\ packets \in [Clients -> Seq(Packets)]
          /\ tasks = [tasks EXCEPT ![c] = tasks[c]] /\ tasks[c] \in SUBSET Tasks
          /\ client = [client EXCEPT ![c] = client[c]] /\ client[c] \in ClientState
      BY <1>1, Typed
    <2> QED
      BY <2>1, <2>2 DEF ClientState, Alive
  <1>3. CASE ConnectionLost(c)
    <2> DEFINE orphaned == client[c].fcmHost = From(c)
               r == [client[c] EXCEPT !.players = @ \ {From(c)}, !.app = Alive(c),
                                      !.fcmHost = IF orphaned THEN Guid(c) ELSE @]
    <2>1. /\ client' = [client EXCEPT ![c].players = @ \ {From(c)}, ![c].app = Alive(c),
                                      ![c].fcmHost = IF orphaned THEN Guid(c) ELSE @]
          /\ packets' = [packets EXCEPT ![c] =
                (IF orphaned THEN <<Packet("NEW_HOST", c)>> ELSE <<>>) \o Tail(@)]
          /\ UNCHANGED tasks
      BY <1>3 DEF ConnectionLost
    <2>2. client' = [client EXCEPT ![c] = r]
      BY <1>2, <2>1
    <2>3. /\ r \in ClientState /\ r.app \in {"in", "closing"} /\ r.life = client[c].life
          /\ r.record = client[c].record /\ r.hostGame = client[c].hostGame
      BY <1>2 DEF ClientState
    <2>4. packets' \in [Clients -> Seq(Packets)]
      <3>1. <<Packet("NEW_HOST", c)>> \in Seq(Packets) /\ <<>> \in Seq(Packets)
        BY <1>2 DEF Packet, Packets, PacketType
      <3>2. (IF orphaned THEN <<Packet("NEW_HOST", c)>> ELSE <<>>) \o Tail(packets[c]) \in Seq(Packets)
        BY <1>2, <3>1, ConcatProperties
      <3> QED
        BY <1>2, <2>1, <3>2
    <2> HIDE DEF r
    <2> QED
      BY <1>1, <1>2, <2>1, <2>2, <2>3, <2>4, DispatchStep
  <1>4. CASE NewConnection(c)
    <2> DEFINE r == [client[c] EXCEPT !.app = Alive(c)]
    <2>1. /\ client' = [client EXCEPT ![c] = r] /\ UNCHANGED tasks
      BY <1>2, <1>4 DEF NewConnection
    <2>2. /\ r \in ClientState /\ r.app \in {"in", "closing"} /\ r.life = client[c].life
          /\ r.record = client[c].record /\ r.hostGame = client[c].hostGame
      BY <1>2 DEF ClientState
    <2>3. packets' \in [Clients -> Seq(Packets)]
      <3>1. Sent(c, {From(c)}, "CHALLENGE") \in [Clients -> Seq(Packets)]
        BY Sending DEF IInv, PacketType
      <3>2. \A d \in Clients : d = c => Tail(Sent(c, {From(c)}, "CHALLENGE")[d]) \in Seq(Packets)
        <4>1. Sent(c, {From(c)}, "CHALLENGE")[c] # <<>>
          <5>1. packets[c] \in Seq(Packets)
            BY <1>2
          <5>2. Append(packets[c], Packet("CHALLENGE", c)) # <<>>
            BY <5>1
          <5> QED
            BY <1>1, <5>2 DEF Sent
        <4> QED
          BY <3>1, <4>1, HeadTailProperties
      <3> QED
        BY <1>2, <1>4, <3>1, <3>2 DEF NewConnection
    <2> HIDE DEF r
    <2> QED
      BY <1>1, <1>2, <2>1, <2>2, <2>3, DispatchStep
  <1>5. CASE NoFreeConnections(c)
    <2> DEFINE r == [client[c] EXCEPT !.record = NoRecord]
    <2>1. /\ client' = [client EXCEPT ![c] = r] /\ UNCHANGED tasks /\ packets' = [packets EXCEPT ![c] = Tail(@)]
      BY <1>2, <1>5 DEF NoFreeConnections, NoFreeRecord, Receive
    <2>2. /\ r \in ClientState /\ r.app = "in" /\ r.life = client[c].life
          /\ r.record = NoRecord /\ r.hostGame = client[c].hostGame
      BY <1>1, <1>2 DEF ClientState, AnyRecord
    <2> HIDE DEF r
    <2> QED
      BY <1>1, <1>2, <2>1, <2>2, DispatchStep
  <1>6. CASE NewHost(c)
    <2> DEFINE isHost == From(c) = Guid(c)
               r == [client[c] EXCEPT !.fcmHost = From(c), !.app = IF isHost THEN Alive(c) ELSE @]
               T == IF isHost /\ client[c].record # NoRecord THEN tasks[c] \cup {HostTask(c)} ELSE tasks[c]
    <2>1. /\ client' = [client EXCEPT ![c].fcmHost = From(c), ![c].app = IF isHost THEN Alive(c) ELSE @]
          /\ packets' = [packets EXCEPT ![c] = Tail(@)]
          /\ tasks' = IF isHost /\ client[c].record # NoRecord
                      THEN [tasks EXCEPT ![c] = @ \cup {HostTask(c)}] ELSE tasks
      BY <1>6 DEF NewHost, Receive
    <2>2. client' = [client EXCEPT ![c] = r] /\ tasks' = [tasks EXCEPT ![c] = T]
      BY <1>2, <2>1
    <2>3. /\ r \in ClientState /\ r.app \in {"in", "closing"} /\ r.life = client[c].life
          /\ r.record = client[c].record /\ r.hostGame = client[c].hostGame
      BY <1>1, <1>2 DEF ClientState
    <2>4. HostTask(c) \in Tasks /\ TaskOK(c, HostTask(c)) /\ HostTask(c).kind # "adopted"
      BY NewTask DEF HostTask, TaskKind
    <2>5. T \in SUBSET Tasks /\ \A t \in T \ tasks[c] : TaskOK(c, t) /\ t.kind # "adopted"
      BY <1>2, <2>4
    <2> HIDE DEF r, T
    <2> QED
      BY <1>1, <1>2, <2>1, <2>2, <2>3, <2>5, DispatchStep
  <1>7. CASE ProtocolMessage(c)
    <2>1. PICK type \in {"CHALLENGE", "RESPONSE", "ACCEPTED", "NEWHOST"} :
            /\ packets' = [packets EXCEPT ![c] = Tail(@)] /\ UNCHANGED client
            /\ tasks' = IF From(c) \notin client[c].players /\ type \in DOMAIN StrangerTask
                        THEN [tasks EXCEPT ![c] = @ \cup {Task(StrangerTask[type], From(c))}]
                        ELSE tasks
      BY <1>7 DEF ProtocolMessage, Receive
    <2>2. type \in DOMAIN StrangerTask => StrangerTask[type] \in {"challenge", "response", "accepted"}
      BY DEF StrangerTask
    <2>3. type \in DOMAIN StrangerTask =>
            /\ Task(StrangerTask[type], From(c)) \in Tasks
            /\ TaskOK(c, Task(StrangerTask[type], From(c)))
            /\ Task(StrangerTask[type], From(c)).kind # "adopted"
      BY <1>2, <2>2, NewTask DEF TaskKind
    <2> DEFINE T == IF From(c) \notin client[c].players /\ type \in DOMAIN StrangerTask
                    THEN tasks[c] \cup {Task(StrangerTask[type], From(c))} ELSE tasks[c]
    <2>4. tasks' = [tasks EXCEPT ![c] = T]
      BY <1>2, <2>1
    <2>5. T \in SUBSET Tasks /\ \A t \in T \ tasks[c] : TaskOK(c, t) /\ t.kind # "adopted"
      BY <1>2, <2>3
    <2> HIDE DEF T
    <2> QED
      BY <1>1, <1>2, <2>1, <2>4, <2>5, DispatchStep
  <1> QED
    BY <1>3, <1>4, <1>5, <1>6, <1>7 DEF Dispatch

-----------------------------------------------------------------------------
(* The tasks *)

\* A task that leaves another one behind, and no new record.
LEMMA TaskStep ==
  ASSUME IInv, NEW c \in Clients, NEW t \in tasks[c], NEW next \in SUBSET Tasks, Done(c, t, next),
         NEW r \in ClientState, client' = [client EXCEPT ![c] = r], UNCHANGED directory,
         packets' \in [Clients -> Seq(Packets)],
         link' \subseteq Guids \X Guids, banned' \subseteq Guids \X Clients,
         r.app = client[c].app, r.life = client[c].life, r.hostGame = client[c].hostGame,
         r.joining = client[c].joining,
         \/ r.record = client[c].record
         \/ r.record \in Claims(c) /\ r.app \in {"in", "closing"},
         \A x \in next : TaskOK(c, x) /\ (x.kind = "adopted" => x.record = EmptyRecord)
  PROVE  IInv'
  <1> DEFINE T == (tasks[c] \ {t}) \cup next
  <1>1. T \in SUBSET Tasks /\ tasks' = [tasks EXCEPT ![c] = T]
    BY Typed DEF Done
  <1>2. \A x \in T : TaskOK(c, x) /\ (x.kind = "adopted" => x.record \in Claims(c) \cup {EmptyRecord})
    BY Typed
  <1>3. /\ \/ r.app \in {"in", "closing"} \/ r.record # NoRecord \/ r.joining # NoClient => r.life >= 1
        /\ r.record \in Claims(c)
    BY Typed
  <1> HIDE DEF T
  <1> QED
    BY <1>1, <1>2, <1>3, QuietStep

\* A task that leaves none behind.
LEMMA LastStep ==
  ASSUME IInv, NEW c \in Clients, NEW t \in tasks[c], Done(c, t, {}),
         NEW r \in ClientState, client' = [client EXCEPT ![c] = r], UNCHANGED directory,
         packets' \in [Clients -> Seq(Packets)],
         link' \subseteq Guids \X Guids, banned' \subseteq Guids \X Clients,
         r.app = client[c].app, r.life = client[c].life, r.hostGame = client[c].hostGame,
         r.joining = client[c].joining,
         \/ r.record = client[c].record
         \/ r.record \in Claims(c) /\ r.app \in {"in", "closing"}
  PROVE  IInv'
  <1>1. {} \in SUBSET Tasks
    OBVIOUS
  <1>2. \A x \in {} : TaskOK(c, x) /\ (x.kind = "adopted" => x.record = EmptyRecord)
    OBVIOUS
  <1> QED
    BY <1>1, <1>2, TaskStep

\* A task that leaves the client alone.
LEMMA IdleStep ==
  ASSUME IInv, NEW c \in Clients, NEW t \in tasks[c], NEW next \in SUBSET Tasks, Done(c, t, next),
         UNCHANGED <<directory, client, link, banned>>,
         packets' \in [Clients -> Seq(Packets)],
         \A x \in next : TaskOK(c, x) /\ (x.kind = "adopted" => x.record = EmptyRecord)
  PROVE  IInv'
  <1>1. /\ client[c] \in ClientState /\ client' = [client EXCEPT ![c] = client[c]]
        /\ link' \subseteq Guids \X Guids /\ banned' \subseteq Guids \X Clients
    BY Typed
  <1> QED
    BY <1>1, TaskStep

\* The tasks of the handshake.
LEMMA HandshakeKeeps ==
  ASSUME IInv, NEW c \in Clients, NEW t \in tasks[c],
         \/ ChallengeTask(c, t) \/ ResponseTask(c, t) \/ AdmitTask(c, t)
         \/ BootTask(c, t) \/ AcceptedTask(c, t)
  PROVE  IInv'
  <1> DEFINE p == t.peer
  <1>1. /\ p \in Guids /\ p[1] \in Clients /\ {} \in SUBSET Tasks
        /\ client[c] \in ClientState /\ client[c].players \in SUBSET Guids
        /\ client[c].fcmHost \in Guids \cup {NoGuid}
        /\ packets \in [Clients -> Seq(Packets)]
        /\ link \subseteq Guids \X Guids /\ banned \subseteq Guids \X Clients
    <2>1. p \in Guids
      BY Typed DEF TaskOK, ChallengeTask, ResponseTask, AdmitTask, BootTask, AcceptedTask
    <2> QED
      BY <2>1, GuidParts, Typed DEF ClientState
  <1>2. Started(c) => Guid(c) \in Guids
    BY Typed DEF Started
  <1>3. CASE Die(c) /\ UNCHANGED directory
    BY <1>3, DieKeeps
  <1>4. CASE ChallengeTask(c, t) /\ Started(c)
    <2>1. packets' \in [Clients -> Seq(Packets)]
      BY <1>4, Sending DEF ChallengeTask, IInv, PacketType
    <2> QED
      BY <1>1, <1>4, <2>1, IdleStep DEF ChallengeTask
  <1>5. CASE ResponseTask(c, t)
    <2>1. \A kind \in {"admit", "boot"} :
            /\ Task(kind, p) \in Tasks /\ TaskOK(c, Task(kind, p)) /\ Task(kind, p).kind # "adopted"
      BY <1>1, NewTask DEF TaskKind
    <2> DEFINE next == IF client[c].record = NoRecord THEN {}
                       ELSE {Task(IF Validated(c) THEN "admit" ELSE "boot", p)}
    <2>2. next \in SUBSET Tasks /\ \A x \in next : TaskOK(c, x) /\ x.kind # "adopted"
      BY <2>1
    <2>3. Done(c, t, next) /\ UNCHANGED <<directory, client, packets, link, banned>>
      BY <1>5 DEF ResponseTask
    <2> HIDE DEF next
    <2> QED
      BY <1>1, <2>2, <2>3, IdleStep
  <1>6. CASE AdmitTask(c, t) /\ Started(c)
    <2> DEFINE joins == p \in Peers(c)
               first == client[c].fcmHost = NoGuid
               told == Sent(c, {p}, "ACCEPTED")
               fcmHost == IF joins /\ first THEN Guid(c) ELSE client[c].fcmHost
               r == [client[c] EXCEPT !.players = WithPlayer(c, p), !.fcmHost = fcmHost]
    <2>1. /\ client' = [client EXCEPT ![c].players = WithPlayer(c, p),
                                      ![c].fcmHost = IF joins /\ first THEN Guid(c) ELSE @]
          /\ packets' = [d \in Clients |->
               IF joins /\ (d = p[1] \/ (d = c /\ first))
               THEN Append(told[d], Packet("NEW_HOST", c)) ELSE told[d]]
          /\ Done(c, t, {}) /\ UNCHANGED <<directory, link, banned>>
      BY <1>6 DEF AdmitTask
    <2>2. WithPlayer(c, p) \in SUBSET Guids /\ fcmHost \in Guids \cup {NoGuid}
      BY <1>1, <1>2, <1>6 DEF WithPlayer
    <2>3. client' = [client EXCEPT ![c] = r]
      BY <2>1, Typed
    <2>4. packets' \in [Clients -> Seq(Packets)]
      <3>1. told \in [Clients -> Seq(Packets)]
        BY Sending DEF IInv, PacketType
      <3>2. Packet("NEW_HOST", c) \in Packets
        BY <1>2, <1>6 DEF Packet, Packets, PacketType
      <3> HIDE DEF told, joins, first
      <3>3. ASSUME NEW d \in Clients
            PROVE  Append(told[d], Packet("NEW_HOST", c)) \in Seq(Packets) /\ told[d] \in Seq(Packets)
        <4>1. told[d] \in Seq(Packets)
          BY <3>1
        <4> QED
          BY <3>2, <4>1, AppendProperties
      <3> QED
        BY <2>1, <3>3
    <2>5. /\ r \in ClientState /\ r.app = client[c].app /\ r.life = client[c].life
          /\ r.hostGame = client[c].hostGame /\ r.joining = client[c].joining
          /\ r.record = client[c].record
      <3> HIDE DEF fcmHost
      <3> QED
        BY <1>1, <2>2 DEF ClientState
    <2> HIDE DEF r
    <2> QED
      BY <1>1, <2>1, <2>3, <2>4, <2>5, LastStep
  <1>7. CASE BootTask(c, t) /\ Started(c)
    <2>1. /\ client' = [client EXCEPT ![c].players = @ \ {p}]
          /\ banned' = banned \cup {<<Guid(c), p[1]>>}
          /\ link' = link \ {<<p, Guid(c)>>, <<Guid(c), p>>}
          /\ packets' = IF p \in Peers(c)
                        THEN [packets EXCEPT ![p[1]] = Append(@, Packet("LOST", c))] ELSE packets
          /\ Done(c, t, {}) /\ UNCHANGED directory
      BY <1>7 DEF BootTask
    <2> DEFINE r == [client[c] EXCEPT !.players = client[c].players \ {p}, !.fcmHost = client[c].fcmHost]
    <2>2. client' = [client EXCEPT ![c] = r]
      BY <2>1, Typed DEF ClientState
    <2>3. banned' \subseteq Guids \X Clients /\ link' \subseteq Guids \X Guids
      BY <1>1, <1>2, <1>7, <2>1
    <2>4. packets' \in [Clients -> Seq(Packets)]
      <3>1. Append(packets[p[1]], Packet("LOST", c)) \in Seq(Packets)
        <4>1. Packet("LOST", c) \in Packets /\ packets[p[1]] \in Seq(Packets)
          BY <1>1, <1>2, <1>7 DEF Packet, Packets, PacketType
        <4> QED
          BY <4>1
      <3> QED
        BY <1>1, <2>1, <3>1
    <2>5. /\ r \in ClientState /\ r.app = client[c].app /\ r.life = client[c].life
          /\ r.hostGame = client[c].hostGame /\ r.joining = client[c].joining
          /\ r.record = client[c].record
      <3>1. client[c].players \ {p} \in SUBSET Guids
        BY <1>1
      <3> QED
        BY <1>1, <3>1 DEF ClientState
    <2> HIDE DEF r
    <2> QED
      BY <1>1, <2>1, <2>2, <2>3, <2>4, <2>5, LastStep
  <1>8. CASE AcceptedTask(c, t)
    <2>1. client' = [client EXCEPT ![c].players = @ \cup {p}] /\ Done(c, t, {})
      BY <1>8 DEF AcceptedTask
    <2> DEFINE r == [client[c] EXCEPT !.players = client[c].players \cup {p}, !.fcmHost = client[c].fcmHost]
    <2>2. client' = [client EXCEPT ![c] = r]
      BY <2>1, Typed DEF ClientState
    <2>3. /\ r \in ClientState /\ r.app = client[c].app /\ r.life = client[c].life
          /\ r.hostGame = client[c].hostGame /\ r.joining = client[c].joining
          /\ r.record = client[c].record
      <3>1. client[c].players \cup {p} \in SUBSET Guids
        BY <1>1
      <3> QED
        BY <1>1, <3>1 DEF ClientState
    <2>4. UNCHANGED <<directory, packets, link, banned>>
      BY <1>8 DEF AcceptedTask
    <2> HIDE DEF r
    <2> QED
      BY <1>1, <2>1, <2>2, <2>3, <2>4, LastStep
  <1> QED
    BY <1>3, <1>4, <1>5, <1>6, <1>7, <1>8 DEF ChallengeTask, AdmitTask, BootTask

\* DirectoryAdoptTask asks: a game is opened only for a user who lists none,
\* and then no record of the client claimed anything.
LEMMA AdoptKeeps ==
  ASSUME IInv, NEW c \in Clients, NEW t \in tasks[c], AdoptTask(c, t)
  PROVE  IInv'
  <1> DEFINE answer == [t EXCEPT !.kind = "adopted"]
  <1>1. /\ t \in Tasks /\ TaskOK(c, t) /\ t.kind = "adopt" /\ UNCHANGED <<packets, link, banned>>
        /\ packets' \in [Clients -> Seq(Packets)]
        /\ link' \subseteq Guids \X Guids /\ banned' \subseteq Guids \X Clients
    BY Typed DEF AdoptTask
  <1>2. CASE Done(c, t, {}) /\ UNCHANGED <<directory, client>>
    <2>1. {} \in SUBSET Tasks /\ \A x \in {} : TaskOK(c, x) /\ (x.kind = "adopted" => x.record = EmptyRecord)
      OBVIOUS
    <2> QED
      BY <1>1, <1>2, <2>1, IdleStep
  <1>3. CASE Done(c, t, {[answer EXCEPT !.record = EmptyRecord]}) /\ UNCHANGED <<directory, client>>
    <2> DEFINE x == [answer EXCEPT !.record = EmptyRecord]
    <2>1. x \in Tasks /\ x.kind = "adopted" /\ x.record = EmptyRecord
      BY <1>1 DEF Tasks, TaskKind, AnyRecord
    <2>2. TaskOK(c, x)
      <3>1. EmptyRecord # NoRecord
        BY NobodysRecords
      <3>2. EmptyRecord.host[1] # c
        BY MeshAssumption DEF EmptyRecord, NoGuid
      <3> HIDE DEF x
      <3> QED
        BY <2>1, <3>1, <3>2 DEF TaskOK
    <2>3. Done(c, t, {x}) /\ UNCHANGED <<directory, client, link, banned>>
      BY <1>1, <1>3
    <2>4. {x} \in SUBSET Tasks
      BY <2>1
    <2> HIDE DEF x
    <2>5. \A y \in {x} : TaskOK(c, y) /\ (y.kind = "adopted" => y.record = EmptyRecord)
      BY <2>1, <2>2
    <2> QED
      BY <1>1, <2>3, <2>4, <2>5, IdleStep
  <1>4. ASSUME client[c].record # NoRecord, ~Listed(UserOf[c]), OpensGame(c, Guid(c)),
               Done(c, t, {[answer EXCEPT !.record = Adopted(c, NewGame)]}),
               client' = [client EXCEPT ![c].hostGame = NewGame]
        PROVE  IInv'
    <2> DEFINE x == [answer EXCEPT !.record = Adopted(c, NewGame)]
               r == [client[c] EXCEPT !.hostGame = NewGame]
               T == (tasks[c] \ {t}) \cup {x}
    <2>1. /\ Guid(c) \in Guids /\ client[c].life >= 1 /\ client[c] \in ClientState
          /\ tasks[c] \in SUBSET Tasks /\ \A y \in tasks[c] : TaskOK(c, y)
          /\ client[c].life \in Nat /\ client[c].life <= Lives[c] /\ UserOf[c] \in Users
      BY <1>4, Typed, MeshAssumption DEF IInv, TypeInv, ClientOK
    <2>2. NewGame \in Games /\ Directory!Open(NewGame, UserOf[c], Guid(c))
      BY <1>4 DEF OpensGame
    <2>3. /\ open' \subseteq Games /\ closed' \subseteq Games
          /\ host' \in [open' -> Users] /\ address' \in [open' -> Guids]
          /\ NewGame \in open' /\ host'[NewGame] = UserOf[c] /\ address'[NewGame] = Guid(c)
          /\ \A id \in open : id \in open' /\ host'[id] = host[id] /\ address'[id] = address[id]
      BY <2>1, <2>2, Opening
    <2>4. /\ r \in ClientState /\ r.app = client[c].app /\ r.life = client[c].life
          /\ r.record = client[c].record /\ r.joining = client[c].joining /\ r.hostGame = NewGame
      <3> HIDE DEF NewGame
      <3> QED
        BY <2>1, <2>2 DEF ClientState
    <2>5. client' = [client EXCEPT ![c] = r] /\ tasks' = [tasks EXCEPT ![c] = T]
      BY <1>4, Typed DEF Done
    <2>6. /\ Adopted(c, NewGame) \in Records
          /\ Adopted(c, NewGame).host = Guid(c) /\ Adopted(c, NewGame).id = NewGame
      <3> HIDE DEF NewGame
      <3> QED
        BY <2>1, <2>2 DEF Adopted, Records
    <2>7. x \in Tasks /\ x.kind = "adopted" /\ x.record = Adopted(c, NewGame)
      <3> HIDE DEF NewGame
      <3> QED
        BY <1>1, <2>6 DEF Tasks, TaskKind, AnyRecord
    <2>8. TaskOK(c, x)
      <3>1. Adopted(c, NewGame) # NoRecord
        BY <2>6, NobodysRecords
      <3>2. Guid(c)[2] <= client[c].life
        BY <2>1 DEF Guid
      <3> HIDE DEF x
      <3> QED
        BY <2>6, <2>7, <3>1, <3>2 DEF TaskOK
    <2>9. \A q \in Claims(c) : client[c].app = "in" /\ q # NoRecord => q.host # Guid(c)
      BY <1>4 DEF IInv, ClaimsKept, Lists, Listed
    <2>10. r.app = "in" =>
             \A q \in {r.record} \cup {y.record : y \in {z \in T : z.kind = "adopted"}} :
               q # NoRecord /\ q.host = <<c, r.life>> =>
                 /\ q.id \in open' /\ host'[q.id] = UserOf[c] /\ address'[q.id] = <<c, r.life>>
                 /\ r.hostGame = q.id
      <3> SUFFICES ASSUME r.app = "in",
                          NEW q \in {r.record} \cup {y.record : y \in {z \in T : z.kind = "adopted"}},
                          q # NoRecord, q.host = <<c, r.life>>
                   PROVE  /\ q.id \in open' /\ host'[q.id] = UserOf[c] /\ address'[q.id] = <<c, r.life>>
                          /\ r.hostGame = q.id
        OBVIOUS
      <3>1. Guid(c) = <<c, r.life>>
        BY <2>4 DEF Guid
      <3>2. q \in Claims(c) \/ q = x.record
        BY <2>4, Typed DEF Claims
      <3>3. q = Adopted(c, NewGame)
        BY <2>4, <2>7, <2>9, <3>1, <3>2
      <3> HIDE DEF x, r, NewGame
      <3> QED
        BY <2>3, <2>4, <2>6, <3>1, <3>3
    <2>11. \A d \in Clients \ {c} : \A id \in Games :
             Lists(d, id) => id \in open' /\ host'[id] = host[id] /\ address'[id] = address[id]
      BY <2>3 DEF Lists
    <2>12. T \in SUBSET Tasks /\ \A y \in T : TaskOK(c, y)
      <3> HIDE DEF x
      <3> QED
        BY <2>1, <2>7, <2>8
    <2>13. r.life <= Lives[c] /\ client[c].life <= r.life /\ r.life >= 1
      BY <2>1, <2>4
    <2> HIDE DEF x, r, T
    <2> QED
      BY <1>1, <2>3, <2>4, <2>5, <2>10, <2>11, <2>12, <2>13, ClientStep
  <1> QED
    BY <1>2, <1>3, <1>4 DEF AdoptTask

\* The other tasks: an adoption that begins too late, the answer to one, whose
\* record the client claimed already, and the announcement.
LEMMA RunTaskKeeps ==
  ASSUME IInv, NEW c \in Clients, RunTask(c)
  PROVE  IInv'
  <1>1. PICK t \in tasks[c] :
          \/ ChallengeTask(c, t) \/ ResponseTask(c, t) \/ AdmitTask(c, t) \/ BootTask(c, t)
          \/ AcceptedTask(c, t) \/ AdoptTask(c, t) \/ OldAdoptTask(c, t) \/ AdoptedTask(c, t)
          \/ AnnounceTask(c, t)
    BY DEF RunTask
  <1>2. /\ {} \in SUBSET Tasks /\ packets \in [Clients -> Seq(Packets)]
        /\ \A x \in {} : TaskOK(c, x) /\ (x.kind = "adopted" => x.record = EmptyRecord)
        /\ Sent(c, Guids, "NEWHOST") \in [Clients -> Seq(Packets)]
    BY Typed, Sending DEF IInv, PacketType
  <1>3. CASE Die(c) /\ UNCHANGED directory
    BY <1>3, DieKeeps
  <1>4. CASE OldAdoptTask(c, t) /\ ~Die(c)
    <2>1. Done(c, t, {}) /\ UNCHANGED <<directory, client, packets, link, banned>>
      BY <1>4 DEF OldAdoptTask
    <2> QED
      BY <1>2, <2>1, IdleStep
  <1>5. CASE AdoptedTask(c, t) /\ Started(c)
    <2> DEFINE r == [client[c] EXCEPT !.record = t.record]
    <2>1. /\ client' = [client EXCEPT ![c] = r] /\ packets' = Sent(c, Guids, "NEWHOST")
          /\ Done(c, t, {}) /\ UNCHANGED <<directory, link, banned>> /\ t.kind = "adopted"
      BY <1>5, Typed DEF AdoptedTask
    <2>2. t.record \in AnyRecord /\ t.record \in Claims(c) /\ client[c] \in ClientState
      BY <2>1, Typed DEF Tasks
    <2>3. /\ r \in ClientState /\ r.app = client[c].app /\ r.life = client[c].life
          /\ r.hostGame = client[c].hostGame /\ r.joining = client[c].joining
          /\ r.record = t.record
      BY <2>2 DEF ClientState
    <2>4. link' \subseteq Guids \X Guids /\ banned' \subseteq Guids \X Clients
      BY <2>1, Typed
    <2> HIDE DEF r
    <2> QED
      BY <1>2, <1>5, <2>1, <2>2, <2>3, <2>4, LastStep DEF Started
  <1>6. CASE AnnounceTask(c, t)
    <2>1. /\ Done(c, t, {}) /\ UNCHANGED <<directory, client, link, banned>>
          /\ packets' \in [Clients -> Seq(Packets)]
      BY <1>2, <1>6 DEF AnnounceTask
    <2> QED
      BY <1>2, <2>1, IdleStep
  <1> QED
    BY <1>1, <1>3, <1>4, <1>5, <1>6, HandshakeKeeps, AdoptKeeps DEF AdoptedTask, OldAdoptTask

-----------------------------------------------------------------------------
(* The cleaner *)

\* A cleaner in time closes a game that nobody claims.
LEMMA CleanUpKeeps ==
  ASSUME IInv, NEW g \in Games, Timely(g), CleanUp(g)
  PROVE  IInv'
  <1>1. /\ ~Refreshed(g) /\ Directory!Close(g) /\ UNCHANGED <<client, packets, tasks, link, banned>>
        /\ \A c \in Clients : \A t \in tasks[c] : t.kind = "adopted" => t.record.id # g
    BY DEF Timely, CleanUp
  <1>2. /\ open' \subseteq Games /\ closed' \subseteq Games
        /\ host' \in [open' -> Users] /\ address' \in [open' -> Guids]
        /\ \A id \in open \ {g} : id \in open' /\ host'[id] = host[id] /\ address'[id] = address[id]
    BY <1>1, Closing
  <1>3. TypeInv'
    <2>1. TypeOK'
      BY <1>1, <1>2 DEF IInv, TypeInv, TypeOK
    <2>2. \A c \in Clients : ClientOK(c)' /\ \A t \in tasks'[c] : TaskOK(c, t)'
      BY <1>1 DEF IInv, TypeInv, ClientOK, TaskOK
    <2> QED
      BY <2>1, <2>2 DEF TypeInv
  <1>4. ASSUME NEW c \in Clients, client[c].app = "in", NEW r \in Claims(c),
               r # NoRecord, r.host = Guid(c)
        PROVE  Lists(c, r.id)'
    <2>1. Lists(c, r.id)
      BY <1>4 DEF IInv, ClaimsKept
    <2>2. r.id # g
      <3> SUFFICES ASSUME r.id = g
                   PROVE  FALSE
        OBVIOUS
      <3>1. r = client[c].record
        BY <1>1, <1>4 DEF Claims
      <3>2. r \in Records
        BY <1>4, <3>1, Typed, NobodysRecords DEF AnyRecord, Guid
      <3>3. r = [id |-> g, host |-> Guid(c)]
        BY <1>4, <3>2 DEF Records
      <3> QED
        BY <1>1, <1>4, <2>1, <3>1, <3>3 DEF Refreshed, Lists
    <2> QED
      BY <1>1, <1>2, <2>1, <2>2 DEF Lists, Guid
  <1>5. ClaimsKept'
    BY <1>1, <1>4 DEF ClaimsKept, Claims, Guid
  <1> QED
    BY <1>3, <1>5 DEF IInv

-----------------------------------------------------------------------------
(* The theorems *)

\* Nobody has begun to play, and the directory is empty.
LEMMA Initial == Init => IInv
  <1> SUFFICES ASSUME Init PROVE IInv
    OBVIOUS
  <1>1. /\ open = {} /\ closed = {} /\ host = [g \in {} |-> g] /\ address = [g \in {} |-> g]
        /\ client = [c \in Clients |-> Unstarted] /\ packets = [c \in Clients |-> <<>>]
        /\ tasks = [c \in Clients |-> {}] /\ link = {} /\ banned = {}
    BY DEF Init, Directory!Init
  <1>2. Unstarted \in ClientState
    BY DEF Unstarted, ClientState, AnyRecord
  <1>3. TypeOK
    BY <1>1, <1>2 DEF TypeOK
  <1>4. \A c \in Clients : ClientOK(c) /\ \A t \in tasks[c] : TaskOK(c, t)
    BY <1>1, MeshAssumption DEF ClientOK, Unstarted
  <1>5. ClaimsKept
    BY <1>1 DEF ClaimsKept, Unstarted
  <1> QED
    BY <1>3, <1>4, <1>5 DEF IInv, TypeInv

\* No step of a client or of the directory breaks the invariant.
LEMMA Inductive == IInv /\ [Next]_vars => IInv'
  <1> SUFFICES ASSUME IInv, [Next]_vars PROVE IInv'
    OBVIOUS
  <1>1. CASE UNCHANGED vars
    BY <1>1 DEF vars, IInv, TypeInv, TypeOK, ClientOK, TaskOK, ClaimsKept, Claims, Lists, Guid
  <1>2. ASSUME NEW c \in Clients,
               Application(c) \/ FinishStop(c) \/ Connect(c) \/ Dispatch(c) \/ RunTask(c)
        PROVE  IInv'
    BY <1>2, ApplicationKeeps, FinishStopKeeps, ConnectKeeps, DispatchKeeps, RunTaskKeeps
  <1>3. ASSUME NEW g \in Games, Timely(g), CleanUp(g)
        PROVE  IInv'
    BY <1>3, CleanUpKeeps
  <1> QED
    BY <1>1, <1>2, <1>3 DEF Next

\* Whatever a record of a client claims is so, in every behaviour.
THEOREM Invariant == Spec => []IInv
  BY Initial, Inductive, PTL DEF Spec

\* Clients, packets, tasks, connections and the directory are what they are
\* meant to be.
THEOREM TypeCorrect == Spec => []TypeOK
  <1>1. IInv => TypeOK
    BY DEF IInv, TypeInv
  <1> QED
    BY <1>1, Invariant, PTL

\* A client that plays and whose record names it as the host has that game in
\* the directory, under its user, its guid and its session: adoptions, refused
\* adoptions, late answers, other hosts and the cleaner never part them.
THEOREM HostsAreListed == Spec => []HostKeepsGame
  <1>1. IInv => HostKeepsGame
    BY DEF IInv, ClaimsKept, Claims, Lists, HostKeepsGame
  <1> QED
    BY <1>1, Invariant, PTL

=============================================================================
