------------------------ MODULE GameMeshMembersProofs ------------------------
(***************************************************************************)
(* Theorems about the members of a mesh, for every set of clients, however *)
(* often they play: what a player and the host it joined know of each      *)
(* other, and what a client that stops leaves in the directory.            *)
(*                                                                         *)
(* What players know is about the first life of a client, in which no task *)
(* of an earlier one can surprise it; the others may be in any life.  The  *)
(* argument: whatever a step brings about has a cause, a packet, a task or *)
(* a request to connect, and a player that is connected to its host gets   *)
(* its packets from nobody else.                                           *)
(***************************************************************************)
EXTENDS GameMeshProofs

-----------------------------------------------------------------------------
(* The inductive invariant *)

Mail(d) == Range(packets[d])

\* A connection is between two clients as they are now, both of them started;
\* so is a client that is about to connect, to somebody else.
LinksCurrent ==
  \A l \in link : \A i \in {1, 2} : l[i] = Guid(l[i][1]) /\ Started(l[i][1])
JoinsOthers ==
  \A c \in Clients : client[c].joining # NoClient => Started(c) /\ client[c].joining # c

\* An address is listed once, and is of a life that has begun.
AddressesApart ==
  \A g, h \in open : address[g] = address[h] => g = h
AddressesBegun ==
  \A g \in open : address[g][2] <= client[address[g][1]].life

\* A user has one game, which is listed at an address of one of its clients.
UsersApart ==
  \A g, h \in open : host[g] = host[h] => g = h
HostsOwn ==
  \A g \in open : host[g] = UserOf[address[g][1]]

\* The answer to an adoption is a game of the client, or none; it says no more
\* than the game, so that no two answers are of one.
AnswersOwn ==
  \A c \in Clients : \A t \in tasks[c] :
    /\ t.kind \in {"adopt", "adopted"} => t.peer = NoGuid
    /\ t.kind = "adopted" => ~t.old /\ (t.record = EmptyRecord \/ t.record.host[1] = c)

\* The game of an answer stays listed until the answer is taken.
AnswersListed ==
  \A c \in Clients : \A t \in tasks[c] :
    t.kind = "adopted" /\ t.record # EmptyRecord =>
      /\ t.record.id \in open /\ address[t.record.id] = t.record.host
      /\ client[c].app = "in" => client[c].record # t.record

\* A client that has not played, or whose first connection is not made or was
\* refused: nobody has heard of it.
Alone(c) ==
  \/ client[c].life = 0
  \/ client[c].life = 1 /\ client[c].joining # NoClient
  \/ client[c].life = 1 /\ \E m \in Mail(c) : m.type = "NO_FREE"
Unheard(c) ==
  /\ tasks[c] = {}
  /\ \A m \in Mail(c) : m.type = "NO_FREE"
  /\ \A l \in link : l[1][1] # c /\ l[2][1] # c
  /\ \A g \in open : address[g][1] # c
  /\ \A d \in Clients : client[d].joining # c
  /\ \A d \in Clients \ {c} : \A m \in Mail(d) : m.from[1] # c
  /\ \A d \in Clients : \A t \in tasks[d] : t.peer[1] # c
  /\ client[c].joining # NoClient => Mail(c) = {} /\ client[c].players = {Guid(c)}
  /\ client[c].life = 0 => Mail(c) = {}
AloneUnheard == \A c \in Clients : Alone(c) => Unheard(c)

\* A player that is connected to the host it joined: it is nobody's host, it
\* hears from that host only, and the host hears from it what a player says.
Member(p, h) ==
  client[p].life = 1 /\ <<Guid(p), Guid(h)>> \in link
OnlyMember(p, h) ==
  /\ p # h
  /\ \A l \in link : l[2] # Guid(p) /\ (l[1] = Guid(p) => l[2] = Guid(h))
  /\ \A g \in open : address[g] # Guid(p)
  /\ \A d \in Clients : client[d].joining # p
MemberHears(p, h) ==
  /\ \A m \in Mail(p) :
       m.from = Guid(h) /\ m.type \in {"CHALLENGE", "ACCEPTED", "NEW_HOST", "NEWHOST"}
  /\ \A t \in tasks[p] : t.kind \in {"challenge", "accepted"}
HostHears(p, h) ==
  /\ \A m \in Mail(h) : m.from = Guid(p) => m.type \in {"INCOMING", "RESPONSE"}
  /\ \A t \in tasks[h] : t.peer = Guid(p) => t.kind \in {"response", "admit", "boot"}

\* The player lists the host, or is about to.
Accepted(p, h) ==
  \/ Guid(h) \in client[p].players
  \/ \E m \in Mail(p) : m.type = "ACCEPTED"
  \/ \E t \in tasks[p] : t.kind = "accepted"
MembersKnown ==
  \A p, h \in Clients :
    Member(p, h) =>
      /\ OnlyMember(p, h) /\ MemberHears(p, h) /\ HostHears(p, h)
      /\ Accepted(p, h) => Guid(p) \in client[h].players

\* The record of a client is of the game that is listed at its guid, unless an
\* adoption is being answered, or one was refused; in a later life the client
\* may also have been refused itself.
Owned(c, g) ==
  \/ client[c].record = EmptyRecord
  \/ client[c].record # NoRecord /\ client[c].record.id = g /\ client[c].record.host = Guid(c)
ListedOwned ==
  \A c \in Clients :
    client[c].app = "in" =>
      \A g \in open : address[g] = Guid(c) =>
        \/ Owned(c, g) \/ \E t \in tasks[c] : t.kind = "adopted"
        \/ client[c].life # 1 /\ client[c].record = NoRecord

Meeting ==
  /\ LinksCurrent /\ JoinsOthers /\ AddressesApart /\ AddressesBegun
  /\ UsersApart /\ HostsOwn /\ AnswersOwn /\ AnswersListed
  /\ AloneUnheard /\ MembersKnown /\ ListedOwned

MInv == IInv /\ Meeting

-----------------------------------------------------------------------------
(* What a step of a client brings about has a cause. *)

NewMail(d) == Range(packets'[d]) \ Mail(d)

HasTask(c, kinds) == \E t \in tasks[c] : t.kind \in kinds
HasMail(c, type) == \E m \in Mail(c) : m.type = type

\* The step is c's, in the life c is in; c comes to no connection but the one it
\* asked for.
OneActs(c) ==
  /\ \A d \in Clients \ {c} : client'[d] = client[d] /\ tasks'[d] = tasks[d]
  /\ client'[c].life = client[c].life
  /\ client'[c].joining \in {client[c].joining, NoClient}
LinksAsked(c) ==
  \A l \in link' \ link :
    /\ client[c].joining # NoClient /\ client'[c].joining = NoClient
    /\ l = <<Guid(c), Guid(client[c].joining)>> /\ Started(client[c].joining)
StaysOrLeaves(c) ==
  \/ client'[c].app = client[c].app
  \/ Started(c) /\ Started(c)'
  \/ client'[c].joining = NoClient /\ \A l \in link' : l[1] # Guid(c) /\ l[2] # Guid(c)

\* A task is submitted for a packet, or is what another one leaves behind.
TaskOfMail == {<<"CHALLENGE", "challenge">>, <<"RESPONSE", "response">>, <<"ACCEPTED", "accepted">>}
TaskOfTask == {<<"response", "admit">>, <<"response", "boot">>, <<"adopt", "adopted">>}
TasksCaused(c) ==
  \A t \in tasks'[c] \ tasks[c] :
    \/ \E m \in Mail(c) : m.from = t.peer /\ <<m.type, t.kind>> \in TaskOfMail
    \/ /\ \E m \in Mail(c) : m.from = Guid(c) /\ m.type = "NEW_HOST"
       /\ t.kind \in {"adopt", "announce"} /\ t.peer = NoGuid
    \/ \E s \in tasks[c] :
         s.peer = t.peer /\ (s.kind = t.kind \/ <<s.kind, t.kind>> \in TaskOfTask)

\* A packet that c sends to a peer, or puts into its own mailbox.
PeerMailCaused(c, d, type) ==
  /\ Guid(d) \in Peers(c)
  /\ \/ /\ type = "LOST"
        /\ <<Guid(c), Guid(d)>> \notin link' /\ <<Guid(d), Guid(c)>> \notin link'
     \/ type = "CHALLENGE" /\ HasMail(c, "INCOMING")
     \/ type = "RESPONSE" /\ \E t \in tasks[c] : t.kind = "challenge" /\ t.peer = Guid(d)
     \/ type = "ACCEPTED" /\ HasTask(c, {"admit"}) /\ Guid(d) \in client'[c].players
     \/ type = "NEW_HOST" /\ HasTask(c, {"admit"})
     \/ type = "NEWHOST" /\ HasTask(c, {"adopted", "announce"})
OwnMailCaused(c, type) ==
  \/ type = "NO_FREE" /\ client[c].joining # NoClient /\ client'[c].joining = NoClient /\ link' = link
  \/ type = "NEW_HOST" /\ (HasMail(c, "LOST") \/ HasTask(c, {"admit"}))
MailCaused(c) ==
  \A d \in Clients : \A m \in NewMail(d) :
    /\ m.from = Guid(c)
    /\ \/ PeerMailCaused(c, d, m.type)
       \/ d = c /\ OwnMailCaused(c, m.type)
       \/ m.type = "INCOMING" /\ d = client[c].joining /\ <<Guid(c), Guid(d)>> \in link'

\* A player is listed by a task, and is off the list when it is lost or parted.
PlayersCaused(c) ==
  /\ \A g \in client'[c].players \ client[c].players :
       \E t \in tasks[c] : t.kind \in {"admit", "accepted"} /\ t.peer = g
  /\ \A g \in client[c].players \ client'[c].players :
       \/ \E m \in Mail(c) : m.type = "LOST" /\ m.from = g
       \/ <<g, Guid(c)>> \notin link' /\ (HasTask(c, {"boot"}) \/ client'[c].joining = NoClient)

\* A game is opened by an adoption, which will be answered with it, and closed by
\* the client whose record it is.
GamesCaused(c) ==
  /\ \A g \in open' :
       \/ g \in open /\ address'[g] = address[g] /\ host'[g] = host[g]
       \/ /\ g \notin open /\ address'[g] = Guid(c) /\ host'[g] = UserOf[c]
          /\ \A h \in open : address[h] # Guid(c) /\ host[h] # UserOf[c]
          /\ \A h \in open' \ {g} : h \in open
          /\ HasTask(c, {"adopt"}) /\ \E t \in tasks'[c] : t.kind = "adopted"
  /\ \A g \in open \ open' :
       /\ client[c].app = "in" /\ client[c].record # NoRecord
       /\ client[c].record.id = g /\ client[c].record.host = Guid(c)
AnswersCaused(c) ==
  \A t \in tasks'[c] \ tasks[c] :
    t.kind = "adopted" =>
      /\ ~t.old
      /\ \/ t.record = EmptyRecord
         \/ t.record.host = Guid(c) /\ t.record.id \in open' \ open
         \/ \E s \in tasks[c] : s.kind = "adopted" /\ s.record = t.record

\* The record is changed by the answer to an adoption, or by a refused connection.
RecordCaused(c) ==
  client'[c].app = "in" =>
    /\ client[c].app = "in"
    /\ \/ client'[c].record = client[c].record /\ \A t \in tasks[c] \ tasks'[c] : t.kind # "adopted"
       \/ \E t \in tasks[c] \ tasks'[c] : t.kind = "adopted" /\ client'[c].record = t.record
       \/ HasMail(c, "NO_FREE") /\ client'[c].record = NoRecord

\* A client begins to stop when it is killed, or finds that it has no game.
StopCaused(c) ==
  client[c].app = "in" /\ client'[c].app = "closing" =>
    KillClient(c) \/ (client[c].record = NoRecord /\ UNCHANGED directory)

Caused(c) ==
  /\ OneActs(c) /\ LinksAsked(c) /\ StaysOrLeaves(c)
  /\ TasksCaused(c) /\ MailCaused(c) /\ PlayersCaused(c)
  /\ GamesCaused(c) /\ AnswersCaused(c) /\ RecordCaused(c) /\ StopCaused(c)

-----------------------------------------------------------------------------
(* Lemmas *)

\* A guid says whose it is.
LEMMA GuidOwner ==
  /\ \A c \in Clients : Guid(c)[1] = c /\ Guid(c)[2] = client[c].life
  /\ \A c, d \in Clients : Guid(c) = Guid(d) => c = d
  /\ NoGuid[1] \notin Clients
  BY MeshAssumption DEF Guid, NoGuid

\* Nobody changes its guid in a step with a cause.
LEMMA GuidsStay ==
  ASSUME NEW c \in Clients, Caused(c), NEW d \in Clients
  PROVE  client'[d].life = client[d].life /\ Guid(d)' = Guid(d)
  BY DEF Caused, OneActs, Guid

\* A peer is at the other end of a connection, and both are as they are now.
LEMMA PeersCurrent ==
  ASSUME LinksCurrent, NEW c \in Clients, NEW g \in Peers(c)
  PROVE  /\ g = Guid(g[1]) /\ Started(c) /\ Started(g[1])
         /\ <<Guid(c), g>> \in link \/ <<g, Guid(c)>> \in link
  <1>1. CASE <<Guid(c), g>> \in link
    <2>1. /\ <<Guid(c), g>>[1] = Guid(c) /\ <<Guid(c), g>>[2] = g
      OBVIOUS
    <2>2. Started(Guid(c)[1]) /\ g = Guid(g[1]) /\ Started(g[1])
      BY <1>1, <2>1 DEF LinksCurrent
    <2> QED
      BY <1>1, <2>2, GuidOwner
  <1>2. CASE <<g, Guid(c)>> \in link
    <2>1. /\ <<g, Guid(c)>>[2] = Guid(c) /\ <<g, Guid(c)>>[1] = g
      OBVIOUS
    <2>2. Started(Guid(c)[1]) /\ g = Guid(g[1]) /\ Started(g[1])
      BY <1>2, <2>1 DEF LinksCurrent
    <2> QED
      BY <1>2, <2>2, GuidOwner
  <1> QED
    BY <1>1, <1>2 DEF Peers

-----------------------------------------------------------------------------
(* Steps with a cause keep the invariant. *)

\* Connections are of clients that are started.
LEMMA LinksStayCurrent ==
  ASSUME MInv, NEW c \in Clients, Caused(c)
  PROVE  LinksCurrent' /\ JoinsOthers'
  <1>1. LinksCurrent /\ JoinsOthers /\ OneActs(c) /\ LinksAsked(c) /\ StaysOrLeaves(c)
    BY DEF MInv, Meeting, Caused
  <1>2. \A d \in Clients : Guid(d)' = Guid(d)
    BY GuidsStay
  <1>3. \A d \in Clients \ {c} : client'[d] = client[d]
    BY <1>1 DEF OneActs
  <1>4. /\ client \in [Clients -> ClientState] /\ link \subseteq Guids \X Guids
        /\ client'[c].joining \in {client[c].joining, NoClient}
    BY <1>1, Typed DEF MInv, OneActs
  <1>5. JoinsOthers'
    <2> SUFFICES ASSUME NEW d \in Clients, client'[d].joining # NoClient
                 PROVE  Started(d)' /\ client'[d].joining # d
      BY DEF JoinsOthers
    <2>1. Started(d) /\ client[d].joining # d /\ client'[d].joining = client[d].joining
      BY <1>1, <1>3, <1>4 DEF JoinsOthers
    <2>2. Started(d)'
      BY <1>1, <1>3, <2>1 DEF Started, StaysOrLeaves
    <2> QED
      BY <2>1, <2>2
  <1>6. LinksCurrent'
    <2> SUFFICES ASSUME NEW l \in link', NEW i \in {1, 2}
                 PROVE  l[i] = Guid(l[i][1])' /\ Started(l[i][1])'
      BY DEF LinksCurrent
    <2>1. l[i] = Guid(l[i][1]) /\ Started(l[i][1]) /\ l[i][1] \in Clients
      <3>1. CASE l \in link
        <4>1. l[i] \in Guids
          BY <1>4, <3>1
        <4> QED
          BY <1>1, <3>1, <4>1, GuidParts DEF LinksCurrent
      <3>2. CASE l \notin link
        <4>1. /\ l = <<Guid(c), Guid(client[c].joining)>> /\ client[c].joining # NoClient
              /\ Started(client[c].joining)
          BY <1>1, <3>2 DEF LinksAsked
        <4>2. Started(c) /\ client[c].joining \in Clients
          BY <1>1, <1>4, <4>1 DEF JoinsOthers, ClientState
        <4> QED
          BY <4>1, <4>2, GuidOwner
      <3> QED
        BY <3>1, <3>2
    <2>2. l[1] = Guid(c) \/ l[2] = Guid(c) => Started(c)'
      <3> SUFFICES ASSUME l[1] = Guid(c) \/ l[2] = Guid(c), client'[c].app = client[c].app
                   PROVE  Started(c)'
        BY <1>1 DEF StaysOrLeaves
      <3>1. Started(c)
        <4>1. CASE l \in link
          BY <1>1, <4>1, GuidOwner DEF LinksCurrent
        <4>2. CASE l \notin link
          BY <1>1, <4>2 DEF LinksAsked, JoinsOthers
        <4> QED
          BY <4>1, <4>2
      <3> QED
        BY <3>1 DEF Started
    <2>3. Started(l[i][1])'
      <3>1. CASE l[i][1] = c
        BY <2>1, <2>2, <3>1
      <3>2. CASE l[i][1] # c
        BY <1>3, <2>1, <3>2 DEF Started
      <3> QED
        BY <3>1, <3>2
    <2> QED
      BY <1>2, <2>1, <2>3
  <1> QED
    BY <1>5, <1>6

\* A game that an adoption opens is the only one at its address.
LEMMA AddressesStayApart ==
  ASSUME MInv, NEW c \in Clients, Caused(c)
  PROVE  AddressesApart' /\ AddressesBegun'
  <1>1. AddressesApart /\ AddressesBegun /\ GamesCaused(c)
    BY DEF MInv, Meeting, Caused
  <1>2. /\ \A d \in Clients : client'[d].life = client[d].life
        /\ \A g \in open : address[g] \in Guids /\ address[g][1] \in Clients
        /\ client[c].life \in Nat
    BY GuidsStay, GuidParts, Typed DEF MInv, IInv, TypeInv, TypeOK
  <1>3. AddressesApart'
    <2> SUFFICES ASSUME NEW g \in open', NEW h \in open', address'[g] = address'[h]
                 PROVE  g = h
      BY DEF AddressesApart
    <2> QED
      BY <1>1 DEF GamesCaused, AddressesApart
  <1>4. AddressesBegun'
    <2> SUFFICES ASSUME NEW g \in open'
                 PROVE  address'[g][2] <= client'[address'[g][1]].life
      BY DEF AddressesBegun
    <2>1. CASE g \in open /\ address'[g] = address[g]
      BY <1>1, <1>2, <2>1 DEF AddressesBegun
    <2>2. CASE address'[g] = Guid(c)
      BY <1>2, <2>2, GuidOwner
    <2> QED
      BY <1>1, <2>1, <2>2 DEF GamesCaused
  <1> QED
    BY <1>3, <1>4

\* An answer is of the client that asked.
LEMMA AnswersStayOwn ==
  ASSUME MInv, NEW c \in Clients, Caused(c)
  PROVE  AnswersOwn'
  <1> SUFFICES ASSUME NEW d \in Clients, NEW t \in tasks'[d]
               PROVE  /\ t.kind \in {"adopt", "adopted"} => t.peer = NoGuid
                      /\ t.kind = "adopted" =>
                           ~t.old /\ (t.record = EmptyRecord \/ t.record.host[1] = d)
    BY DEF AnswersOwn
  <1>1. /\ AnswersOwn /\ AnswersCaused(c) /\ TasksCaused(c) /\ (d # c => tasks'[d] = tasks[d])
    BY DEF MInv, Meeting, Caused, OneActs
  <1>2. t.kind \in {"adopt", "adopted"} => t.peer = NoGuid
    BY <1>1 DEF AnswersOwn, TasksCaused, TaskOfMail, TaskOfTask
  <1>3. t.kind = "adopted" => ~t.old /\ (t.record = EmptyRecord \/ t.record.host[1] = d)
    BY <1>1, GuidOwner DEF AnswersOwn, AnswersCaused
  <1> QED
    BY <1>2, <1>3

\* A user has one game, at an address of its own.
LEMMA UsersStayApart ==
  ASSUME MInv, NEW c \in Clients, Caused(c)
  PROVE  UsersApart' /\ HostsOwn'
  <1>1. UsersApart /\ HostsOwn /\ GamesCaused(c)
    BY DEF MInv, Meeting, Caused
  <1>2. UsersApart'
    <2> SUFFICES ASSUME NEW g \in open', NEW h \in open', host'[g] = host'[h]
                 PROVE  g = h
      BY DEF UsersApart
    <2> QED
      BY <1>1 DEF GamesCaused, UsersApart
  <1>3. HostsOwn'
    BY <1>1, GuidOwner DEF GamesCaused, HostsOwn
  <1> QED
    BY <1>2, <1>3

\* A game whose answer is on its way is closed by nobody, and taken for its record
\* once.
LEMMA AnswersStayListed ==
  ASSUME MInv, IInv', NEW c \in Clients, Caused(c)
  PROVE  AnswersListed'
  <1>1. /\ AnswersListed /\ AnswersOwn /\ AnswersOwn' /\ OneActs(c)
        /\ GamesCaused(c) /\ AnswersCaused(c) /\ RecordCaused(c)
    BY AnswersStayOwn DEF MInv, Meeting, Caused
  <1>2. ASSUME NEW d \in Clients, NEW s \in tasks[d], s.kind = "adopted", s.record # EmptyRecord
        PROVE  /\ s.record.id \in open' /\ address'[s.record.id] = s.record.host
    <2> DEFINE g == s.record.id
    <2>1. g \in open /\ address[g] = s.record.host /\ s.record.host[1] = d
      BY <1>1, <1>2 DEF AnswersListed, AnswersOwn
    <2>2. g \in open'
      <3> SUFFICES ASSUME g \notin open' PROVE FALSE
        OBVIOUS
      <3>1. /\ client[c].app = "in" /\ client[c].record # NoRecord
            /\ client[c].record.id = g /\ client[c].record.host = Guid(c)
        BY <1>1, <2>1 DEF GamesCaused
      <3>2. address[g] = Guid(c)
        BY <3>1, Typed DEF MInv, IInv, ClaimsKept, Lists
      <3>3. d = c /\ s.record.host = client[c].record.host /\ s.record.id = client[c].record.id
        BY <2>1, <3>1, <3>2, GuidOwner
      <3>4. s.record \in Records /\ client[c].record \in Records
        <4>1. s.record \in AnyRecord /\ client[c].record \in AnyRecord /\ s.record # NoRecord
          BY <1>2, Typed DEF MInv, Tasks, TaskOK
        <4>2. client[c].record # EmptyRecord
          BY <3>1, NobodysRecords DEF Guid
        <4> QED
          BY <1>2, <3>1, <4>1, <4>2 DEF AnyRecord
      <3>5. s.record = client[c].record
        BY <3>3, <3>4 DEF Records
      <3> QED
        BY <1>1, <1>2, <3>1, <3>3, <3>5 DEF AnswersListed
    <2> QED
      BY <1>1, <2>1, <2>2 DEF GamesCaused
  <1> SUFFICES ASSUME NEW d \in Clients, NEW t \in tasks'[d], t.kind = "adopted", t.record # EmptyRecord
               PROVE  /\ t.record.id \in open' /\ address'[t.record.id] = t.record.host
                      /\ client'[d].app = "in" => client'[d].record # t.record
    BY DEF AnswersListed
  <1>5. t \in Tasks /\ t.record # NoRecord
    <2>1. tasks' \in [Clients -> SUBSET Tasks] /\ TaskOK(d, t)'
      BY DEF IInv, TypeInv, TypeOK
    <2> QED
      BY <2>1 DEF TaskOK
  <1>3. CASE d # c
    <2>1. client'[d] = client[d] /\ t \in tasks[d]
      BY <1>1, <1>3 DEF OneActs
    <2> QED
      BY <1>1, <1>2, <2>1 DEF AnswersListed
  <1>4. CASE d = c
    <2>1. CASE \E s \in tasks[c] : s.kind = "adopted" /\ s.record = t.record
      <3>1. t.record.id \in open' /\ address'[t.record.id] = t.record.host
        BY <1>2, <2>1
      <3>2. client[c].app = "in" => client[c].record # t.record
        BY <1>1, <2>1 DEF AnswersListed
      <3>3. ASSUME NEW s \in tasks[c] \ tasks'[c], s.kind = "adopted", s.record = t.record
            PROVE  FALSE
        <4>1. s \in Tasks /\ t \in Tasks
          BY <1>4, <1>5, <3>3, Typed DEF MInv
        <4>2. s.peer = t.peer /\ s.old = t.old
          BY <1>1, <1>4, <3>3, <4>1 DEF AnswersOwn, Tasks
        <4>3. s = t
          BY <3>3, <4>1, <4>2 DEF Tasks
        <4> QED
          BY <1>4, <3>3, <4>3
      <3> QED
        BY <1>1, <1>4, <1>5, <3>1, <3>2, <3>3 DEF RecordCaused
    <2>2. CASE t \notin tasks[c] /\ t.record.host = Guid(c) /\ t.record.id \in open' \ open
      <3>1. address'[t.record.id] = t.record.host
        BY <1>1, <2>2 DEF GamesCaused
      <3>2. ASSUME client'[c].app = "in", client'[c].record = t.record
            PROVE  FALSE
        <4>1. client[c].app = "in"
          BY <1>1, <3>2 DEF RecordCaused
        <4>2. client[c].record # t.record
          BY <1>5, <2>2, <4>1, Typed DEF MInv, IInv, ClaimsKept, Lists
        <4>3. ASSUME NEW s \in tasks[c], s.kind = "adopted" PROVE s.record # t.record
          BY <1>1, <1>4, <2>2, <4>3 DEF AnswersListed
        <4> QED
          BY <1>1, <1>5, <3>2, <4>2, <4>3 DEF RecordCaused
      <3> QED
        BY <1>4, <2>2, <3>1, <3>2
    <2> QED
      BY <1>1, <1>4, <2>1, <2>2 DEF AnswersCaused
  <1> QED
    BY <1>3, <1>4

\* A client nobody has heard of stays so: it has nothing to act upon, and nobody
\* has it to act upon.
LEMMA AloneStaysUnheard ==
  ASSUME MInv, NEW c \in Clients, Caused(c)
  PROVE  AloneUnheard'
  <1> SUFFICES ASSUME NEW x \in Clients, Alone(x)'
               PROVE  Unheard(x)'
    BY DEF AloneUnheard
  <1>1. /\ AloneUnheard /\ LinksCurrent /\ JoinsOthers /\ OneActs(c) /\ LinksAsked(c)
        /\ TasksCaused(c) /\ MailCaused(c) /\ PlayersCaused(c) /\ GamesCaused(c)
    BY DEF MInv, Meeting, Caused
  <1>2. /\ \A d \in Clients : client'[d].life = client[d].life /\ Guid(d)' = Guid(d)
        /\ \A d \in Clients : client'[d].joining \in {client[d].joining, NoClient}
        /\ \A d \in Clients \ {c} : client'[d] = client[d] /\ tasks'[d] = tasks[d]
    BY <1>1, GuidsStay DEF OneActs
  <1>3. /\ client[x].joining # NoClient => client[x].life # 0
        /\ client[c].joining \in Clients \cup {NoClient}
    BY Typed DEF MInv, IInv, TypeInv, ClientOK, ClientState
  <1>4. Unheard(x)
    <2>1. ASSUME NEW m \in NewMail(x), m.type = "NO_FREE"
          PROVE  x = c /\ client[c].joining # NoClient
      BY <1>1, <2>1 DEF MailCaused, PeerMailCaused, OwnMailCaused
    <2>2. Alone(x)
      BY <1>2, <2>1 DEF Alone, NewMail, Mail
    <2> QED
      BY <1>1, <2>2 DEF AloneUnheard
  <1>5. \A l \in link' : l[1][1] # x /\ l[2][1] # x
    <2> SUFFICES ASSUME NEW l \in link', l \notin link
                 PROVE  l[1][1] # x /\ l[2][1] # x
      BY <1>4 DEF Unheard
    <2>1. /\ client[c].joining # NoClient /\ client'[c].joining = NoClient
          /\ l[1] = Guid(c) /\ l[2] = Guid(client[c].joining)
      BY <1>1 DEF LinksAsked
    <2>2. l[1][1] = c /\ l[2][1] = client[c].joining /\ client[c].joining # x
      BY <1>3, <1>4, <2>1, GuidOwner DEF Unheard
    <2>3. c # x
      <3> SUFFICES ASSUME c = x
                   PROVE  FALSE
        OBVIOUS
      <3>1. Mail(x) = {} /\ client'[x].life # 0
        BY <1>2, <1>3, <1>4, <2>1 DEF Unheard
      <3>2. PICK m \in NewMail(x) : m.type = "NO_FREE"
        BY <2>1, <3>1 DEF Alone, NewMail, Mail
      <3>3. link' = link
        BY <1>1, <3>2 DEF MailCaused, PeerMailCaused, OwnMailCaused
      <3> QED
        BY <3>3
    <2> QED
      BY <2>2, <2>3
  <1>6. /\ \A d \in Clients : Guid(x) \notin Peers(d)
        /\ \A d : d \notin Peers(x)
    BY <1>4, GuidOwner DEF Unheard, Peers
  <1>7. \A d \in Clients : \A t \in tasks'[d] : d # x /\ t.peer[1] # x
    <2> SUFFICES ASSUME NEW t \in tasks'[c], t \notin tasks[c]
                 PROVE  c # x /\ t.peer[1] # x
      BY <1>2, <1>4 DEF Unheard
    <2>1. ASSUME NEW m \in Mail(c), m.from = t.peer, <<m.type, t.kind>> \in TaskOfMail
          PROVE  c # x /\ t.peer[1] # x
      BY <1>4, <2>1 DEF Unheard, TaskOfMail
    <2>2. ASSUME NEW m \in Mail(c), m.type = "NEW_HOST", t.peer = NoGuid
          PROVE  c # x /\ t.peer[1] # x
      BY <1>4, <2>2, GuidOwner DEF Unheard
    <2>3. ASSUME NEW s \in tasks[c], s.peer = t.peer
          PROVE  c # x /\ t.peer[1] # x
      BY <1>4, <2>3 DEF Unheard
    <2> QED
      BY <1>1, <2>1, <2>2, <2>3 DEF TasksCaused
  <1>8. ASSUME NEW d \in Clients, NEW m \in NewMail(d), m.from[1] = x \/ d = x
        PROVE  d = x /\ m.type = "NO_FREE" /\ client[x].joining # NoClient /\ client'[x].joining = NoClient
    <2>1. /\ m.from = Guid(c) /\ m.from[1] = c
          /\ \/ PeerMailCaused(c, d, m.type)
             \/ d = c /\ OwnMailCaused(c, m.type)
             \/ d = client[c].joining /\ <<Guid(c), Guid(d)>> \in link'
      BY <1>1, GuidOwner DEF MailCaused
    <2>2. ~PeerMailCaused(c, d, m.type)
      BY <1>6, <1>8, <2>1 DEF PeerMailCaused
    <2>3. ~(d = client[c].joining /\ <<Guid(c), Guid(d)>> \in link')
      <3> SUFFICES ASSUME d = client[c].joining, <<Guid(c), Guid(d)>> \in link'
                   PROVE  FALSE
        OBVIOUS
      <3>1. d # x
        BY <1>4 DEF Unheard
      <3>2. c = x /\ <<Guid(c), Guid(d)>>[1][1] = c
        BY <1>8, <2>1, <3>1, GuidOwner
      <3> QED
        BY <1>5, <3>2
    <2>4. d = c /\ c = x /\ OwnMailCaused(c, m.type)
      BY <1>8, <2>1, <2>2, <2>3
    <2> QED
      BY <1>4, <2>4 DEF OwnMailCaused, Unheard, HasMail, HasTask
  <1>9. \A d \in Clients : \A m \in Range(packets'[d]) : m \in Mail(d) \/ m \in NewMail(d)
    BY DEF NewMail
  <1>10. /\ \A m \in Range(packets'[x]) : m.type = "NO_FREE"
         /\ \A d \in Clients \ {x} : \A m \in Range(packets'[d]) : m.from[1] # x
    BY <1>4, <1>8, <1>9 DEF Unheard
  <1>11. client'[x].life = 0 \/ client'[x].joining # NoClient => Range(packets'[x]) = {}
    <2> SUFFICES ASSUME client'[x].life = 0 \/ client'[x].joining # NoClient,
                        NEW m \in Range(packets'[x])
                 PROVE  FALSE
      OBVIOUS
    <2>1. m \in Mail(x) => FALSE
      BY <1>2, <1>4 DEF Unheard
    <2>2. m \in NewMail(x)
      BY <1>9, <2>1
    <2> QED
      BY <1>2, <1>3, <1>8, <2>2
  <1>12. \A g \in open' : address'[g][1] # x
    <2> SUFFICES ASSUME NEW g \in open'
                 PROVE  address'[g][1] # x
      OBVIOUS
    <2>1. CASE g \in open /\ address'[g] = address[g]
      BY <1>4, <2>1 DEF Unheard
    <2>2. CASE address'[g] = Guid(c) /\ HasTask(c, {"adopt"})
      BY <1>4, <2>2, GuidOwner DEF Unheard, HasTask
    <2> QED
      BY <1>1, <2>1, <2>2 DEF GamesCaused
  <1>13. \A d \in Clients : client'[d].joining # x
    BY <1>2, <1>4, MeshAssumption DEF Unheard
  <1>14. client'[x].joining # NoClient => client'[x].players = {Guid(x)'}
    <2> SUFFICES ASSUME client'[x].joining # NoClient
                 PROVE  client'[x].players = {Guid(x)'}
      OBVIOUS
    <2>1. client[x].players = {Guid(x)} /\ Mail(x) = {} /\ tasks[x] = {}
      BY <1>2, <1>4 DEF Unheard
    <2>2. CASE c # x
      BY <1>2, <2>1, <2>2
    <2>3. CASE c = x
      <3>1. client'[x].players \ client[x].players = {}
        BY <1>1, <2>1, <2>3 DEF PlayersCaused
      <3>2. client[x].players \ client'[x].players = {}
        BY <1>1, <2>1, <2>3 DEF PlayersCaused, HasTask
      <3> QED
        BY <1>2, <2>1, <3>1, <3>2
    <2> QED
      BY <2>2, <2>3
  <1> QED
    BY <1>5, <1>7, <1>10, <1>11, <1>12, <1>13, <1>14 DEF Unheard, Mail

\* A client that has just been connected is the host's member, and neither has
\* heard of the other before.
LEMMA NewMember ==
  ASSUME MInv, NEW c \in Clients, Caused(c), NEW p \in Clients, NEW h \in Clients,
         Member(p, h)', <<Guid(p), Guid(h)>> \notin link
  PROVE  /\ OnlyMember(p, h)' /\ MemberHears(p, h)' /\ HostHears(p, h)'
         /\ ~Accepted(p, h)'
  <1>1. /\ AloneUnheard /\ LinksCurrent /\ JoinsOthers /\ OneActs(c) /\ LinksAsked(c)
        /\ TasksCaused(c) /\ MailCaused(c) /\ PlayersCaused(c) /\ GamesCaused(c)
    BY DEF MInv, Meeting, Caused
  <1>2. /\ \A d \in Clients : client'[d].life = client[d].life /\ Guid(d)' = Guid(d)
        /\ \A d \in Clients : client'[d].joining \in {client[d].joining, NoClient}
        /\ \A d \in Clients \ {c} : client'[d] = client[d] /\ tasks'[d] = tasks[d]
        /\ client[c].joining \in Clients \cup {NoClient}
    BY <1>1, GuidsStay, Typed DEF OneActs, ClientState, MInv
  <1>3. <<Guid(p), Guid(h)>> \in link' /\ client[p].life = 1
    BY <1>2 DEF Member
  <1>4. p = c /\ h = client[c].joining /\ client[c].joining # NoClient /\ p # h
    <2>1. /\ client[c].joining # NoClient
          /\ <<Guid(p), Guid(h)>> = <<Guid(c), Guid(client[c].joining)>>
      BY <1>1, <1>3 DEF LinksAsked
    <2>2. Guid(p) = Guid(c) /\ Guid(h) = Guid(client[c].joining)
      BY <2>1
    <2> QED
      BY <1>1, <1>2, <2>1, <2>2, GuidOwner DEF JoinsOthers
  <1>5. Unheard(p) /\ Mail(p) = {} /\ tasks[p] = {} /\ client[p].players = {Guid(p)}
    BY <1>1, <1>3, <1>4 DEF AloneUnheard, Alone, Unheard
  <1>6. tasks'[p] = {}
    BY <1>1, <1>4, <1>5 DEF TasksCaused
  <1>7. Range(packets'[p]) = {}
    <2> SUFFICES ASSUME NEW m \in NewMail(p)
                 PROVE  FALSE
      BY <1>5 DEF NewMail
    <2>1. Guid(p) \notin Peers(p)
      BY <1>5, GuidOwner DEF Unheard, Peers
    <2>2. OwnMailCaused(p, m.type)
      BY <1>1, <1>4, <2>1 DEF MailCaused, PeerMailCaused
    <2>3. link' = link
      BY <1>5, <2>2 DEF OwnMailCaused, HasMail, HasTask
    <2> QED
      BY <1>3, <2>3
  <1>8. Guid(h) \notin client'[p].players
    <2>1. client'[p].players \ client[p].players = {}
      BY <1>1, <1>4, <1>5 DEF PlayersCaused
    <2> QED
      BY <1>4, <1>5, <2>1, GuidOwner
  <1>9. \A m \in Range(packets'[h]) : m.from = Guid(p) => m.type = "INCOMING"
    <2> SUFFICES ASSUME NEW m \in Range(packets'[h]), m.from = Guid(p)
                 PROVE  m.type = "INCOMING"
      OBVIOUS
    <2>1. m \in NewMail(h)
      BY <1>4, <1>5, GuidOwner DEF NewMail, Unheard
    <2>2. Guid(h) \notin Peers(p)
      BY <1>5, GuidOwner DEF Unheard, Peers
    <2> QED
      BY <1>1, <1>4, <2>1, <2>2 DEF MailCaused, PeerMailCaused
  <1>10. \A t \in tasks'[h] : t.peer # Guid(p)
    BY <1>2, <1>4, <1>5, GuidOwner DEF Unheard
  <1>11. /\ \A l \in link' : l[2] # Guid(p) /\ (l[1] = Guid(p) => l[2] = Guid(h))
         /\ \A g \in open' : address'[g] # Guid(p)
         /\ \A d \in Clients : client'[d].joining # p
    <2>1. ASSUME NEW l \in link'
          PROVE  l[2] # Guid(p) /\ (l[1] = Guid(p) => l[2] = Guid(h))
      <3>1. CASE l \in link
        BY <1>5, <3>1, GuidOwner DEF Unheard
      <3>2. CASE l \notin link
        <4>1. l = <<Guid(p), Guid(h)>>
          BY <1>1, <1>4, <3>2 DEF LinksAsked
        <4> QED
          BY <1>4, <4>1, GuidOwner
      <3> QED
        BY <3>1, <3>2
    <2>2. ASSUME NEW g \in open'
          PROVE  address'[g] # Guid(p)
      <3>1. g \in open /\ address'[g] = address[g]
        BY <1>1, <1>4, <1>5 DEF GamesCaused, HasTask
      <3> QED
        BY <1>5, <3>1, GuidOwner DEF Unheard
    <2>3. \A d \in Clients : client'[d].joining # p
      BY <1>2, <1>5, MeshAssumption DEF Unheard
    <2> QED
      BY <2>1, <2>2, <2>3
  <1>12. OnlyMember(p, h)'
    BY <1>2, <1>4, <1>11 DEF OnlyMember
  <1>13. MemberHears(p, h)' /\ HostHears(p, h)'
    BY <1>2, <1>6, <1>7, <1>9, <1>10 DEF MemberHears, HostHears, Mail
  <1>14. ~Accepted(p, h)'
    BY <1>2, <1>6, <1>7, <1>8 DEF Accepted, Mail
  <1> QED
    BY <1>12, <1>13, <1>14

\* A member goes on to hear from its host only, which goes on to hear from it
\* what a player says; and what the player is told is so.
LEMMA OldMember ==
  ASSUME MInv, NEW c \in Clients, Caused(c), NEW p \in Clients, NEW h \in Clients,
         Member(p, h)', <<Guid(p), Guid(h)>> \in link
  PROVE  /\ OnlyMember(p, h)' /\ MemberHears(p, h)' /\ HostHears(p, h)'
         /\ Accepted(p, h)' => Guid(p)' \in client'[h].players
  <1>1. /\ AloneUnheard /\ MembersKnown /\ OneActs(c) /\ LinksAsked(c) /\ TasksCaused(c)
        /\ MailCaused(c) /\ PlayersCaused(c) /\ GamesCaused(c)
    BY DEF MInv, Meeting, Caused
  <1>2. /\ \A d \in Clients : client'[d].life = client[d].life /\ Guid(d)' = Guid(d)
        /\ \A d \in Clients : client'[d].joining \in {client[d].joining, NoClient}
        /\ \A d \in Clients \ {c} : client'[d] = client[d] /\ tasks'[d] = tasks[d]
        /\ client[c].joining \in Clients \cup {NoClient}
    BY <1>1, GuidsStay, Typed DEF OneActs, ClientState, MInv
  <1>3. <<Guid(p), Guid(h)>> \in link' /\ client[p].life = 1 /\ Member(p, h)
    BY <1>2 DEF Member
  <1>4. /\ OnlyMember(p, h) /\ MemberHears(p, h) /\ HostHears(p, h)
        /\ Accepted(p, h) => Guid(p) \in client[h].players
    BY <1>1, <1>3 DEF MembersKnown
  <1>5. client[p].joining = NoClient
    <2>1. ~Unheard(p)
      BY <1>3, GuidOwner DEF Unheard, Member
    <2> QED
      BY <1>1, <1>3, <2>1 DEF AloneUnheard, Alone
  <1>6. /\ Guid(p) # Guid(h) /\ Guid(p) # NoGuid
        /\ \A d \in Clients : Guid(d) = Guid(p) => d = p
        /\ \A d \in Clients : Guid(p) \in Peers(d) => d = h
    BY <1>4, GuidOwner DEF OnlyMember, Peers
  <1>7. OnlyMember(p, h)'
    <2>1. ASSUME NEW l \in link'
          PROVE  l[2] # Guid(p) /\ (l[1] = Guid(p) => l[2] = Guid(h))
      <3>1. CASE l \in link
        BY <1>4, <3>1 DEF OnlyMember
      <3>2. CASE l \notin link
        <4>1. l = <<Guid(c), Guid(client[c].joining)>> /\ client[c].joining # NoClient
          BY <1>1, <3>2 DEF LinksAsked
        <4>2. c # p /\ client[c].joining # p
          BY <1>4, <1>5, <4>1 DEF OnlyMember
        <4> QED
          BY <1>2, <1>6, <4>1, <4>2
      <3> QED
        BY <3>1, <3>2
    <2>2. ASSUME NEW g \in open'
          PROVE  address'[g] # Guid(p)
      <3>1. ~(c = p /\ HasTask(c, {"adopt"}))
        BY <1>4 DEF MemberHears, HasTask
      <3> QED
        BY <1>1, <1>4, <1>6, <3>1 DEF GamesCaused, OnlyMember
    <2>3. \A d \in Clients : client'[d].joining # p
      BY <1>2, <1>4, MeshAssumption DEF OnlyMember
    <2> QED
      BY <1>2, <1>4, <2>1, <2>2, <2>3 DEF OnlyMember
  <1>8. ASSUME NEW m \in NewMail(p)
        PROVE  /\ m.from = Guid(h) /\ m.type \in {"CHALLENGE", "ACCEPTED", "NEW_HOST", "NEWHOST"}
               /\ m.type = "ACCEPTED" => Guid(p) \in client'[h].players
    <2>1. ~(p = c /\ OwnMailCaused(c, m.type))
      BY <1>4, <1>5 DEF OwnMailCaused, MemberHears, HasMail, HasTask
    <2>2. p # client[c].joining
      BY <1>4 DEF OnlyMember
    <2>3. PeerMailCaused(c, p, m.type) /\ m.from = Guid(c)
      BY <1>1, <2>1, <2>2 DEF MailCaused
    <2>4. c = h
      BY <1>6, <2>3 DEF PeerMailCaused
    <2>5. ~\E t \in tasks[c] : t.kind = "challenge" /\ t.peer = Guid(p)
      BY <1>4, <2>4 DEF HostHears
    <2> QED
      BY <1>3, <2>3, <2>4, <2>5 DEF PeerMailCaused
  <1>9. ASSUME NEW t \in tasks'[p]
        PROVE  t.kind \in {"challenge", "accepted"} /\ (t.kind = "accepted" => Accepted(p, h))
    <2>1. ASSUME NEW m \in Mail(p), <<m.type, t.kind>> \in TaskOfMail
          PROVE  t.kind \in {"challenge", "accepted"} /\ (t.kind = "accepted" => m.type = "ACCEPTED")
      BY <1>4, <2>1 DEF MemberHears, TaskOfMail
    <2>2. ~\E m \in Mail(p) : m.from = Guid(p) /\ m.type = "NEW_HOST"
      BY <1>4, <1>6 DEF MemberHears
    <2>3. ASSUME NEW s \in tasks[p], s.kind = t.kind \/ <<s.kind, t.kind>> \in TaskOfTask
          PROVE  t.kind \in {"challenge", "accepted"} /\ (t.kind = "accepted" => s.kind = "accepted")
      BY <1>4, <2>3 DEF MemberHears, TaskOfTask
    <2>4. CASE t \in tasks[p]
      BY <1>4, <2>4 DEF MemberHears, Accepted
    <2>5. CASE t \notin tasks[p]
      <3>1. c = p
        BY <1>2, <2>5
      <3> QED
        BY <1>1, <2>1, <2>2, <2>3, <2>5, <3>1 DEF TasksCaused, Accepted
    <2> QED
      BY <2>4, <2>5
  <1>10. MemberHears(p, h)'
    <2>1. \A m \in Range(packets'[p]) : m \in Mail(p) \/ m \in NewMail(p)
      BY DEF NewMail
    <2> QED
      BY <1>2, <1>4, <1>8, <1>9, <2>1 DEF MemberHears, Mail
  <1>11. ASSUME NEW m \in NewMail(h), m.from = Guid(p)
         PROVE  m.type \in {"INCOMING", "RESPONSE"}
    <2>1. c = p /\ p # h
      BY <1>1, <1>4, <1>6, <1>11 DEF MailCaused, OnlyMember
    <2>2. PeerMailCaused(c, h, m.type) \/ m.type = "INCOMING"
      BY <1>1, <1>5, <2>1 DEF MailCaused, OwnMailCaused
    <2> QED
      BY <1>3, <1>4, <2>1, <2>2 DEF PeerMailCaused, MemberHears, HasMail, HasTask
  <1>12. ASSUME NEW t \in tasks'[h], t.peer = Guid(p)
         PROVE  t.kind \in {"response", "admit", "boot"}
    <2>1. ASSUME NEW m \in Mail(h), m.from = t.peer, <<m.type, t.kind>> \in TaskOfMail
          PROVE  t.kind = "response"
      BY <1>4, <1>12, <2>1 DEF HostHears, TaskOfMail
    <2>2. ASSUME NEW s \in tasks[h], s.peer = t.peer,
                 s.kind = t.kind \/ <<s.kind, t.kind>> \in TaskOfTask
          PROVE  t.kind \in {"response", "admit", "boot"}
      BY <1>4, <1>12, <2>2 DEF HostHears, TaskOfTask
    <2>3. CASE t \in tasks[h]
      BY <1>4, <1>12, <2>3 DEF HostHears
    <2>4. CASE t \notin tasks[h]
      <3>1. c = h
        BY <1>2, <2>4
      <3> QED
        BY <1>1, <1>6, <1>12, <2>1, <2>2, <2>4, <3>1 DEF TasksCaused
    <2> QED
      BY <2>3, <2>4
  <1>13. HostHears(p, h)'
    <2>1. \A m \in Range(packets'[h]) : m \in Mail(h) \/ m \in NewMail(h)
      BY DEF NewMail
    <2> QED
      BY <1>2, <1>4, <1>11, <1>12, <2>1 DEF HostHears, Mail
  <1>14. Guid(p) \in client[h].players => Guid(p) \in client'[h].players
    <2> SUFFICES ASSUME Guid(p) \in client[h].players, Guid(p) \notin client'[h].players
                 PROVE  FALSE
      OBVIOUS
    <2>1. c = h
      BY <1>2
    <2>2. \/ \E m \in Mail(h) : m.type = "LOST" /\ m.from = Guid(p)
          \/ <<Guid(p), Guid(h)>> \notin link'
      BY <1>1, <2>1 DEF PlayersCaused
    <2> QED
      BY <1>3, <1>4, <2>2 DEF HostHears
  <1>15. ASSUME Accepted(p, h)'
         PROVE  Guid(p) \in client'[h].players
    <2>1. CASE Guid(h) \in client'[p].players
      <3>1. ASSUME Guid(h) \notin client[p].players
            PROVE  \E t \in tasks[p] : t.kind \in {"admit", "accepted"}
        <4>1. c = p
          BY <1>2, <2>1, <3>1
        <4> QED
          BY <1>1, <2>1, <3>1, <4>1 DEF PlayersCaused
      <3>2. Accepted(p, h)
        BY <1>4, <3>1 DEF Accepted, MemberHears
      <3> QED
        BY <1>4, <1>14, <3>2
    <2>2. ASSUME NEW m \in Range(packets'[p]), m.type = "ACCEPTED"
          PROVE  Guid(p) \in client'[h].players
      <3>1. m \in Mail(p) => Accepted(p, h)
        BY <2>2 DEF Accepted
      <3> QED
        BY <1>4, <1>8, <1>14, <2>2, <3>1 DEF NewMail
    <2>3. ASSUME NEW t \in tasks'[p], t.kind = "accepted"
          PROVE  Guid(p) \in client'[h].players
      BY <1>4, <1>9, <1>14, <2>3
    <2> QED
      BY <1>2, <1>15, <2>1, <2>2, <2>3 DEF Accepted, Mail
  <1> QED
    BY <1>2, <1>7, <1>10, <1>13, <1>15

\* Whoever is connected to the host it joined, since this step or before it.
LEMMA MembersStayKnown ==
  ASSUME MInv, NEW c \in Clients, Caused(c)
  PROVE  MembersKnown'
  <1> SUFFICES ASSUME NEW p \in Clients, NEW h \in Clients, Member(p, h)'
               PROVE  /\ OnlyMember(p, h)' /\ MemberHears(p, h)' /\ HostHears(p, h)'
                      /\ Accepted(p, h)' => Guid(p)' \in client'[h].players
    BY DEF MembersKnown
  <1> QED
    BY NewMember, OldMember

\* The record follows the game that is listed.
LEMMA ListedStaysOwned ==
  ASSUME MInv, NEW c \in Clients, Caused(c)
  PROVE  ListedOwned'
  <1>1. /\ ListedOwned /\ AloneUnheard /\ AnswersOwn /\ AnswersListed /\ UsersApart /\ HostsOwn
        /\ OneActs(c) /\ GamesCaused(c) /\ RecordCaused(c)
    BY DEF MInv, Meeting, Caused
  <1> SUFFICES ASSUME NEW x \in Clients, client'[x].app = "in",
                      NEW g \in open', address'[g] = Guid(x)'
               PROVE  \/ Owned(x, g)' \/ \E t \in tasks'[x] : t.kind = "adopted"
                      \/ client'[x].life # 1 /\ client'[x].record = NoRecord
    BY DEF ListedOwned
  <1>2. client'[x].life = client[x].life /\ Guid(x)' = Guid(x)
    BY GuidsStay
  <1>3. CASE x # c
    <2>1. client'[x] = client[x] /\ tasks'[x] = tasks[x]
      BY <1>1, <1>3 DEF OneActs
    <2>2. g \in open /\ address[g] = Guid(x)
      BY <1>1, <1>2, <1>3, GuidOwner DEF GamesCaused
    <2> QED
      BY <1>1, <1>2, <2>1, <2>2 DEF ListedOwned, Owned
  <1>4. CASE x = c
    <2>1. client[c].app = "in"
      BY <1>1, <1>4 DEF RecordCaused
    <2>2. CASE g \notin open
      BY <1>1, <1>4, <2>2 DEF GamesCaused
    <2>3. CASE g \in open
      <3>1. address[g] = Guid(c)
        BY <1>1, <1>2, <1>4, <2>3 DEF GamesCaused
      <3>2. \/ Owned(c, g) \/ \E t \in tasks[c] : t.kind = "adopted"
            \/ client[c].life # 1 /\ client[c].record = NoRecord
        BY <1>1, <2>1, <2>3, <3>1 DEF ListedOwned
      <3>3. CASE /\ client'[c].record = client[c].record
                 /\ \A t \in tasks[c] \ tasks'[c] : t.kind # "adopted"
        BY <1>2, <1>4, <3>2, <3>3 DEF Owned
      <3>4. ASSUME NEW t \in tasks[c], t.kind = "adopted", client'[c].record = t.record
            PROVE  Owned(c, g)'
        <4>1. t.record # NoRecord
          BY <3>4, Typed DEF MInv, TaskOK
        <4>2. CASE t.record # EmptyRecord
          <5>1. /\ t.record.id \in open /\ address[t.record.id] = t.record.host
                /\ t.record.host[1] = c
            BY <1>1, <3>4, <4>2 DEF AnswersListed, AnswersOwn
          <5>2. host[t.record.id] = UserOf[c] /\ host[g] = UserOf[c]
            BY <1>1, <2>3, <3>1, <5>1, GuidOwner DEF HostsOwn
          <5>3. t.record.id = g /\ t.record.host = Guid(c)
            BY <1>1, <2>3, <3>1, <5>1, <5>2 DEF UsersApart
          <5> QED
            BY <1>2, <1>4, <3>4, <4>1, <5>3 DEF Owned
        <4> QED
          BY <3>4, <4>2 DEF Owned
      <3>5. CASE HasMail(c, "NO_FREE") /\ client'[c].record = NoRecord
        <4>1. client[c].life # 1
          <5>1. ~Unheard(c)
            BY <2>3, <3>1, GuidOwner DEF Unheard
          <5> QED
            BY <1>1, <3>5, <5>1 DEF AloneUnheard, Alone, HasMail
        <4> QED
          BY <1>2, <1>4, <3>5, <4>1
      <3> QED
        BY <1>1, <1>4, <3>3, <3>4, <3>5 DEF RecordCaused
    <2> QED
      BY <2>2, <2>3
  <1> QED
    BY <1>3, <1>4

\* All of it.
LEMMA CausedKeeps ==
  ASSUME MInv, IInv', NEW c \in Clients, Caused(c)
  PROVE  Meeting'
  BY LinksStayCurrent, AddressesStayApart, UsersStayApart, AnswersStayOwn, AnswersStayListed,
     AloneStaysUnheard, MembersStayKnown, ListedStaysOwned DEF Meeting

-----------------------------------------------------------------------------
(* Mailboxes *)

\* What a mailbox holds after a packet is put into it, or taken from it.
LEMMA MailBoxes ==
  ASSUME NEW s \in Seq(Packets)
  PROVE  /\ \A m \in Packets : Range(Append(s, m)) = Range(s) \cup {m}
         /\ \A m \in Packets : Range(<<m>> \o s) = Range(s) \cup {m}
         /\ s # <<>> => Head(s) \in Range(s) /\ Range(Tail(s)) \subseteq Range(s)
  <1>1. ASSUME NEW m \in Packets
        PROVE  Range(Append(s, m)) = Range(s) \cup {m}
    <2>1. /\ DOMAIN Append(s, m) = 1 .. (Len(s) + 1) /\ DOMAIN s = 1 .. Len(s) /\ Len(s) \in Nat
          /\ \A i \in 1 .. Len(s) : Append(s, m)[i] = s[i]
          /\ Append(s, m)[Len(s) + 1] = m
      OBVIOUS
    <2>2. \A i \in 1 .. (Len(s) + 1) : i \in 1 .. Len(s) \/ i = Len(s) + 1
      BY <2>1
    <2> QED
      BY <2>1, <2>2 DEF Range
  <1>2. ASSUME NEW m \in Packets
        PROVE  Range(<<m>> \o s) = Range(s) \cup {m}
    <2>1. Range(<<m>>) = {m}
      BY DEF Range
    <2>2. <<m>> \in Seq(Packets)
      OBVIOUS
    <2>3. Range(<<m>> \o s) = Range(<<m>>) \cup Range(s)
      BY <2>2, RangeConcatenation, Zenon
    <2> QED
      BY <2>1, <2>3
  <1>3. ASSUME s # <<>>
        PROVE  Head(s) \in Range(s) /\ Range(Tail(s)) \subseteq Range(s)
    <2>1. /\ DOMAIN s = 1 .. Len(s) /\ Len(s) \in Nat /\ Len(s) >= 1 /\ Head(s) = s[1]
          /\ DOMAIN Tail(s) = 1 .. (Len(s) - 1)
          /\ \A i \in 1 .. (Len(s) - 1) : Tail(s)[i] = s[i + 1]
      BY <1>3
    <2>2. \A i \in 1 .. (Len(s) - 1) : i + 1 \in 1 .. Len(s)
      BY <2>1
    <2> QED
      BY <2>1, <2>2 DEF Range
  <1> QED
    BY <1>1, <1>2, <1>3

\* What is sent is found with the peers it was sent to.
LEMMA SentMail ==
  ASSUME IInv, NEW c \in Clients, NEW to, NEW type \in PacketType, NEW d \in Clients,
         NEW m \in Range(Sent(c, to, type)[d]), m \notin Mail(d)
  PROVE  Guid(d) \in Peers(c) /\ Guid(d) \in to /\ m.type = type /\ m.from = Guid(c)
  <1>1. packets[d] \in Seq(Packets)
    BY Typed
  <1>2. Guid(d) \in Peers(c) /\ Guid(d) \in to /\ m \in Range(Append(packets[d], Packet(type, c)))
    BY DEF Sent, Mail
  <1>3. Packet(type, c) \in Packets
    BY <1>2, PeersHaveGuids DEF IInv, Packet, Packets
  <1>4. m = Packet(type, c)
    BY <1>1, <1>2, <1>3, MailBoxes DEF Mail
  <1> QED
    BY <1>2, <1>4 DEF Packet

\* The packet the dispatcher takes was there, and the others were too.
LEMMA TakenMail ==
  ASSUME IInv, NEW c \in Clients, packets[c] # <<>>
  PROVE  /\ Head(packets[c]) \in Mail(c) /\ Head(packets[c]).from = From(c)
         /\ Range(Tail(packets[c])) \subseteq Mail(c)
  BY Typed, MailBoxes DEF Mail, From

-----------------------------------------------------------------------------
(* Every step has its causes: the application *)

\* An unchanged directory opens and closes nothing.
LEMMA QuietGames ==
  ASSUME NEW c \in Clients, UNCHANGED directory
  PROVE  GamesCaused(c)
  BY DEF GamesCaused, directory

\* A client that is gone causes the loss of its connections, and nothing else.
LEMMA LeavingCaused ==
  ASSUME MInv, NEW c \in Clients, NEW gone \in {Stopped(c), Dead(c)}, LeaveMesh(c, gone)
  PROVE  MailCaused(c) /\ LinksAsked(c) /\ StaysOrLeaves(c) /\ PlayersCaused(c)
  <1>1. /\ client' = [client EXCEPT ![c] = gone]
        /\ packets' = [Sent(c, Guids, "LOST") EXCEPT ![c] = <<>>]
        /\ link' = {l \in link : Guid(c) \notin {l[1], l[2]}}
    BY DEF LeaveMesh
  <1>2. /\ client'[c] = gone /\ gone.joining = NoClient /\ gone.players = {}
        /\ Sent(c, Guids, "LOST") \in [Clients -> Seq(Packets)]
    BY <1>1, StoppedClient, Typed, Sending DEF MInv, IInv, PacketType, Stopped, Dead, Unstarted
  <1>3. \A l \in link' : l \in link /\ l[1] # Guid(c) /\ l[2] # Guid(c)
    BY <1>1
  <1>4. ASSUME NEW d \in Clients, NEW m \in NewMail(d)
        PROVE  m.from = Guid(c) /\ PeerMailCaused(c, d, m.type)
    <2>1. d # c /\ packets'[d] = Sent(c, Guids, "LOST")[d]
      BY <1>1, <1>2, <1>4 DEF NewMail, Range
    <2>2. Guid(d) \in Peers(c) /\ m.type = "LOST" /\ m.from = Guid(c)
      BY <1>4, <2>1, SentMail DEF MInv, NewMail, PacketType
    <2>3. <<Guid(c), Guid(d)>> \notin link' /\ <<Guid(d), Guid(c)>> \notin link'
      BY <1>3
    <2> QED
      BY <2>2, <2>3 DEF PeerMailCaused
  <1> QED
    BY <1>2, <1>3, <1>4 DEF MailCaused, LinksAsked, StaysOrLeaves, PlayersCaused

\* The process ends.
LEMMA DieCaused ==
  ASSUME MInv, NEW c \in Clients, Die(c), UNCHANGED directory
  PROVE  Caused(c)
  <1>1. /\ LeaveMesh(c, Dead(c)) /\ client' = [client EXCEPT ![c] = Dead(c)]
        /\ tasks' = [tasks EXCEPT ![c] = {}]
    BY DEF Die, LeaveMesh
  <1>2. /\ client'[c] = Dead(c) /\ tasks'[c] = {}
        /\ \A d \in Clients \ {c} : client'[d] = client[d] /\ tasks'[d] = tasks[d]
        /\ Dead(c).app = "dead" /\ Dead(c).life = client[c].life /\ Dead(c).joining = NoClient
    BY <1>1, Typed, StoppedClient DEF MInv
  <1> QED
    BY <1>1, <1>2, LeavingCaused, QuietGames
       DEF Caused, OneActs, TasksCaused, AnswersCaused, RecordCaused, StopCaused

\* stopClient's end.
LEMMA FinishStopCaused ==
  ASSUME MInv, NEW c \in Clients, FinishStop(c)
  PROVE  Caused(c)
  <1>1. /\ LeaveMesh(c, Stopped(c)) /\ client' = [client EXCEPT ![c] = Stopped(c)]
        /\ tasks' = [tasks EXCEPT ![c] = {[t EXCEPT !.old = (t.kind = "adopt")] : t \in tasks[c]}]
        /\ UNCHANGED directory
    BY DEF FinishStop, LeaveMesh
  <1>2. /\ client'[c] = Stopped(c)
        /\ tasks'[c] = {[t EXCEPT !.old = (t.kind = "adopt")] : t \in tasks[c]}
        /\ \A d \in Clients \ {c} : client'[d] = client[d] /\ tasks'[d] = tasks[d]
        /\ Stopped(c).app = "out" /\ Stopped(c).life = client[c].life /\ Stopped(c).joining = NoClient
    BY <1>1, Typed, StoppedClient DEF MInv
  <1>3. \A t \in tasks'[c] : \E s \in tasks[c] :
          s.kind = t.kind /\ s.peer = t.peer /\ s.record = t.record /\ (t.kind = "adopted" => ~t.old)
    <2> SUFFICES ASSUME NEW s \in tasks[c], NEW t, t = [s EXCEPT !.old = (s.kind = "adopt")]
                 PROVE  /\ s.kind = t.kind /\ s.peer = t.peer /\ s.record = t.record
                        /\ t.kind = "adopted" => ~t.old
      BY <1>2
    <2>1. s \in Tasks
      BY Typed DEF MInv
    <2>2. s.kind # "adopt" => t = [s EXCEPT !.old = FALSE]
      OBVIOUS
    <2> QED
      BY <2>1, <2>2 DEF Tasks
  <1>4. TasksCaused(c) /\ AnswersCaused(c)
    BY <1>3 DEF TasksCaused, AnswersCaused
  <1>5. OneActs(c) /\ GamesCaused(c) /\ RecordCaused(c) /\ StopCaused(c)
    BY <1>1, <1>2, QuietGames DEF OneActs, RecordCaused, StopCaused
  <1> QED
    BY <1>1, <1>4, <1>5, LeavingCaused DEF Caused

\* killClient deletes a game, and causes nothing yet.
LEMMA KillClientCaused ==
  ASSUME MInv, NEW c \in Clients, KillClient(c)
  PROVE  Caused(c)
  <1>1. CASE client[c].record = EmptyRecord
    BY <1>1, DieCaused DEF KillClient
  <1>2. CASE client[c].record # EmptyRecord
    <2>1. /\ client[c].app = "in"
          /\ client' = [client EXCEPT ![c].app = "closing", ![c].record = NoRecord]
          /\ UNCHANGED <<packets, tasks, link, banned>>
          /\ \/ UNCHANGED directory
             \/ /\ Directory!Close(client[c].record.id)
                /\ client[c].record # NoRecord /\ client[c].record.host = Guid(c)
      BY <1>2 DEF KillClient, DeleteGame, OwnsRecord
    <2>2. /\ client'[c] = [client[c] EXCEPT !.app = "closing", !.record = NoRecord]
          /\ \A d \in Clients \ {c} : client'[d] = client[d] /\ tasks'[d] = tasks[d]
          /\ tasks'[c] = tasks[c] /\ client[c] \in ClientState
      BY <2>1, Typed DEF MInv
    <2>3. /\ client'[c].app = "closing" /\ client'[c].life = client[c].life
          /\ client'[c].joining = client[c].joining /\ client'[c].players = client[c].players
      BY <2>2 DEF ClientState
    <2>4. \A d \in Clients : NewMail(d) = {}
      BY <2>1 DEF NewMail, Mail
    <2>5. GamesCaused(c)
      BY <2>1, QuietGames DEF GamesCaused, Directory!Close
    <2>6. OneActs(c) /\ LinksAsked(c) /\ StaysOrLeaves(c) /\ TasksCaused(c) /\ AnswersCaused(c)
      BY <2>1, <2>2, <2>3
         DEF OneActs, LinksAsked, StaysOrLeaves, Started, TasksCaused, AnswersCaused
    <2>7. MailCaused(c) /\ PlayersCaused(c) /\ RecordCaused(c) /\ StopCaused(c)
      BY <2>3, <2>4 DEF MailCaused, PlayersCaused, RecordCaused, StopCaused
    <2> QED
      BY <2>5, <2>6, <2>7 DEF Caused
  <1> QED
    BY <1>1, <1>2

\* RakNet connects a client to the one it asked for, or refuses.
LEMMA ConnectCaused ==
  ASSUME MInv, NEW c \in Clients, Connect(c)
  PROVE  Caused(c)
  <1> DEFINE h == client[c].joining
  <1>1. /\ h # NoClient /\ client' = [client EXCEPT ![c].joining = NoClient]
        /\ open' = open /\ address' = address /\ tasks' = tasks /\ UNCHANGED directory
    BY DEF Connect, directory
  <1>2. /\ client'[c] = [client[c] EXCEPT !.joining = NoClient] /\ client[c] \in ClientState
        /\ \A d \in Clients \ {c} : client'[d] = client[d] /\ tasks'[d] = tasks[d]
        /\ tasks'[c] = tasks[c] /\ h \in Clients /\ Started(c) /\ h # c
        /\ packets \in [Clients -> Seq(Packets)] /\ Guid(c) \in Guids
    <2>1. JoinsOthers /\ client[c] \in ClientState
      BY Typed DEF MInv, Meeting
    <2>2. h \in Clients /\ Started(c) /\ h # c
      BY <1>1, <2>1 DEF JoinsOthers, ClientState
    <2> QED
      BY <1>1, <2>1, <2>2, Typed DEF MInv
  <1>3. /\ client'[c].life = client[c].life /\ client'[c].app = client[c].app
        /\ client'[c].joining = NoClient /\ client'[c].players = client[c].players
        /\ client'[c].record = client[c].record
    BY <1>2 DEF ClientState
  <1>4. \/ /\ Connected(c, h) /\ link' = link \cup {<<Guid(c), Guid(h)>>}
           /\ packets' = [packets EXCEPT ![h] = Append(@, Packet("INCOMING", c))]
        \/ packets' = [packets EXCEPT ![c] = Append(@, Packet("NO_FREE", c))] /\ link' = link
        \/ packets' = packets /\ link' = link
    BY DEF Connect
  <1>5. /\ Packet("INCOMING", c) \in Packets /\ Packet("NO_FREE", c) \in Packets
        /\ Packet("INCOMING", c).from = Guid(c) /\ Packet("INCOMING", c).type = "INCOMING"
        /\ Packet("NO_FREE", c).from = Guid(c) /\ Packet("NO_FREE", c).type = "NO_FREE"
    BY <1>2 DEF Packet, Packets, PacketType
  <1>6. LinksAsked(c)
    BY <1>1, <1>3, <1>4 DEF LinksAsked, Connected, Started
  <1>7. MailCaused(c)
    <2> SUFFICES ASSUME NEW d \in Clients, NEW m \in NewMail(d)
                 PROVE  /\ m.from = Guid(c)
                        /\ \/ PeerMailCaused(c, d, m.type)
                           \/ d = c /\ OwnMailCaused(c, m.type)
                           \/ m.type = "INCOMING" /\ d = h /\ <<Guid(c), Guid(d)>> \in link'
      BY DEF MailCaused
    <2> HIDE DEF h
    <2>1. CASE /\ link' = link \cup {<<Guid(c), Guid(h)>>}
               /\ packets' = [packets EXCEPT ![h] = Append(@, Packet("INCOMING", c))]
      <3>1. d = h /\ m \in Range(Append(packets[h], Packet("INCOMING", c)))
        BY <1>2, <2>1 DEF NewMail, Mail
      <3>2. m = Packet("INCOMING", c)
        BY <1>2, <1>5, <3>1, MailBoxes DEF NewMail, Mail
      <3> QED
        BY <1>5, <2>1, <3>1, <3>2
    <2>2. CASE packets' = [packets EXCEPT ![c] = Append(@, Packet("NO_FREE", c))] /\ link' = link
      <3>1. d = c /\ m \in Range(Append(packets[c], Packet("NO_FREE", c)))
        BY <1>2, <2>2 DEF NewMail, Mail
      <3>2. m = Packet("NO_FREE", c)
        BY <1>2, <1>5, <3>1, MailBoxes DEF NewMail, Mail
      <3> QED
        BY <1>1, <1>3, <1>5, <2>2, <3>1, <3>2 DEF OwnMailCaused, h
    <2>3. CASE packets' = packets
      BY <2>3 DEF NewMail, Mail
    <2> QED
      BY <1>4, <2>1, <2>2, <2>3
  <1>8. OneActs(c) /\ StaysOrLeaves(c) /\ GamesCaused(c) /\ StopCaused(c)
    BY <1>1, <1>2, <1>3, QuietGames DEF OneActs, StaysOrLeaves, StopCaused
  <1>9. PlayersCaused(c) /\ TasksCaused(c) /\ AnswersCaused(c) /\ RecordCaused(c)
    BY <1>2, <1>3 DEF PlayersCaused, TasksCaused, AnswersCaused, RecordCaused
  <1> QED
    BY <1>6, <1>7, <1>8, <1>9 DEF Caused

-----------------------------------------------------------------------------
(* Every step has its causes: the dispatcher *)

\* What every packet's handling has in common.
LEMMA DispatchCommon ==
  ASSUME MInv, NEW c \in Clients, Dispatch(c)
  PROVE  /\ client[c].app = "in" /\ packets[c] # <<>> /\ Head(packets[c]) \in Mail(c)
         /\ Head(packets[c]).from = From(c) /\ Range(Tail(packets[c])) \subseteq Mail(c)
         /\ open' = open /\ address' = address /\ link' = link /\ UNCHANGED directory
         /\ packets \in [Clients -> Seq(Packets)]
         /\ Tail(packets[c]) \in Seq(Packets) /\ Guid(c) \in Guids
         /\ client \in [Clients -> ClientState] /\ tasks \in [Clients -> SUBSET Tasks]
         /\ Alive(c) \in {"in", "closing"}
         /\ Alive(c) = "closing" => client[c].record = NoRecord
  <1>1. client[c].app = "in" /\ packets[c] # <<>> /\ UNCHANGED <<directory, link>>
    BY DEF Dispatch, ConnectionLost, NewConnection, NoFreeConnections, NewHost, ProtocolMessage,
           Receive, Received
  <1>2. open' = open /\ address' = address /\ link' = link
    BY <1>1 DEF directory
  <1>3. /\ Head(packets[c]) \in Mail(c) /\ Head(packets[c]).from = From(c)
        /\ Range(Tail(packets[c])) \subseteq Mail(c)
    BY <1>1, TakenMail DEF MInv
  <1>4. /\ packets \in [Clients -> Seq(Packets)] /\ Guid(c) \in Guids
        /\ client \in [Clients -> ClientState] /\ tasks \in [Clients -> SUBSET Tasks]
    BY <1>1, Typed DEF MInv
  <1>5. Tail(packets[c]) \in Seq(Packets)
    BY <1>1, Taken DEF MInv
  <1> QED
    BY <1>1, <1>2, <1>3, <1>4, <1>5 DEF Alive

\* What the dispatcher does to its client, and what it submits.
DispatchFields(c, r) ==
  /\ r.life = client[c].life /\ r.joining = client[c].joining
  /\ r.app \in {"in", "closing"} /\ (r.app = "closing" => client[c].record = NoRecord)
  /\ r.record = client[c].record \/ (HasMail(c, "NO_FREE") /\ r.record = NoRecord)
  /\ \A g \in r.players : g \in client[c].players
  /\ \A g \in client[c].players \ r.players : \E m \in Mail(c) : m.type = "LOST" /\ m.from = g
Submitted(c, T) ==
  /\ tasks[c] \subseteq T
  /\ \A t \in T \ tasks[c] :
       /\ t.kind # "adopted"
       /\ \/ \E m \in Mail(c) : m.from = t.peer /\ <<m.type, t.kind>> \in TaskOfMail
          \/ /\ \E m \in Mail(c) : m.from = Guid(c) /\ m.type = "NEW_HOST"
             /\ t.kind \in {"adopt", "announce"} /\ t.peer = NoGuid

\* A step of the dispatcher whose packets have causes.
LEMMA DispatchStepCaused ==
  ASSUME MInv, NEW c \in Clients, Dispatch(c), NEW r \in ClientState, NEW T \in SUBSET Tasks,
         client' = [client EXCEPT ![c] = r], tasks' = [tasks EXCEPT ![c] = T],
         DispatchFields(c, r), Submitted(c, T), MailCaused(c)
  PROVE  Caused(c)
  <1>1. /\ client'[c] = r /\ tasks'[c] = T
        /\ \A d \in Clients \ {c} : client'[d] = client[d] /\ tasks'[d] = tasks[d]
    BY DispatchCommon
  <1>2. OneActs(c) /\ LinksAsked(c) /\ StaysOrLeaves(c) /\ GamesCaused(c)
    BY <1>1, DispatchCommon, QuietGames
       DEF DispatchFields, OneActs, LinksAsked, StaysOrLeaves, Started
  <1>3. TasksCaused(c) /\ AnswersCaused(c)
    BY <1>1 DEF Submitted, TasksCaused, AnswersCaused
  <1>4. PlayersCaused(c)
    BY <1>1 DEF DispatchFields, PlayersCaused
  <1>5. RecordCaused(c) /\ StopCaused(c)
    BY <1>1, DispatchCommon DEF DispatchFields, Submitted, RecordCaused, StopCaused
  <1> QED
    BY <1>2, <1>3, <1>4, <1>5 DEF Caused

\* Whatever packet is received.
LEMMA DispatchCaused ==
  ASSUME MInv, NEW c \in Clients, Dispatch(c)
  PROVE  Caused(c)
  <1>1. /\ client[c].app = "in" /\ Head(packets[c]) \in Mail(c) /\ Head(packets[c]).from = From(c)
        /\ Range(Tail(packets[c])) \subseteq Mail(c) /\ link' = link
        /\ packets \in [Clients -> Seq(Packets)]
        /\ Tail(packets[c]) \in Seq(Packets) /\ Guid(c) \in Guids
        /\ client \in [Clients -> ClientState] /\ tasks \in [Clients -> SUBSET Tasks]
        /\ Alive(c) \in {"in", "closing"}
        /\ Alive(c) = "closing" => client[c].record = NoRecord
    BY DispatchCommon
  <1>2. /\ client[c] \in ClientState /\ tasks[c] \in SUBSET Tasks /\ From(c) \in Guids
        /\ client = [client EXCEPT ![c] = client[c]] /\ tasks = [tasks EXCEPT ![c] = tasks[c]]
    BY <1>1, Taken, DispatchCommon DEF MInv
  <1>3. packets' = [packets EXCEPT ![c] = Tail(@)] => MailCaused(c)
    BY <1>1 DEF MailCaused, NewMail, Mail
  <1>9. Submitted(c, tasks[c])
    BY DEF Submitted
  <1>4. CASE ConnectionLost(c)
    <2> DEFINE orphaned == client[c].fcmHost = From(c)
               r == [client[c] EXCEPT !.players = @ \ {From(c)}, !.app = Alive(c),
                                      !.fcmHost = IF orphaned THEN Guid(c) ELSE @]
    <2>1. /\ Head(packets[c]).type = "LOST" /\ tasks' = tasks
          /\ packets' = [packets EXCEPT ![c] =
                (IF orphaned THEN <<Packet("NEW_HOST", c)>> ELSE <<>>) \o Tail(@)]
          /\ client' = [client EXCEPT ![c].players = @ \ {From(c)}, ![c].app = Alive(c),
                                      ![c].fcmHost = IF orphaned THEN Guid(c) ELSE @]
      BY <1>4 DEF ConnectionLost, Received
    <2>2. client' = [client EXCEPT ![c] = r]
      BY <1>1, <2>1
    <2>3. /\ r \in ClientState /\ r.life = client[c].life /\ r.joining = client[c].joining
          /\ r.app = Alive(c) /\ r.record = client[c].record
          /\ r.players = client[c].players \ {From(c)}
      BY <1>1, <1>2 DEF ClientState
    <2>4. ASSUME NEW d \in Clients, NEW m \in NewMail(d)
          PROVE  d = c /\ m = Packet("NEW_HOST", c)
      <3>1. Packet("NEW_HOST", c) \in Packets /\ <<>> \o Tail(packets[c]) = Tail(packets[c])
        BY <1>1 DEF Packet, Packets, PacketType
      <3>2. d = c
        BY <1>1, <2>1, <2>4 DEF NewMail, Mail
      <3>3. \/ packets'[c] = <<Packet("NEW_HOST", c)>> \o Tail(packets[c])
            \/ packets'[c] = Tail(packets[c])
        BY <1>1, <2>1, <3>1
      <3>4. Range(packets'[c]) \subseteq Range(Tail(packets[c])) \cup {Packet("NEW_HOST", c)}
        <4>1. /\ Range(<<Packet("NEW_HOST", c)>> \o Tail(packets[c]))
                   = Range(Tail(packets[c])) \cup {Packet("NEW_HOST", c)}
          BY <1>1, <3>1, MailBoxes
        <4> QED
          BY <3>3, <4>1
      <3> QED
        BY <1>1, <2>4, <3>2, <3>4 DEF NewMail
    <2>5. MailCaused(c)
      BY <1>1, <2>1, <2>4 DEF MailCaused, OwnMailCaused, HasMail, Packet
    <2>6. DispatchFields(c, r)
      BY <1>1, <2>1, <2>3 DEF DispatchFields
    <2> HIDE DEF r
    <2> QED
      BY <1>2, <1>9, <2>1, <2>2, <2>3, <2>5, <2>6, DispatchStepCaused
  <1>5. CASE NewConnection(c)
    <2> DEFINE r == [client[c] EXCEPT !.app = Alive(c)]
    <2> DEFINE sent == Sent(c, {From(c)}, "CHALLENGE")
    <2>1. /\ Head(packets[c]).type = "INCOMING" /\ tasks' = tasks
          /\ \/ packets' = [sent EXCEPT ![c] = Tail(@)]
             \/ packets' = [packets EXCEPT ![c] = Tail(@)]
          /\ client' = [client EXCEPT ![c].app = Alive(c)]
      BY <1>5 DEF NewConnection, Received
    <2>2. client' = [client EXCEPT ![c] = r]
      BY <1>1, <2>1
    <2>3. /\ r \in ClientState /\ r.life = client[c].life /\ r.joining = client[c].joining
          /\ r.app = Alive(c) /\ r.record = client[c].record /\ r.players = client[c].players
      BY <1>1, <1>2 DEF ClientState
    <2>4. MailCaused(c)
      <3> SUFFICES ASSUME packets' = [sent EXCEPT ![c] = Tail(@)],
                          NEW d \in Clients, NEW m \in NewMail(d)
                   PROVE  m.from = Guid(c) /\ PeerMailCaused(c, d, m.type)
        BY <1>3, <2>1 DEF MailCaused
      <3>1. sent \in [Clients -> Seq(Packets)] /\ sent[c] # <<>>
        <4>1. sent \in [Clients -> Seq(Packets)]
          BY Sending DEF MInv, IInv, PacketType
        <4>2. sent[c] = packets[c] \/ sent[c] = Append(packets[c], Packet("CHALLENGE", c))
          BY DEF Sent
        <4>3. packets[c] \in Seq(Packets) /\ packets[c] # <<>>
          BY <1>1, DispatchCommon
        <4>4. Append(packets[c], Packet("CHALLENGE", c)) # <<>>
          <5>1. Packet("CHALLENGE", c) \in Packets
            BY <1>1 DEF Packet, Packets, PacketType
          <5> QED
            BY <4>3, <5>1, AppendProperties
        <4> QED
          BY <4>1, <4>2, <4>3, <4>4
      <3>2. m \in Range(sent[d]) /\ m \notin Mail(d)
        <4> HIDE DEF sent
        <4>1. CASE d = c
          BY <3>1, <4>1, MailBoxes DEF NewMail
        <4>2. CASE d # c
          BY <3>1, <4>2 DEF NewMail
        <4> QED
          BY <4>1, <4>2
      <3>3. Guid(d) \in Peers(c) /\ m.type = "CHALLENGE" /\ m.from = Guid(c)
        BY <3>2, SentMail DEF MInv, PacketType
      <3> QED
        BY <1>1, <2>1, <3>3 DEF PeerMailCaused, HasMail
    <2>5. DispatchFields(c, r)
      BY <1>1, <2>3 DEF DispatchFields
    <2> HIDE DEF r
    <2> QED
      BY <1>2, <1>9, <2>1, <2>2, <2>3, <2>4, <2>5, DispatchStepCaused
  <1>6. CASE NoFreeConnections(c)
    <2> DEFINE r == [client[c] EXCEPT !.record = NoFreeRecord(c)]
    <2>1. /\ Head(packets[c]).type = "NO_FREE" /\ tasks' = tasks
          /\ packets' = [packets EXCEPT ![c] = Tail(@)]
          /\ client' = [client EXCEPT ![c].record = NoFreeRecord(c)]
      BY <1>6 DEF NoFreeConnections, Receive, Received
    <2>2. client' = [client EXCEPT ![c] = r]
      BY <1>1, <2>1
    <2>3. /\ r \in ClientState /\ r.life = client[c].life /\ r.joining = client[c].joining
          /\ r.app = client[c].app /\ r.players = client[c].players /\ r.record = NoRecord
      BY <1>2 DEF ClientState, AnyRecord, NoFreeRecord
    <2>4. HasMail(c, "NO_FREE")
      BY <1>1, <2>1 DEF HasMail
    <2>5. DispatchFields(c, r)
      BY <1>1, <2>3, <2>4 DEF DispatchFields
    <2> HIDE DEF r
    <2> QED
      BY <1>2, <1>3, <1>9, <2>1, <2>2, <2>3, <2>5, DispatchStepCaused
  <1>7. CASE NewHost(c)
    <2> DEFINE isHost == From(c) = Guid(c)
               r == [client[c] EXCEPT !.fcmHost = From(c), !.app = IF isHost THEN Alive(c) ELSE @]
               T == IF isHost /\ client[c].record # NoRecord
                    THEN tasks[c] \cup {HostTask(c)} ELSE tasks[c]
    <2>1. /\ Head(packets[c]).type = "NEW_HOST"
          /\ packets' = [packets EXCEPT ![c] = Tail(@)]
          /\ tasks' = IF isHost /\ client[c].record # NoRecord
                      THEN [tasks EXCEPT ![c] = @ \cup {HostTask(c)}] ELSE tasks
          /\ client' = [client EXCEPT ![c].fcmHost = From(c),
                                      ![c].app = IF isHost THEN Alive(c) ELSE @]
      BY <1>7 DEF NewHost, Receive, Received
    <2>2. client' = [client EXCEPT ![c] = r]
      BY <1>1, <2>1
    <2>3. tasks' = [tasks EXCEPT ![c] = T]
      BY <1>1, <1>2, <2>1
    <2>4. /\ r \in ClientState /\ r.life = client[c].life /\ r.joining = client[c].joining
          /\ r.record = client[c].record /\ r.players = client[c].players
          /\ r.app \in {"in", "closing"}
          /\ r.app = "closing" => client[c].record = NoRecord
      BY <1>1, <1>2 DEF ClientState
    <2>5. /\ HostTask(c) \in Tasks /\ HostTask(c).kind \in {"adopt", "announce"}
          /\ HostTask(c).peer = NoGuid
      BY DEF HostTask, Task, Tasks, TaskKind, AnyRecord
    <2>6. /\ T \in SUBSET Tasks /\ tasks[c] \subseteq T
          /\ \A t \in T \ tasks[c] : t = HostTask(c) /\ isHost
      BY <1>2, <2>5
    <2>7. \A t \in T \ tasks[c] :
            /\ \E m \in Mail(c) : m.from = Guid(c) /\ m.type = "NEW_HOST"
            /\ t.kind \in {"adopt", "announce"} /\ t.peer = NoGuid
      BY <1>1, <2>1, <2>5, <2>6
    <2>8. MailCaused(c)
      BY <1>3, <2>1
    <2>9. DispatchFields(c, r) /\ Submitted(c, T)
      <3> HIDE DEF r, T
      <3>1. Submitted(c, T)
        BY <2>5, <2>6, <2>7 DEF Submitted
      <3> QED
        BY <2>4, <3>1 DEF DispatchFields
    <2> HIDE DEF r, T
    <2> QED
      BY <2>2, <2>3, <2>4, <2>6, <2>8, <2>9, DispatchStepCaused
  <1>8. CASE ProtocolMessage(c)
    <2>1. PICK type \in {"CHALLENGE", "RESPONSE", "ACCEPTED", "NEWHOST"} :
            /\ Receive(c, type) /\ client' = client
            /\ tasks' = IF From(c) \notin client[c].players /\ type \in DOMAIN StrangerTask
                        THEN [tasks EXCEPT ![c] = @ \cup {Task(StrangerTask[type], From(c))}]
                        ELSE tasks
      BY <1>8 DEF ProtocolMessage
    <2>2. Head(packets[c]).type = type /\ packets' = [packets EXCEPT ![c] = Tail(@)]
      BY <2>1 DEF Receive, Received
    <2>3. DispatchFields(c, client[c]) /\ MailCaused(c)
      BY <1>1, <1>3, <2>2 DEF DispatchFields
    <2>4. CASE tasks' = tasks
      BY <1>2, <1>9, <2>1, <2>3, <2>4, DispatchStepCaused
    <2>5. CASE /\ type \in DOMAIN StrangerTask
               /\ tasks' = [tasks EXCEPT ![c] = @ \cup {Task(StrangerTask[type], From(c))}]
      <3> DEFINE t == Task(StrangerTask[type], From(c))
      <3>1. <<type, StrangerTask[type]>> \in TaskOfMail
        BY <2>5 DEF StrangerTask, TaskOfMail
      <3>2. StrangerTask[type] \in TaskKind /\ StrangerTask[type] # "adopted"
        BY <3>1 DEF TaskOfMail, TaskKind
      <3>3. t \in Tasks /\ t.kind = StrangerTask[type] /\ t.peer = From(c)
        BY <1>2, <3>2 DEF Task, Tasks, AnyRecord
      <3>4. tasks' = [tasks EXCEPT ![c] = tasks[c] \cup {t}] /\ tasks[c] \cup {t} \in SUBSET Tasks
        BY <1>2, <2>5, <3>3
      <3> HIDE DEF t
      <3>5. \E m \in Mail(c) : m.from = t.peer /\ <<m.type, t.kind>> \in TaskOfMail
        BY <1>1, <2>2, <3>1, <3>3
      <3>6. Submitted(c, tasks[c] \cup {t})
        BY <3>2, <3>3, <3>5 DEF Submitted
      <3> QED
        BY <1>2, <2>1, <2>3, <3>4, <3>6, DispatchStepCaused
    <2> QED
      BY <2>1, <2>4, <2>5
  <1> QED
    BY <1>4, <1>5, <1>6, <1>7, <1>8 DEF Dispatch

-----------------------------------------------------------------------------
(* Every step has its causes: the tasks *)

\* What a task does to its client, and what it leaves behind.
TaskFields(c, r, t) ==
  /\ r.life = client[c].life /\ r.joining = client[c].joining /\ r.app = client[c].app
  /\ r.record = IF t.kind = "adopted" THEN t.record ELSE client[c].record
  /\ \A g \in r.players \ client[c].players : t.kind \in {"admit", "accepted"} /\ t.peer = g
  /\ \A g \in client[c].players \ r.players : t.kind = "boot" /\ <<g, Guid(c)>> \notin link'
LeftBehind(c, t, next) ==
  \A x \in next : /\ x.peer = t.peer /\ <<t.kind, x.kind>> \in TaskOfTask
                  /\ x.kind = "adopted" =>
                       /\ ~x.old
                       /\ \/ x.record = EmptyRecord
                          \/ x.record.host = Guid(c) /\ x.record.id \in open' \ open

\* A task whose packets and games have causes.
LEMMA TaskStepCaused ==
  ASSUME MInv, NEW c \in Clients, NEW t \in tasks[c], NEW r \in ClientState, NEW next,
         client' = [client EXCEPT ![c] = r], Done(c, t, next),
         TaskFields(c, r, t), LeftBehind(c, t, next), link' \subseteq link,
         MailCaused(c), GamesCaused(c)
  PROVE  Caused(c)
  <1>1. /\ client'[c] = r /\ tasks'[c] = (tasks[c] \ {t}) \cup next
        /\ \A d \in Clients \ {c} : client'[d] = client[d] /\ tasks'[d] = tasks[d]
    BY Typed DEF MInv, Done
  <1>2. OneActs(c) /\ LinksAsked(c) /\ StaysOrLeaves(c) /\ StopCaused(c)
    BY <1>1 DEF TaskFields, OneActs, LinksAsked, StaysOrLeaves, StopCaused
  <1>3. TasksCaused(c) /\ AnswersCaused(c)
    BY <1>1 DEF LeftBehind, TasksCaused, AnswersCaused
  <1>4. PlayersCaused(c)
    BY <1>1 DEF TaskFields, PlayersCaused, HasTask
  <1>5. RecordCaused(c)
    <2>1. t.kind = "adopted" => t \notin tasks'[c]
      BY <1>1 DEF LeftBehind, TaskOfTask
    <2> QED
      BY <1>1, <2>1 DEF TaskFields, RecordCaused
  <1> QED
    BY <1>2, <1>3, <1>4, <1>5 DEF Caused

\* A step that sends nothing, or one kind of packet to peers.
LEMMA SendingCaused ==
  ASSUME MInv, NEW c \in Clients
  PROVE  /\ packets' = packets => MailCaused(c)
         /\ \A to : \A type \in PacketType :
              /\ packets' = Sent(c, to, type)
              /\ \A d \in Clients : Guid(d) \in Peers(c) /\ Guid(d) \in to => PeerMailCaused(c, d, type)
              => MailCaused(c)
  <1>1. packets' = packets => MailCaused(c)
    BY DEF MailCaused, NewMail, Mail
  <1>2. ASSUME NEW to, NEW type \in PacketType, packets' = Sent(c, to, type),
               \A d \in Clients : Guid(d) \in Peers(c) /\ Guid(d) \in to => PeerMailCaused(c, d, type),
               NEW d \in Clients, NEW m \in NewMail(d)
        PROVE  m.from = Guid(c) /\ PeerMailCaused(c, d, m.type)
    BY <1>2, SentMail DEF MInv, NewMail
  <1> QED
    BY <1>1, <1>2 DEF MailCaused

\* The challenge and its answer, the admission and its answer.
LEMMA HandshakeCaused ==
  ASSUME MInv, NEW c \in Clients, NEW t \in tasks[c],
         ChallengeTask(c, t) \/ ResponseTask(c, t) \/ AdmitTask(c, t) \/ BootTask(c, t) \/ AcceptedTask(c, t)
  PROVE  Caused(c)
  <1> DEFINE p == t.peer
  <1>1. /\ client[c] \in ClientState /\ client = [client EXCEPT ![c] = client[c]]
        /\ packets \in [Clients -> Seq(Packets)] /\ p \in Guids
        /\ p[1] \in Clients /\ p = <<p[1], p[2]>>
        /\ client \in [Clients -> ClientState] /\ LinksCurrent
    <2>1. p \in Guids
      BY Typed DEF MInv, TaskOK, ChallengeTask, ResponseTask, AdmitTask, BootTask, AcceptedTask
    <2> QED
      BY <2>1, Typed, GuidParts DEF MInv, Meeting
  <1>2. LeftBehind(c, t, {})
    BY DEF LeftBehind
  <1>3. t.kind \notin {"adopted"} => TaskFields(c, client[c], t)
    BY DEF TaskFields
  <1>4. CASE Die(c) /\ UNCHANGED directory
    BY <1>4, DieCaused
  <1>5. CASE ChallengeTask(c, t) /\ Started(c)
    <2>1. /\ t.kind = "challenge" /\ packets' = Sent(c, {p}, "RESPONSE") /\ Done(c, t, {})
          /\ client' = client /\ link' = link /\ UNCHANGED directory
      BY <1>5 DEF ChallengeTask
    <2>2. \A d \in Clients : Guid(d) \in Peers(c) /\ Guid(d) \in {p} => PeerMailCaused(c, d, "RESPONSE")
      BY <2>1 DEF PeerMailCaused
    <2>3. MailCaused(c)
      BY <2>1, <2>2, SendingCaused DEF PacketType
    <2> QED
      BY <1>1, <1>2, <1>3, <2>1, <2>3, QuietGames, TaskStepCaused
  <1>6. CASE ResponseTask(c, t)
    <2> DEFINE next == IF client[c].record = NoRecord THEN {}
                       ELSE {Task(IF Validated(c) THEN "admit" ELSE "boot", p)}
    <2>1. /\ t.kind = "response" /\ Done(c, t, next) /\ packets' = packets /\ client' = client
          /\ link' = link /\ UNCHANGED directory
      BY <1>6 DEF ResponseTask
    <2>2. LeftBehind(c, t, next)
      BY <2>1 DEF LeftBehind, Task, TaskOfTask
    <2>3. MailCaused(c)
      BY <2>1, SendingCaused
    <2> HIDE DEF next
    <2> QED
      BY <1>1, <1>3, <2>1, <2>2, <2>3, QuietGames, TaskStepCaused
  <1>7. CASE AdmitTask(c, t) /\ Started(c)
    <2> DEFINE joins == p \in Peers(c)
               first == client[c].fcmHost = NoGuid
               told == Sent(c, {p}, "ACCEPTED")
               r == [client[c] EXCEPT !.players = client[c].players \cup {p},
                                      !.fcmHost = IF joins /\ first THEN Guid(c) ELSE @]
    <2>1. /\ t.kind = "admit" /\ Done(c, t, {}) /\ link' = link /\ UNCHANGED directory
          /\ client' = [client EXCEPT ![c].players = client[c].players \cup {p},
                                      ![c].fcmHost = IF joins /\ first THEN Guid(c) ELSE @]
          /\ packets' = [d \in Clients |->
               IF joins /\ (d = p[1] \/ (d = c /\ first))
               THEN Append(told[d], Packet("NEW_HOST", c)) ELSE told[d]]
      BY <1>7 DEF AdmitTask, WithPlayer
    <2>2. client' = [client EXCEPT ![c] = r]
      BY <1>1, <2>1
    <2>3. /\ r \in ClientState /\ r.life = client[c].life /\ r.joining = client[c].joining
          /\ r.app = client[c].app /\ r.record = client[c].record
          /\ r.players = client[c].players \cup {p}
      <3>1. Started(c) => Guid(c) \in Guids
        BY Typed DEF MInv, Started
      <3> QED
        BY <1>1, <1>7, <3>1 DEF ClientState
    <2>4. TaskFields(c, r, t)
      BY <2>1, <2>3 DEF TaskFields
    <2>5. told \in [Clients -> Seq(Packets)] /\ Packet("NEW_HOST", c) \in Packets
          /\ Packet("NEW_HOST", c).type = "NEW_HOST" /\ Packet("NEW_HOST", c).from = Guid(c)
      <3>1. Guid(c) \in Guids
        BY <1>7, Typed DEF MInv, Started
      <3> QED
        BY <3>1, Sending DEF MInv, IInv, PacketType, Packet, Packets
    <2>6. ASSUME NEW d \in Clients, NEW m \in NewMail(d)
          PROVE  /\ m.from = Guid(c)
                 /\ PeerMailCaused(c, d, m.type) \/ (d = c /\ OwnMailCaused(c, m.type))
      <3>1. CASE m \in Range(told[d])
        <4>1. Guid(d) \in Peers(c) /\ Guid(d) = p /\ m.type = "ACCEPTED" /\ m.from = Guid(c)
          BY <2>6, <3>1, SentMail DEF MInv, NewMail, PacketType
        <4>2. Guid(d) \in client'[c].players
          BY <1>1, <2>2, <2>3, <4>1
        <4>3. HasTask(c, {"admit"})
          BY <2>1 DEF HasTask
        <4>4. PeerMailCaused(c, d, "ACCEPTED")
          BY <4>1, <4>2, <4>3 DEF PeerMailCaused
        <4> QED
          BY <4>1, <4>4
      <3>2. CASE m \notin Range(told[d])
        <4>1. /\ joins /\ (d = p[1] \/ (d = c /\ first))
              /\ m \in Range(Append(told[d], Packet("NEW_HOST", c)))
          BY <2>1, <2>6, <3>2 DEF NewMail
        <4>2. m = Packet("NEW_HOST", c)
          <5> HIDE DEF told
          <5> QED
            BY <2>5, <3>2, <4>1, MailBoxes
        <4>3. d = p[1] => Guid(d) \in Peers(c)
          BY <1>1, <4>1, PeersCurrent
        <4> QED
          BY <2>1, <2>5, <4>1, <4>2, <4>3 DEF PeerMailCaused, OwnMailCaused, HasTask
      <3> QED
        BY <3>1, <3>2
    <2>7. MailCaused(c)
      BY <2>6 DEF MailCaused
    <2> HIDE DEF r
    <2> QED
      BY <1>1, <1>2, <2>1, <2>2, <2>3, <2>4, <2>7, QuietGames, TaskStepCaused
  <1>8. CASE BootTask(c, t) /\ Started(c)
    <2> DEFINE r == [client[c] EXCEPT !.players = client[c].players \ {p}]
    <2>1. /\ t.kind = "boot" /\ Done(c, t, {}) /\ UNCHANGED directory
          /\ client' = [client EXCEPT ![c].players = @ \ {p}]
          /\ link' = link \ {<<p, Guid(c)>>, <<Guid(c), p>>}
          /\ packets' = IF p \in Peers(c)
                        THEN [packets EXCEPT ![p[1]] = Append(@, Packet("LOST", c))] ELSE packets
      BY <1>8 DEF BootTask
    <2>2. client' = [client EXCEPT ![c] = r]
      BY <1>1, <2>1
    <2>3. /\ r \in ClientState /\ r.life = client[c].life /\ r.joining = client[c].joining
          /\ r.app = client[c].app /\ r.record = client[c].record
          /\ r.players = client[c].players \ {p}
      BY <1>1 DEF ClientState
    <2>4. TaskFields(c, r, t)
      BY <2>1, <2>3 DEF TaskFields
    <2>5. Packet("LOST", c) \in Packets
          /\ Packet("LOST", c).type = "LOST" /\ Packet("LOST", c).from = Guid(c)
      <3>1. Guid(c) \in Guids
        BY <1>8, Typed DEF MInv, Started
      <3> QED
        BY <3>1 DEF PacketType, Packet, Packets
    <2>6. ASSUME NEW d \in Clients, NEW m \in NewMail(d)
          PROVE  m.from = Guid(c) /\ PeerMailCaused(c, d, m.type)
      <3>1. /\ p \in Peers(c) /\ d = p[1] /\ m \in Range(Append(packets[d], Packet("LOST", c)))
        BY <1>1, <2>1, <2>6 DEF NewMail, Mail
      <3>2. m = Packet("LOST", c)
        BY <1>1, <2>5, <2>6, <3>1, MailBoxes DEF NewMail, Mail
      <3>3. Guid(d) = p
        BY <1>1, <3>1, PeersCurrent
      <3> QED
        BY <2>1, <2>5, <3>1, <3>2, <3>3 DEF PeerMailCaused
    <2>7. MailCaused(c)
      BY <2>6 DEF MailCaused
    <2> HIDE DEF r
    <2> QED
      BY <1>1, <1>2, <2>1, <2>2, <2>3, <2>4, <2>7, QuietGames, TaskStepCaused
  <1>9. CASE AcceptedTask(c, t)
    <2> DEFINE r == [client[c] EXCEPT !.players = client[c].players \cup {p}]
    <2>1. /\ t.kind = "accepted" /\ Done(c, t, {}) /\ UNCHANGED directory
          /\ client' = [client EXCEPT ![c].players = @ \cup {p}]
          /\ packets' = packets /\ link' = link
      BY <1>9 DEF AcceptedTask
    <2>2. client' = [client EXCEPT ![c] = r]
      BY <1>1, <2>1
    <2>3. /\ r \in ClientState /\ r.life = client[c].life /\ r.joining = client[c].joining
          /\ r.app = client[c].app /\ r.record = client[c].record
          /\ r.players = client[c].players \cup {p}
      BY <1>1 DEF ClientState
    <2>4. TaskFields(c, r, t)
      BY <2>1, <2>3 DEF TaskFields
    <2>5. MailCaused(c)
      BY <2>1, SendingCaused
    <2> HIDE DEF r
    <2> QED
      BY <1>1, <1>2, <2>1, <2>2, <2>3, <2>4, <2>5, QuietGames, TaskStepCaused
  <1> QED
    BY <1>4, <1>5, <1>6, <1>7, <1>8, <1>9 DEF ChallengeTask, AdmitTask, BootTask

\* The adoption, its answer, and the announcement.
LEMMA AdoptionCaused ==
  ASSUME MInv, NEW c \in Clients, NEW t \in tasks[c],
         AdoptTask(c, t) \/ OldAdoptTask(c, t) \/ AdoptedTask(c, t) \/ AnnounceTask(c, t)
  PROVE  Caused(c)
  <1>1. /\ client[c] \in ClientState /\ client = [client EXCEPT ![c] = client[c]]
        /\ client \in [Clients -> ClientState] /\ t \in Tasks
    BY Typed DEF MInv
  <1>2. LeftBehind(c, t, {})
    BY DEF LeftBehind
  <1>3. t.kind # "adopted" => TaskFields(c, client[c], t)
    BY DEF TaskFields
  <1>4. CASE Die(c) /\ UNCHANGED directory
    BY <1>4, DieCaused
  <1>5. CASE /\ t.kind \in {"adopt", "announce"} /\ Done(c, t, {})
             /\ UNCHANGED <<directory, client, packets, link>>
    BY <1>1, <1>2, <1>3, <1>5, SendingCaused, QuietGames, TaskStepCaused
  <1>6. CASE AdoptTask(c, t) /\ Done(c, t, {[t EXCEPT !.kind = "adopted", !.record = EmptyRecord]})
             /\ UNCHANGED <<directory, client>>
    <2> DEFINE x == [t EXCEPT !.kind = "adopted", !.record = EmptyRecord]
    <2>1. /\ t.kind = "adopt" /\ UNCHANGED <<directory, client, packets, link>> /\ Done(c, t, {x})
      BY <1>6 DEF AdoptTask
    <2>2. x.kind = "adopted" /\ x.peer = t.peer /\ x.record = EmptyRecord /\ ~x.old
      BY <1>1, <1>6 DEF Tasks, AdoptTask
    <2> HIDE DEF x
    <2>3. LeftBehind(c, t, {x})
      BY <2>1, <2>2 DEF LeftBehind, TaskOfTask
    <2> QED
      BY <1>1, <1>3, <2>1, <2>3, SendingCaused, QuietGames, TaskStepCaused
  <1>7. ASSUME AdoptTask(c, t), OpensGame(c, Guid(c)), client' = [client EXCEPT ![c].hostGame = NewGame],
               Done(c, t, {[t EXCEPT !.kind = "adopted", !.record = Adopted(c, NewGame)]})
        PROVE  Caused(c)
    <2> DEFINE x == [t EXCEPT !.kind = "adopted", !.record = Adopted(c, NewGame)]
               r == [client[c] EXCEPT !.hostGame = NewGame]
    <2>1. /\ t.kind = "adopt" /\ UNCHANGED <<packets, link>> /\ Done(c, t, {x})
          /\ client' = [client EXCEPT ![c] = r]
      BY <1>1, <1>7 DEF AdoptTask
    <2>2. NewGame \in Games /\ Directory!Open(NewGame, UserOf[c], Guid(c))
      BY <1>7 DEF OpensGame
    <2>3. /\ x.kind = "adopted" /\ x.peer = t.peer /\ ~x.old
          /\ x.record.host = Guid(c) /\ x.record.id = NewGame
      BY <1>1, <1>7 DEF Tasks, Adopted, AdoptTask
    <2>4. /\ r \in ClientState /\ r.life = client[c].life /\ r.joining = client[c].joining
          /\ r.app = client[c].app /\ r.record = client[c].record /\ r.players = client[c].players
      <3> HIDE DEF NewGame
      <3> QED
        BY <1>1, <2>2 DEF ClientState
    <2>5. TaskFields(c, r, t)
      BY <2>1, <2>4 DEF TaskFields
    <2> HIDE DEF x, r
    <2>6. /\ NewGame \notin open /\ open' = open \cup {NewGame}
          /\ address' = [g \in open' |-> IF g = NewGame THEN Guid(c) ELSE address[g]]
          /\ host' = [g \in open' |-> IF g = NewGame THEN UserOf[c] ELSE host[g]]
          /\ \A g \in open : address[g] # Guid(c) /\ host[g] # UserOf[c]
      BY <2>2 DEF Directory!Open
    <2> HIDE DEF NewGame
    <2>7. LeftBehind(c, t, {x})
      BY <2>1, <2>3, <2>6 DEF LeftBehind, TaskOfTask
    <2>8. GamesCaused(c)
      <3>1. x \in tasks'[c] /\ HasTask(c, {"adopt"})
        BY <2>1, Typed DEF MInv, Done, HasTask
      <3> QED
        BY <2>3, <2>6, <3>1 DEF GamesCaused
    <2> QED
      BY <2>1, <2>4, <2>5, <2>7, <2>8, SendingCaused, TaskStepCaused
  <1>8. CASE AdoptedTask(c, t) /\ Started(c)
    <2> DEFINE r == [client[c] EXCEPT !.record = t.record]
    <2>1. /\ t.kind = "adopted" /\ client' = [client EXCEPT ![c] = r]
          /\ packets' = Sent(c, Guids, "NEWHOST") /\ Done(c, t, {})
          /\ link' = link /\ UNCHANGED directory
      BY <1>1, <1>8 DEF AdoptedTask
    <2>2. /\ r \in ClientState /\ r.life = client[c].life /\ r.joining = client[c].joining
          /\ r.app = client[c].app /\ r.record = t.record /\ r.players = client[c].players
      BY <1>1 DEF ClientState, Tasks
    <2>3. TaskFields(c, r, t)
      BY <2>1, <2>2 DEF TaskFields
    <2>4. MailCaused(c)
      <3>1. \A d \in Clients : Guid(d) \in Peers(c) /\ Guid(d) \in Guids => PeerMailCaused(c, d, "NEWHOST")
        BY <2>1 DEF PeerMailCaused, HasTask
      <3> QED
        BY <2>1, <3>1, SendingCaused DEF PacketType
    <2> HIDE DEF r
    <2> QED
      BY <1>2, <2>1, <2>2, <2>3, <2>4, QuietGames, TaskStepCaused
  <1>9. CASE AnnounceTask(c, t)
    <2>1. /\ t.kind = "announce" /\ Done(c, t, {}) /\ client' = client /\ link' = link
          /\ packets' = packets \/ packets' = Sent(c, Guids, "NEWHOST")
          /\ UNCHANGED directory
      BY <1>9 DEF AnnounceTask
    <2>2. MailCaused(c)
      <3>1. \A d \in Clients : Guid(d) \in Peers(c) /\ Guid(d) \in Guids => PeerMailCaused(c, d, "NEWHOST")
        BY <2>1 DEF PeerMailCaused, HasTask
      <3> QED
        BY <2>1, <3>1, SendingCaused DEF PacketType
    <2> QED
      BY <1>1, <1>2, <1>3, <2>1, <2>2, QuietGames, TaskStepCaused
  <1> QED
    BY <1>4, <1>5, <1>6, <1>7, <1>8, <1>9 DEF AdoptTask, OldAdoptTask, AdoptedTask

\* Every step of a client, but for the call that begins a life, has its causes.
LEMMA StepCaused ==
  ASSUME MInv, NEW c \in Clients,
         \/ KillClient(c) \/ Crash(c) \/ FinishStop(c) \/ Connect(c)
         \/ Dispatch(c) \/ RunTask(c)
  PROVE  Caused(c)
  <1>1. CASE Crash(c)
    BY <1>1, DieCaused DEF Crash
  <1>2. CASE RunTask(c)
    BY <1>2, HandshakeCaused, AdoptionCaused DEF RunTask
  <1> QED
    BY <1>1, <1>2, KillClientCaused, FinishStopCaused, ConnectCaused, DispatchCaused

-----------------------------------------------------------------------------
(* A life begins, and a game is abandoned. *)

\* The games after client c has begun to play with the fields r: it may have
\* opened one.
ListedWith(c, r) ==
  /\ open \subseteq open' /\ (r.joining # NoClient => open' = open)
  /\ r.record.id \notin open \/ r.record.host[1] # c
  /\ \A g \in open' :
       \/ g \in open /\ address'[g] = address[g] /\ host'[g] = host[g]
       \/ /\ g \notin open /\ address'[g] = <<c, r.life>> /\ r.joining = NoClient
          /\ host'[g] = UserOf[c] /\ \A h \in open : host[h] # UserOf[c]
          /\ r.record.id = g /\ r.record.host = <<c, r.life>> /\ r.record # NoRecord
          /\ \A h \in open' \ {g} : h \in open

\* A client that begins to play is in nobody's mesh yet; who had heard of its
\* address knows a listed one.
LEMMA BeginsKeeps ==
  ASSUME MInv, NEW c \in Clients, NEW r \in ClientState, client[c].app = "out",
         client' = [client EXCEPT ![c] = r], UNCHANGED <<packets, tasks, link>>,
         r.app = "in", r.life = client[c].life + 1, r.players = {<<c, r.life>>}, r.joining # c,
         r.joining = NoClient \/ \E g \in open : r.joining = address[g][1],
         ListedWith(c, r)
  PROVE  Meeting'
  <1>1. /\ LinksCurrent /\ JoinsOthers /\ AddressesApart /\ AddressesBegun
        /\ UsersApart /\ HostsOwn /\ AnswersOwn /\ AnswersListed
        /\ AloneUnheard /\ MembersKnown /\ ListedOwned
    BY DEF MInv, Meeting
  <1> USE DEF ListedWith
  <1>2. /\ client'[c] = r /\ \A d \in Clients \ {c} : client'[d] = client[d]
        /\ client[c].life \in Nat /\ client[c].joining = NoClient
        /\ packets' = packets /\ tasks' = tasks /\ link' = link
        /\ Guid(c)' = <<c, r.life>> /\ \A d \in Clients \ {c} : Guid(d)' = Guid(d)
        /\ \A g \in open : address[g] \in Guids /\ address[g][1] \in Clients
    <2>1. client'[c] = r /\ \A d \in Clients \ {c} : client'[d] = client[d]
      BY Typed DEF MInv
    <2>2. client[c].life \in Nat /\ client[c].joining = NoClient
      BY <1>1, Typed DEF MInv, JoinsOthers, Started
    <2>3. Guid(c)' = <<c, r.life>> /\ \A d \in Clients \ {c} : Guid(d)' = Guid(d)
      BY <2>1 DEF Guid
    <2>4. \A g \in open : address[g] \in Guids /\ address[g][1] \in Clients
      BY GuidParts DEF MInv, IInv, TypeInv, TypeOK
    <2> QED
      BY <2>1, <2>2, <2>3, <2>4
  <1>3. \A l \in link : l[1][1] # c /\ l[2][1] # c
    BY <1>1 DEF LinksCurrent, Started
  <1>4. \A g \in open : address[g] # <<c, r.life>>
    <2> SUFFICES ASSUME NEW g \in open, address[g] = <<c, r.life>>
                 PROVE  FALSE
      OBVIOUS
    <2>1. address[g][1] = c /\ address[g][2] = r.life
      OBVIOUS
    <2> QED
      BY <1>1, <1>2, <2>1 DEF AddressesBegun
  <1>5. LinksCurrent' /\ JoinsOthers'
    <2>1. LinksCurrent'
      <3> SUFFICES ASSUME NEW l \in link, NEW i \in {1, 2}
                   PROVE  l[i] = Guid(l[i][1])' /\ Started(l[i][1])'
        BY <1>2 DEF LinksCurrent
      <3>1. l[i] = Guid(l[i][1]) /\ Started(l[i][1]) /\ l[i][1] # c
        BY <1>1, <1>3 DEF LinksCurrent
      <3>2. l[i][1] \in Clients
        <4>1. l[i] \in Guids
          BY Typed DEF MInv
        <4> QED
          BY <4>1, GuidParts
      <3> QED
        BY <1>2, <3>1, <3>2 DEF Started
    <2>2. JoinsOthers'
      BY <1>1, <1>2 DEF JoinsOthers, Started
    <2> QED
      BY <2>1, <2>2
  <1>6. AddressesApart'
    BY <1>1, <1>4 DEF AddressesApart
  <1>7. AddressesBegun'
    <2> SUFFICES ASSUME NEW g \in open'
                 PROVE  address'[g][2] <= client'[address'[g][1]].life
      BY DEF AddressesBegun
    <2>1. CASE g \in open /\ address'[g] = address[g]
      <3>1. address[g][2] <= client[address[g][1]].life /\ address[g][2] \in Nat
        BY <1>1, <1>2, <2>1, GuidParts DEF AddressesBegun
      <3> QED
        BY <1>2, <2>1, <3>1
    <2>2. CASE address'[g] = <<c, r.life>>
      BY <1>2, <2>2
    <2> QED
      BY <2>1, <2>2
  <1>8. UsersApart' /\ HostsOwn' /\ AnswersOwn' /\ AnswersListed'
    <2>1. UsersApart' /\ HostsOwn'
      BY <1>1 DEF UsersApart, HostsOwn
    <2>2. AnswersOwn'
      BY <1>1, <1>2 DEF AnswersOwn
    <2>3. AnswersListed'
      BY <1>1, <1>2 DEF AnswersListed, AnswersOwn
    <2> QED
      BY <2>1, <2>2, <2>3
  <1>9. AloneUnheard'
    <2> SUFFICES ASSUME NEW x \in Clients, Alone(x)'
                 PROVE  Unheard(x)'
      BY DEF AloneUnheard
    <2>1. /\ Unheard(x) /\ r.joining # x
          /\ x = c => r.joining # NoClient /\ Mail(c) = {}
      <3>1. CASE x = c
        <4>1. client[c].life = 0
          BY <1>2, <3>1 DEF Alone
        <4>2. Unheard(c)
          BY <1>1, <4>1 DEF AloneUnheard, Alone
        <4>3. Mail(c) = {}
          BY <4>1, <4>2 DEF Unheard
        <4> QED
          BY <1>2, <3>1, <4>1, <4>2, <4>3 DEF Alone, Mail
      <3>2. CASE x # c
        <4>1. Unheard(x)
          BY <1>1, <1>2, <3>2 DEF AloneUnheard, Alone, Mail
        <4> QED
          BY <3>2, <4>1, MeshAssumption DEF Unheard
      <3> QED
        BY <3>1, <3>2
    <2>2. \A g \in open' : address'[g][1] # x
      BY <2>1 DEF Unheard
    <2>3. \A d \in Clients : client'[d].joining # x
      BY <1>2, <2>1 DEF Unheard
    <2>4. client'[x].joining # NoClient => Mail(x) = {} /\ client'[x].players = {Guid(x)'}
      BY <1>2, <2>1 DEF Unheard
    <2>5. client'[x].life = 0 => Mail(x) = {}
      BY <1>2, <2>1 DEF Unheard
    <2> QED
      BY <1>2, <2>1, <2>2, <2>3, <2>4, <2>5 DEF Unheard, Mail
  <1>10. MembersKnown'
    <2> SUFFICES ASSUME NEW p \in Clients, NEW h \in Clients, Member(p, h)'
                 PROVE  /\ OnlyMember(p, h)' /\ MemberHears(p, h)' /\ HostHears(p, h)'
                        /\ Accepted(p, h)' => Guid(p)' \in client'[h].players
      BY DEF MembersKnown
    <2>1. p # c /\ h # c
      <3>1. <<Guid(p)', Guid(h)'>> \in link /\ Guid(p)'[1] = p /\ Guid(h)'[1] = h
        BY <1>2 DEF Member, Guid
      <3>2. <<Guid(p)', Guid(h)'>>[1][1] # c /\ <<Guid(p)', Guid(h)'>>[2][1] # c
        BY <1>3, <3>1
      <3> QED
        BY <3>1, <3>2
    <2>2. /\ client'[p] = client[p] /\ client'[h] = client[h] /\ Guid(p)' = Guid(p) /\ Guid(h)' = Guid(h)
          /\ Member(p, h) /\ client[p].life = 1
      BY <1>2, <2>1 DEF Member
    <2>3. /\ OnlyMember(p, h) /\ MemberHears(p, h) /\ HostHears(p, h)
          /\ Accepted(p, h) => Guid(p) \in client[h].players
      BY <1>1, <2>2 DEF MembersKnown
    <2>4. \A g \in open : address[g][1] # p
      <3> SUFFICES ASSUME NEW g \in open, address[g][1] = p
                   PROVE  FALSE
        OBVIOUS
      <3>1. address[g] = <<p, address[g][2]>> /\ address[g][2] \in 1 .. Lives[p] /\ address[g][2] <= 1
        <4>1. address[g] \in Guids
          BY <1>2
        <4>2. address[g] = <<p, address[g][2]>> /\ address[g][2] \in 1 .. Lives[p]
          BY <4>1 DEF Guids
        <4> QED
          BY <1>1, <2>2, <4>2 DEF AddressesBegun
      <3>2. address[g][2] = 1
        BY <3>1, MeshAssumption
      <3> QED
        BY <2>2, <2>3, <3>1, <3>2 DEF OnlyMember, Guid
    <2>5. OnlyMember(p, h)'
      <3>1. \A g \in open' : address'[g] # Guid(p)
        BY <2>1, <2>3 DEF OnlyMember, Guid
      <3>2. \A d \in Clients : client'[d].joining # p
        BY <1>2, <2>1, <2>3, <2>4, MeshAssumption DEF OnlyMember
      <3> QED
        BY <1>2, <2>2, <2>3, <3>1, <3>2 DEF OnlyMember
    <2>6. MemberHears(p, h)' /\ HostHears(p, h)'
      BY <1>2, <2>2, <2>3 DEF MemberHears, HostHears, Mail
    <2>7. Accepted(p, h)' => Guid(p)' \in client'[h].players
      BY <1>2, <2>2, <2>3 DEF Accepted, Mail
    <2> QED
      BY <2>5, <2>6, <2>7
  <1>11. ListedOwned'
    <2> SUFFICES ASSUME NEW x \in Clients, client'[x].app = "in",
                        NEW g \in open', address'[g] = Guid(x)'
                 PROVE  \/ Owned(x, g)' \/ \E t \in tasks'[x] : t.kind = "adopted"
                        \/ client'[x].life # 1 /\ client'[x].record = NoRecord
      BY DEF ListedOwned
    <2>1. CASE x = c
      BY <1>2, <1>4, <2>1 DEF Owned
    <2>2. CASE x # c
      <3>1. g \in open /\ address[g] = Guid(x)
        BY <1>2, <2>2 DEF Guid
      <3> QED
        BY <1>1, <1>2, <2>2, <3>1 DEF ListedOwned, Owned
    <2> QED
      BY <2>1, <2>2
  <1> QED
    BY <1>5, <1>6, <1>7, <1>8, <1>9, <1>10, <1>11 DEF Meeting

\* startGame opens a game, joinGame takes one of the list.
LEMMA ApplicationBegins ==
  ASSUME MInv, NEW c \in Clients, StartGame(c) \/ \E g \in Games : JoinGame(c, g)
  PROVE  Meeting'
  <1>1. client[c].life \in Nat /\ client[c].app = "out" /\ client' \in [Clients -> ClientState]
    <2>1. IInv'
      BY ApplicationKeeps DEF MInv, Application
    <2> QED
      BY <2>1, Typed DEF MInv, StartGame, JoinGame, IInv, TypeInv, TypeOK
  <1> DEFINE r == client'[c]
  <1>2. CASE StartGame(c)
    <2> DEFINE n == client[c].life + 1
               x == [Unstarted EXCEPT !.app = "in", !.life = n, !.creator = TRUE, !.hostGame = NewGame,
                            !.record = [id |-> NewGame, host |-> <<c, n>>], !.players = {<<c, n>>}]
    <2>1. /\ NewGame \in Games /\ n <= Lives[c] /\ Directory!Open(NewGame, UserOf[c], <<c, n>>)
          /\ client' = [client EXCEPT ![c] = x] /\ UNCHANGED <<packets, tasks, link>>
      BY <1>2 DEF StartGame, OpensGame
    <2>2. /\ x.app = "in" /\ x.life = n /\ x.players = {<<c, n>>} /\ x.joining = NoClient
          /\ x.record = [id |-> NewGame, host |-> <<c, n>>]
      BY DEF Unstarted
    <2>3. x \in ClientState /\ client'[c] = x
      BY <1>1, <2>1, Typed DEF MInv
    <2>4. x.record # NoRecord
      <3>1. <<c, n>> \in Guids
        BY <1>1, <2>1, GuidParts
      <3>2. [id |-> NewGame, host |-> <<c, n>>] \in Records
        <4> HIDE DEF NewGame
        <4> QED
          BY <2>1, <3>1 DEF Records
      <3> QED
        BY <2>2, <3>2, NobodysRecords
    <2>5. \A g \in open' :
            \/ g \in open /\ address'[g] = address[g] /\ host'[g] = host[g]
            \/ /\ g \notin open /\ address'[g] = <<c, n>> /\ g = NewGame
               /\ host'[g] = UserOf[c] /\ \A h \in open : host[h] # UserOf[c]
               /\ \A h \in open' \ {g} : h \in open
      <3> HIDE DEF NewGame, n
      <3> QED
        BY <2>1 DEF Directory!Open
    <2>6. x.record.id = NewGame /\ x.record.host = <<c, n>> /\ x.joining # c
      BY <2>2, MeshAssumption
    <2>7. x.life = client[c].life + 1 /\ x.players = {<<c, x.life>>}
      BY <2>2
    <2>8. \A g \in open' :
            \/ g \in open /\ address'[g] = address[g] /\ host'[g] = host[g]
            \/ /\ g \notin open /\ address'[g] = <<c, x.life>> /\ x.joining = NoClient
               /\ host'[g] = UserOf[c] /\ \A h \in open : host[h] # UserOf[c]
               /\ x.record.id = g /\ x.record.host = <<c, x.life>> /\ x.record # NoRecord
               /\ \A h \in open' \ {g} : h \in open
      BY <2>2, <2>4, <2>5, <2>6
    <2>9. ListedWith(c, x)
      <3>1. open \subseteq open' /\ NewGame \notin open
        BY <2>1 DEF Directory!Open
      <3> HIDE DEF x, NewGame
      <3> QED
        BY <2>2, <2>6, <2>8, <3>1 DEF ListedWith
    <2>10. /\ client' = [client EXCEPT ![c] = x] /\ UNCHANGED <<packets, tasks, link>>
           /\ client[c].app = "out" /\ x.app = "in" /\ x.joining = NoClient /\ x.joining # c
      BY <1>1, <2>1, <2>2, <2>6
    <2> HIDE DEF x, NewGame, n
    <2> QED
      BY <2>3, <2>7, <2>9, <2>10, BeginsKeeps
  <1>3. ASSUME NEW g \in Games, JoinGame(c, g)
        PROVE  Meeting'
    <2> DEFINE n == client[c].life + 1
               x == [Stopped(c) EXCEPT !.app = "in", !.life = n, !.joining = address[g][1],
                              !.record = [id |-> g, host |-> address[g]], !.players = {<<c, n>>}]
    <2>1. /\ g \in open /\ address[g][1] # c
          /\ open' = open /\ address' = address /\ host' = host
          /\ client' = [client EXCEPT ![c] = x] /\ UNCHANGED <<packets, tasks, link>>
      BY <1>3 DEF JoinGame, directory
    <2>2. /\ x.app = "in" /\ x.life = n /\ x.players = {<<c, n>>} /\ x.joining = address[g][1]
          /\ x.record.host = address[g]
      BY DEF Stopped, Unstarted
    <2>3. x \in ClientState /\ client'[c] = x
      BY <1>1, <2>1, Typed DEF MInv
    <2> HIDE DEF x
    <2>4. ListedWith(c, x)
      BY <2>1, <2>2 DEF ListedWith
    <2> QED
      BY <1>1, <2>1, <2>2, <2>3, <2>4, BeginsKeeps
  <1> QED
    BY <1>2, <1>3

\* A cleaner in time takes games away, and none whose adoption is to be answered.
LEMMA CleanUpParts ==
  ASSUME MInv, NEW g \in Games, Timely(g), CleanUp(g)
  PROVE  Meeting'
  <1>1. /\ UNCHANGED <<client, packets, tasks, link>> /\ Directory!Close(g)
        /\ Meeting
    BY DEF CleanUp, MInv
  <1>2. \A h \in open' : h \in open /\ address'[h] = address[h] /\ host'[h] = host[h]
    BY <1>1 DEF Directory!Close
  <1>3. LinksCurrent' /\ JoinsOthers' /\ AnswersOwn'
    BY <1>1 DEF Meeting, LinksCurrent, JoinsOthers, AnswersOwn, Guid, Started
  <1>4. AddressesApart' /\ AddressesBegun' /\ UsersApart' /\ HostsOwn'
    BY <1>1, <1>2 DEF Meeting, AddressesApart, AddressesBegun, UsersApart, HostsOwn
  <1>5. AloneUnheard'
    BY <1>1, <1>2 DEF Meeting, AloneUnheard, Alone, Unheard, Mail, Guid
  <1>6. MembersKnown'
    BY <1>1, <1>2
       DEF Meeting, MembersKnown, Member, OnlyMember, MemberHears, HostHears, Accepted, Mail, Guid
  <1>7. ListedOwned'
    BY <1>1, <1>2 DEF Meeting, ListedOwned, Owned, Guid
  <1>8. AnswersListed'
    <2>1. \A c \in Clients : \A t \in tasks[c] : t.kind = "adopted" => t.record.id # g
      BY DEF Timely
    <2>2. open' = open \ {g}
      BY <1>1 DEF Directory!Close
    <2> QED
      BY <1>1, <1>2, <2>1, <2>2 DEF Meeting, AnswersListed
  <1> QED
    BY <1>3, <1>4, <1>5, <1>6, <1>7, <1>8 DEF Meeting

-----------------------------------------------------------------------------
(* The theorems *)

\* Nobody has begun to play, so nobody has heard of anybody.
LEMMA MeetingInitial == Init => MInv
  <1> SUFFICES ASSUME Init PROVE MInv
    OBVIOUS
  <1>1. /\ open = {} /\ client = [c \in Clients |-> Unstarted] /\ packets = [c \in Clients |-> <<>>]
        /\ tasks = [c \in Clients |-> {}] /\ link = {}
    BY DEF Init, Directory!Init
  <1>2. /\ \A c \in Clients : client[c] = Unstarted /\ tasks[c] = {} /\ Mail(c) = {}
        /\ Unstarted.joining = NoClient /\ Unstarted.life = 0
    BY <1>1 DEF Unstarted, Mail, Range
  <1>3. /\ LinksCurrent /\ JoinsOthers /\ AddressesApart /\ AddressesBegun
        /\ UsersApart /\ HostsOwn /\ AnswersOwn /\ AnswersListed
    BY <1>1, <1>2 DEF LinksCurrent, JoinsOthers, AddressesApart, AddressesBegun, UsersApart, HostsOwn,
      AnswersOwn, AnswersListed
  <1>4. AloneUnheard
    BY <1>1, <1>2, MeshAssumption DEF AloneUnheard, Unheard
  <1>5. MembersKnown /\ ListedOwned
    BY <1>1, <1>2 DEF MembersKnown, Member, ListedOwned
  <1> QED
    BY <1>3, <1>4, <1>5, Initial DEF MInv, Meeting

\* No step of a client or of the directory breaks what the clients know of each
\* other.
LEMMA MeetingInductive == MInv /\ [Next]_vars => MInv'
  <1> SUFFICES ASSUME MInv, [Next]_vars PROVE Meeting'
    BY Inductive DEF MInv
  <1>1. CASE UNCHANGED vars
    <2>1. UNCHANGED <<open, address, host, client, packets, tasks, link>> /\ Meeting
      BY <1>1 DEF vars, MInv
    <2>2. LinksCurrent' /\ JoinsOthers' /\ AddressesApart' /\ AddressesBegun'
      BY <2>1 DEF Meeting, LinksCurrent, JoinsOthers, AddressesApart, AddressesBegun, Guid, Started
    <2>3. UsersApart' /\ HostsOwn' /\ AnswersOwn' /\ AnswersListed'
      BY <2>1 DEF Meeting, UsersApart, HostsOwn, AnswersOwn, AnswersListed
    <2>4. AloneUnheard' /\ ListedOwned'
      BY <2>1 DEF Meeting, AloneUnheard, Alone, Unheard, ListedOwned, Owned, Mail, Guid
    <2>5. MembersKnown'
      BY <2>1 DEF Meeting, MembersKnown, Member, OnlyMember, MemberHears, HostHears, Accepted, Mail, Guid
    <2> QED
      BY <2>2, <2>3, <2>4, <2>5 DEF Meeting
  <1>2. ASSUME NEW c \in Clients,
               Application(c) \/ FinishStop(c) \/ Connect(c) \/ Dispatch(c) \/ RunTask(c)
        PROVE  Meeting'
    <2>1. IInv'
      BY Inductive DEF MInv
    <2> QED
      BY <1>2, <2>1, ApplicationBegins, StepCaused, CausedKeeps DEF Application
  <1>3. ASSUME NEW g \in Games, Timely(g), CleanUp(g)
        PROVE  Meeting'
    BY <1>3, CleanUpParts
  <1> QED
    BY <1>1, <1>2, <1>3 DEF Next

\* What the clients know of each other, in every behaviour.
THEOREM Meetings == Spec => []MInv
  BY MeetingInitial, MeetingInductive, PTL DEF Spec

\* Whoever lists the host it is connected to, in its first life, is on that host's
\* list, however packets and tasks were delayed and whoever else joined, stopped,
\* crashed or was booted.
THEOREM KnownToEachOther == Spec => []MutualKnowledge
  <1>1. MInv => MutualKnowledge
    <2> SUFFICES ASSUME MInv, NEW l \in link, client[l[1][1]].life = 1,
                        l[2] \in client[l[1][1]].players
                 PROVE  l[1] \in client[l[2][1]].players
      BY DEF MutualKnowledge
    <2> DEFINE p == l[1][1]
               h == l[2][1]
    <2>1. /\ l[1] = Guid(p) /\ l[2] = Guid(h) /\ p \in Clients /\ h \in Clients /\ l = <<l[1], l[2]>>
      <3>1. l \in Guids \X Guids
        BY DEF MInv, IInv, TypeInv, TypeOK
      <3>2. l[1] \in Guids /\ l[2] \in Guids /\ l = <<l[1], l[2]>>
        BY <3>1
      <3> QED
        BY <3>2, GuidParts DEF MInv, Meeting, LinksCurrent
    <2>2. Member(p, h) /\ Accepted(p, h)
      BY <2>1 DEF Member, Accepted
    <2> QED
      BY <2>1, <2>2 DEF MInv, Meeting, MembersKnown
  <1> QED
    BY <1>1, Meetings, PTL

\* A client that stops deletes the game that is listed at its address, unless an
\* adoption is under way, or it was refused in a later life and has no record.
THEOREM StopDeletesGame == Spec => StopUnregisters
  <1>1. MInv /\ [Next]_vars =>
          [\A c \in Clients :
             client[c].app = "in" /\ client'[c].app = "closing"
               /\ (client[c].life = 1 \/ client[c].record # NoRecord)
               /\ (\A t \in tasks[c] : t.kind \notin {"adopt", "adopted"})
             => \A g \in open' : address'[g] # Guid(c)]_vars
    <2> SUFFICES ASSUME MInv, Next, NEW c \in Clients,
                        client[c].app = "in", client'[c].app = "closing",
                        client[c].life = 1 \/ client[c].record # NoRecord,
                        \A t \in tasks[c] : t.kind \notin {"adopt", "adopted"},
                        NEW g \in open', address'[g] = Guid(c)
                 PROVE  FALSE
      OBVIOUS
    <2>1. KillClient(c) \/ (client[c].record = NoRecord /\ UNCHANGED directory)
      <3>1. PICK d \in Clients : Application(d) \/ FinishStop(d) \/ Connect(d) \/ Dispatch(d) \/ RunTask(d)
        BY DEF Next, CleanUp
      <3>2. CASE Caused(d)
        BY <3>2 DEF Caused, StopCaused, OneActs
      <3>3. CASE StartGame(d) \/ \E x \in Games : JoinGame(d, x)
        <4>1. client[d].app = "out" /\ client' = [client EXCEPT ![d] = client'[d]]
          BY <3>3, Typed DEF MInv, StartGame, JoinGame
        <4> QED
          BY <4>1, Typed DEF MInv
      <3> QED
        BY <3>1, <3>2, <3>3, StepCaused DEF Application
    <2>2. CASE client[c].record = NoRecord /\ UNCHANGED directory
      <3>1. g \in open /\ address[g] = Guid(c)
        BY <2>2 DEF directory
      <3> QED
        BY <2>2, <3>1, NobodysRecords DEF MInv, Meeting, ListedOwned, Owned
    <2>3. CASE KillClient(c) /\ client[c].record # NoRecord
      <3>1. client[c].record # EmptyRecord
        <4> SUFFICES ASSUME client[c].record = EmptyRecord
                     PROVE  FALSE
          OBVIOUS
        <4>1. client' = [client EXCEPT ![c] = Dead(c)]
          BY <2>3 DEF KillClient, Die, LeaveMesh
        <4> QED
          BY <4>1, Typed, StoppedClient DEF MInv
      <3>2. CASE OwnsRecord(c)
        <4>1. Lists(c, client[c].record.id)
          BY <2>3, <3>2, Typed DEF MInv, IInv, ClaimsKept, OwnsRecord
        <4>2. Directory!Close(client[c].record.id)
          BY <2>3, <3>1, <3>2, <4>1 DEF KillClient, DeleteGame, Lists
        <4>3. g \in open /\ g # client[c].record.id /\ address[g] = Guid(c)
          BY <4>2 DEF Directory!Close
        <4> QED
          BY <4>1, <4>3 DEF Lists, MInv, Meeting, AddressesApart
      <3>3. CASE ~OwnsRecord(c)
        <4>1. g \in open /\ address[g] = Guid(c)
          BY <2>3, <3>1, <3>3 DEF KillClient, directory
        <4> QED
          BY <3>1, <3>3, <4>1 DEF MInv, Meeting, ListedOwned, Owned, OwnsRecord
      <3> QED
        BY <3>2, <3>3
    <2>4. CASE KillClient(c) /\ client[c].record = NoRecord
      <3>1. UNCHANGED directory
        BY <2>4, NobodysRecords DEF KillClient
      <3> QED
        BY <2>2, <2>4, <3>1
    <2> QED
      BY <2>1, <2>2, <2>3, <2>4
  <1> QED
    BY <1>1, Meetings, PTL DEF Spec, StopUnregisters

=============================================================================
