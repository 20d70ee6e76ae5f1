------------------------ MODULE DirectoryServerProofs ------------------------
(***************************************************************************)
(* Theorems about DirectoryServer, for every set of users, sessions,       *)
(* addresses, games and requests, and every timeout.                       *)
(*                                                                         *)
(* A commit acts on what was read inside the monitor, which the request    *)
(* has left.  The invariant says what of it is still so: a game that was   *)
(* made is nobody else's until it is committed, and a game that is to be   *)
(* stopped, or removed, is still the host's, or was overdue.               *)
(***************************************************************************)
EXTENDS DirectoryServer, TLAPS

-----------------------------------------------------------------------------
(* The inductive invariant *)

\* What a request knows of its session, its game and its row.
HasGame == Points \ {"idle", "insert"}
HasRow == {"insert", "commitCreate", "commitUpdate", "commitValidate"}

\* The user of session s hosts row r, or logged in as its host was creating it.
Hosted(r, s) == r.host = user[s] \/ s \in crossed

RequestOK(k) ==
  /\ pc[k] # "idle" => session[k] \in Sessions
  /\ pc[k] \in HasGame => game[k] \in used
  /\ pc[k] \in HasRow => row[k] \in Rows
  /\ pc[k] = "insert" => Hosted(row[k], session[k])
  /\ pc[k] = "commitStop" =>
       /\ ~Pending(game[k])
       /\ game[k] \in Stored => games[game[k]].host \in asker[k]

\* A game that is inserted and not committed has an id and keys of its own, and
\* at most the session that made it remembers it, as a game of its user's.
CreateOK(k) ==
  pc[k] = "commitCreate" =>
    /\ game[k] \notin Stored
    /\ \A g \in Stored : ~SameKey(row[k], games[g])
    /\ \A j \in Requests \ {k} :
         pc[j] = "commitCreate" => game[j] # game[k] /\ ~SameKey(row[k], row[j])
    /\ \A s \in Sessions : hostGame[s] = game[k] => s = session[k] /\ Hosted(row[k], s)

\* Ids are given out before they are used.
IdsOK ==
  /\ Stored \subseteq used
  /\ \A s \in Sessions : hostGame[s] \in used \cup {NoGame}

\* A host has one game, and an address carries one.
KeysUnique == \A g, h \in Stored : SameKey(games[g], games[h]) => g = h

\* What the cleaner removes was overdue.
LateOK == \A g \in Stored : games[g].age > Timeout => g \in late
CleanerOK == cleaner.at = "remove" => cleaner.game \in late

IInv ==
  /\ TypeOK
  /\ \A k \in Requests : RequestOK(k) /\ CreateOK(k)
  /\ IdsOK /\ HostGameIsOwn /\ KeysUnique /\ LateOK /\ CleanerOK

-----------------------------------------------------------------------------
(* Lemmas *)

\* A row that grows older remains a row of the same game.
LEMMA RowAges ==
  ASSUME NEW r \in Rows \cup {NoRow}
  PROVE  /\ Older(r) \in Rows \cup {NoRow}
         /\ Older(r) = NoRow <=> r = NoRow
         /\ r \in Rows => Older(r).host = r.host /\ Older(r).address = r.address
  <1>1. CASE r = NoRow
    BY <1>1, RowAssumption DEF Older
  <1>2. CASE r \in Rows
    <2>1. r # NoRow
      BY <1>2, RowAssumption
    <2>2. r.age \in Ages /\ Timeout \in Nat
      BY <1>2, DirectoryAssumption DEF Rows
    <2>3. (IF r.age > Timeout THEN r.age ELSE r.age + 1) \in Ages
      BY <2>2 DEF Ages
    <2>4. Older(r) = [r EXCEPT !.age = IF r.age > Timeout THEN r.age ELSE r.age + 1]
      BY <2>1 DEF Older
    <2>5. Older(r) \in Rows /\ Older(r).host = r.host /\ Older(r).address = r.address
      BY <1>2, <2>3, <2>4 DEF Rows
    <2> QED
      BY <1>2, <2>1, <2>5, RowAssumption
  <1> QED
    BY <1>1, <1>2

\* A row of a stored game is a row.
LEMMA StoredRow ==
  ASSUME TypeOK, NEW g \in Stored
  PROVE  g \in Games /\ games[g] \in Rows
  BY DEF TypeOK, Stored

\* The same request, but for the age of its row.
Kept(j) ==
  /\ pc'[j] = pc[j] /\ session'[j] = session[j] /\ game'[j] = game[j] /\ asker'[j] = asker[j]
  /\ row[j] \in Rows => /\ row'[j] \in Rows
                        /\ row'[j].host = row[j].host /\ row'[j].address = row[j].address

\* A step that creates no game: every stored game was, with its host and its
\* address, and every request is as it was or where it may be.
LEMMA Keeps ==
  ASSUME IInv, TypeOK', LateOK', CleanerOK', UNCHANGED <<used, sessionVars>>,
         \A g \in Stored' : /\ g \in Stored
                            /\ games'[g].host = games[g].host
                            /\ games'[g].address = games[g].address,
         \A j \in Requests : Kept(j) \/ (pc'[j] # "commitCreate" /\ RequestOK(j)')
  PROVE  IInv'
  <1>1. \A j \in Requests : pc'[j] = "commitCreate" => Kept(j) /\ row[j] \in Rows
    BY DEF Kept, IInv, RequestOK, HasRow
  <1>2. \A g : Pending(g)' => Pending(g)
    BY <1>1 DEF Pending, Kept
  <1>3. \A g, h \in Stored' : SameKey(games'[g], games'[h]) => SameKey(games[g], games[h])
    BY DEF SameKey
  <1>4. ASSUME NEW j \in Requests
        PROVE  RequestOK(j)'
    <2>1. CASE Kept(j)
      <3>1. RequestOK(j)
        BY DEF IInv
      <3>2. /\ pc'[j] # "idle" => session'[j] \in Sessions
            /\ pc'[j] \in HasGame => game'[j] \in used'
            /\ pc'[j] \in HasRow => row'[j] \in Rows
            /\ pc'[j] = "insert" => Hosted(row[j], session[j])'
        BY <2>1, <3>1 DEF Kept, RequestOK, HasRow, Hosted, sessionVars
      <3>3. pc'[j] = "commitStop" =>
              /\ ~Pending(game[j])'
              /\ game'[j] \in Stored' => games'[game'[j]].host \in asker'[j]
        BY <1>2, <2>1, <3>1 DEF Kept, RequestOK, Pending
      <3> QED
        BY <3>2, <3>3 DEF RequestOK, Hosted
    <2> QED
      BY <2>1
  <1>5. ASSUME NEW j \in Requests
        PROVE  CreateOK(j)'
    <2> SUFFICES ASSUME pc'[j] = "commitCreate"
                 PROVE  /\ game'[j] \notin Stored'
                        /\ \A g \in Stored' : ~SameKey(row'[j], games'[g])
                        /\ \A i \in Requests \ {j} : pc'[i] = "commitCreate" =>
                              game'[i] # game'[j] /\ ~SameKey(row'[j], row'[i])
                        /\ \A s \in Sessions : hostGame'[s] = game'[j] => s = session'[j] /\ Hosted(row[j], s)'
      BY DEF CreateOK, SameKey, Hosted
    <2>1. Kept(j) /\ row[j] \in Rows /\ CreateOK(j) /\ pc[j] = "commitCreate"
      BY <1>1 DEF IInv, Kept
    <2>2. game'[j] \notin Stored' /\ \A g \in Stored' : ~SameKey(row'[j], games'[g])
      BY <2>1 DEF Kept, CreateOK, SameKey
    <2>3. ASSUME NEW i \in Requests \ {j}, pc'[i] = "commitCreate"
          PROVE  game'[i] # game'[j] /\ ~SameKey(row'[j], row'[i])
      BY <1>1, <2>1, <2>3 DEF Kept, CreateOK, SameKey
    <2>4. \A s \in Sessions : hostGame'[s] = game'[j] => s = session'[j] /\ Hosted(row[j], s)'
      BY <2>1 DEF Kept, CreateOK, Hosted, sessionVars
    <2> QED
      BY <2>2, <2>3, <2>4
  <1>6. IdsOK' /\ HostGameIsOwn'
    BY DEF IInv, IdsOK, HostGameIsOwn, sessionVars
  <1>7. KeysUnique'
    BY <1>3 DEF IInv, KeysUnique
  <1> QED
    BY <1>4, <1>5, <1>6, <1>7 DEF IInv

\* A step of request k that leaves the tables alone.
LEMMA LocalStep ==
  ASSUME IInv, NEW k \in Requests, NEW p \in Points \ {"commitCreate"},
         NEW s \in Sessions \cup {NoSession}, NEW g \in Games \cup {NoGame}, NEW r \in Rows \cup {NoRow},
         NEW a \in SUBSET Users,
         UNCHANGED <<games, used, sessionVars, cleaner, late>>,
         pc' = [pc EXCEPT ![k] = p], session' = [session EXCEPT ![k] = s],
         game' = [game EXCEPT ![k] = g], row' = [row EXCEPT ![k] = r], asker' = [asker EXCEPT ![k] = a],
         monitor' \in Requests \cup {Nobody, Cleaner},
         p # "idle" => s \in Sessions,
         p \in HasGame => g \in used,
         p \in HasRow => r \in Rows,
         p = "insert" => r.host = user[s],
         p = "commitStop" => g \in Stored /\ games[g].host \in a
  PROVE  IInv'
  <1>1. TypeOK
    BY DEF IInv
  <1>2. TypeOK' /\ LateOK' /\ CleanerOK' /\ Stored' = Stored
    BY <1>1 DEF IInv, TypeOK, Stored, LateOK, CleanerOK, sessionVars
  <1>3. pc'[k] = p /\ session'[k] = s /\ game'[k] = g /\ row'[k] = r /\ asker'[k] = a
    BY <1>1 DEF TypeOK
  <1>4. \A j \in Requests \ {k} : Kept(j)
    BY <1>1 DEF Kept, TypeOK
  <1>5. ASSUME p = "commitStop"
        PROVE  ~Pending(g)'
    <2>1. \A j \in Requests : pc'[j] = "commitCreate" => j # k /\ pc[j] = "commitCreate" /\ game'[j] = game[j]
      BY <1>3, <1>4 DEF Kept
    <2>2. \A j \in Requests : pc[j] = "commitCreate" => game[j] # g
      BY <1>5 DEF IInv, CreateOK
    <2> QED
      BY <2>1, <2>2 DEF Pending
  <1>6. pc'[k] # "commitCreate" /\ RequestOK(k)'
    <2>1. pc'[k] = "commitStop" =>
            ~Pending(game[k])' /\ (game'[k] \in Stored' => games'[game'[k]].host \in asker'[k])
      BY <1>2, <1>3, <1>5 DEF Pending
    <2> QED
      BY <1>2, <1>3, <2>1 DEF RequestOK, HasRow, Hosted, sessionVars
  <1>7. \A h \in Stored' : h \in Stored /\ games'[h].host = games[h].host /\ games'[h].address = games[h].address
    BY <1>2
  <1> QED
    BY <1>2, <1>4, <1>6, <1>7, Keeps

\* The answer of a request that leaves the tables alone.
LEMMA AnswerKeeps ==
  ASSUME IInv, NEW k \in Requests, Answer(k), monitor' \in Requests \cup {Nobody, Cleaner},
         UNCHANGED <<games, used, sessionVars, cleaner, late>>
  PROVE  IInv'
  <1>1. "idle" \in Points \ {"commitCreate"} /\ "idle" \notin HasGame /\ "idle" \notin HasRow
    BY DEF Points, HasGame, HasRow
  <1> QED
    BY <1>1, LocalStep DEF Answer

-----------------------------------------------------------------------------
(* Requests *)

\* The row of a new game is the user's whom its session has now.
LEMMA NewRowOK ==
  ASSUME TypeOK, NEW s \in Sessions, NEW a \in Addresses
  PROVE  NewRow(s, a) \in Rows /\ NewRow(s, a).host = user[s]
  <1>1. user[s] \in Users /\ 0 \in Ages
    BY DirectoryAssumption DEF Ages, TypeOK
  <1> QED
    BY <1>1 DEF NewRow, Rows

\* A request arrives.
LEMMA ArriveKeeps ==
  ASSUME IInv, NEW k \in Requests, NEW s \in Sessions,
         \/ \E a \in Addresses : StartGame(k, s, a)
         \/ \E g \in Games : UpdateGame(k, s, g) \/ StopGame(k, s, g) \/ AdoptGame(k, s, g)
         \/ \E g \in Games, u \in Users : ValidateUser(k, s, g, u)
  PROVE  IInv'
  <1>1. /\ monitor \in Requests \cup {Nobody, Cleaner}
        /\ {"insert", "update", "stop", "adopt", "commitValidate"} \subseteq Points \ {"commitCreate"}
    BY DEF IInv, TypeOK, Points
  <1> DEFINE Start(p, g, b) == Begin(k, s, p, g, b) /\ UNCHANGED <<games, used, sessionVars, monitor, cleaner, late>>
  <1>0. ASSUME NEW p \in {"insert", "update", "stop", "adopt", "commitValidate"},
               NEW g \in Games \cup {NoGame}, NEW b \in Rows \cup {NoRow}, Start(p, g, b),
               p \in HasGame => g \in used,
               p \in HasRow => b \in Rows,
               p = "insert" => b.host = user[s]
        PROVE  IInv'
    <2>1. /\ pc' = [pc EXCEPT ![k] = p] /\ session' = [session EXCEPT ![k] = s]
          /\ game' = [game EXCEPT ![k] = g] /\ row' = [row EXCEPT ![k] = b]
          /\ UNCHANGED <<games, used, sessionVars, cleaner, late>>
          /\ asker' = asker /\ monitor' = monitor
      BY <1>0 DEF Begin
    <2>2. asker[k] \in SUBSET Users /\ asker' = [asker EXCEPT ![k] = asker[k]]
      BY <2>1 DEF IInv, TypeOK
    <2>3. p # "commitStop" /\ p \in Points \ {"commitCreate"}
      BY <1>1, <1>0
    <2> HIDE DEF Start
    <2> QED
      BY <1>1, <1>0, <2>1, <2>2, <2>3, LocalStep
  <1>2. ASSUME NEW a \in Addresses, StartGame(k, s, a)
        PROVE  IInv'
    <2>1. TypeOK /\ Start("insert", NoGame, NewRow(s, a))
      BY <1>2 DEF StartGame, IInv
    <2>2. NewRow(s, a) \in Rows /\ NewRow(s, a).host = user[s]
      BY <2>1, NewRowOK
    <2> HIDE DEF Start
    <2> QED
      BY <1>0, <2>1, <2>2 DEF HasGame
  <1>3. ASSUME NEW g \in Games, UpdateGame(k, s, g) \/ StopGame(k, s, g) \/ AdoptGame(k, s, g)
        PROVE  IInv'
    <2>1. g \in used /\ \E p \in {"update", "stop", "adopt"} : Start(p, g, NoRow)
      BY <1>3 DEF UpdateGame, StopGame, AdoptGame
    <2> HIDE DEF Start
    <2> QED
      BY <1>0, <2>1 DEF HasRow
  <1>4. ASSUME NEW g \in Games, NEW u \in Users, ValidateUser(k, s, g, u)
        PROVE  IInv'
    <2>1. g \in Stored /\ g \in used /\ games[g] \in Rows
      BY <1>4, StoredRow DEF IInv, IdsOK, ValidateUser
    <2>2. [games[g] EXCEPT !.players = @ \cup {u}] \in Rows
      BY <2>1 DEF Rows
    <2>3. Start("commitValidate", g, [games[g] EXCEPT !.players = @ \cup {u}])
      BY <1>4 DEF ValidateUser
    <2> HIDE DEF Start
    <2> QED
      BY <1>0, <2>1, <2>2, <2>3
  <1> QED
    BY <1>2, <1>3, <1>4

\* updateGame, stopGame and adoptGame inside the monitor.
LEMMA FoundKeeps ==
  ASSUME IInv, NEW k \in Requests, UpdateFound(k) \/ StopFound(k) \/ (\E a \in Addresses : AdoptFound(k, a))
  PROVE  IInv'
  <1>1. /\ TypeOK /\ RequestOK(k) /\ monitor \in Requests \cup {Nobody, Cleaner}
        /\ {"commitUpdate", "commitStop", "insert"} \subseteq Points \ {"commitCreate"}
    BY DEF IInv, TypeOK, Points
  <1>2. /\ session = [session EXCEPT ![k] = session[k]] /\ session[k] \in Sessions \cup {NoSession}
        /\ game = [game EXCEPT ![k] = game[k]] /\ game[k] \in Games \cup {NoGame}
    BY <1>1 DEF TypeOK
  <1>3. pc[k] \in {"update", "stop", "adopt"} /\ session[k] \in Sessions /\ game[k] \in used
    BY <1>1 DEF UpdateFound, StopFound, AdoptFound, RequestOK, HasGame, Points
  <1>4. CASE Answer(k) /\ UNCHANGED <<games, used, sessionVars, monitor, cleaner, late>>
    BY <1>1, <1>4, AnswerKeeps
  <1>5. ASSUME game[k] \in Stored, games[game[k]].host = user[session[k]],
               NEW p \in {"commitUpdate", "commitStop"}, NEW r \in Rows \cup {NoRow}, NEW a \in SUBSET Users,
               p = "commitUpdate" => r \in Rows,
               p = "commitStop" => user[session[k]] \in a,
               Goto(k, p, r, a), UNCHANGED <<games, used, sessionVars, monitor, cleaner, late>>
        PROVE  IInv'
    <2>1. /\ pc' = [pc EXCEPT ![k] = p] /\ row' = [row EXCEPT ![k] = r] /\ asker' = [asker EXCEPT ![k] = a]
          /\ session' = [session EXCEPT ![k] = session[k]] /\ game' = [game EXCEPT ![k] = game[k]]
          /\ monitor' = monitor
      BY <1>2, <1>5 DEF Goto
    <2>2. p \in Points \ {"commitCreate"} /\ p # "insert" /\ p # "idle"
      BY <1>1, <1>5
    <2>3. p \in HasRow => r \in Rows
      BY <1>5 DEF HasRow
    <2> QED
      BY <1>1, <1>2, <1>3, <1>5, <2>1, <2>2, <2>3, LocalStep
  <1>6. ASSUME game[k] \in Stored, games[game[k]].host = user[session[k]],
               Goto(k, "commitUpdate", [games[game[k]] EXCEPT !.age = 0], {}),
               UNCHANGED <<games, used, sessionVars, monitor, cleaner, late>>
        PROVE  IInv'
    <2>1. games[game[k]] \in Rows /\ 0 \in Ages
      BY <1>1, <1>6, StoredRow, DirectoryAssumption DEF Ages
    <2>2. [games[game[k]] EXCEPT !.age = 0] \in Rows
      BY <2>1 DEF Rows
    <2> QED
      BY <1>5, <1>6, <2>2
  <1>7. ASSUME game[k] \in Stored, games[game[k]].host = user[session[k]],
               Goto(k, "commitStop", NoRow, {user[session[k]]}),
               UNCHANGED <<games, used, sessionVars, monitor, cleaner, late>>
        PROVE  IInv'
    <2>1. {user[session[k]]} \in SUBSET Users
      BY <1>1, <1>3 DEF TypeOK
    <2> QED
      BY <1>5, <1>7, <2>1
  <1>8. ASSUME NEW a \in Addresses, Goto(k, "insert", NewRow(session[k], a), {}), monitor' = k,
               UNCHANGED <<games, used, sessionVars, cleaner, late>>
        PROVE  IInv'
    <2>1. NewRow(session[k], a) \in Rows /\ NewRow(session[k], a).host = user[session[k]]
      BY <1>1, <1>3, NewRowOK
    <2>2. /\ pc' = [pc EXCEPT ![k] = "insert"] /\ row' = [row EXCEPT ![k] = NewRow(session[k], a)]
          /\ asker' = [asker EXCEPT ![k] = {}]
          /\ session' = [session EXCEPT ![k] = session[k]] /\ game' = [game EXCEPT ![k] = game[k]]
          /\ {} \in SUBSET Users /\ "insert" \notin HasGame
      BY <1>2, <1>8 DEF Goto, HasGame
    <2> HIDE DEF NewRow
    <2> QED
      BY <1>1, <1>2, <1>3, <1>8, <2>1, <2>2, LocalStep
  <1>9. CASE UpdateFound(k)
    BY <1>4, <1>6, <1>9 DEF UpdateFound, IsHost
  <1>10. CASE StopFound(k)
    BY <1>4, <1>7, <1>10 DEF StopFound, IsHost
  <1>11. CASE \E a \in Addresses : AdoptFound(k, a)
    BY <1>4, <1>8, <1>11 DEF AdoptFound
  <1> QED
    BY <1>9, <1>10, <1>11

\* The new game has an id nobody remembers, and keys no other game has.
LEMMA InsertKeeps ==
  ASSUME IInv, NEW k \in Requests, NEW g \in Games, Insert(k, g)
  PROVE  IInv'
  <1>1. /\ TypeOK /\ IdsOK /\ RequestOK(k) /\ g \notin used /\ pc[k] = "insert"
        /\ ~Committed(row[k]) /\ ~Uncommitted(k, row[k])
    BY DEF IInv, Insert, FreshIds
  <1>2. session[k] \in Sessions /\ row[k] \in Rows /\ Hosted(row[k], session[k])
    BY <1>1 DEF RequestOK, HasRow
  <1>3. /\ UNCHANGED <<games, user, crossed, session, row, asker, cleaner, late>> /\ Stored' = Stored
        /\ used' = used \cup {g} /\ pc'[k] = "commitCreate" /\ game'[k] = g
        /\ hostGame' \in [Sessions -> Games \cup {NoGame}] /\ hostGame'[session[k]] = g
        /\ \A s \in Sessions \ {session[k]} : hostGame'[s] = hostGame[s]
        /\ \A j \in Requests \ {k} : pc'[j] = pc[j] /\ game'[j] = game[j]
    BY <1>1, <1>2 DEF Insert, TypeOK, Stored
  <1>4. TypeOK'
    BY <1>1, <1>3 DEF Insert, TypeOK, Released, Points
  <1>5. ASSUME NEW j \in Requests
        PROVE  RequestOK(j)'
    <2>1. CASE j = k
      BY <1>2, <1>3, <2>1 DEF RequestOK
    <2>2. CASE j # k
      <3>1. RequestOK(j)
        BY DEF IInv
      <3>2. pc[j] = "commitStop" => ~Pending(game[j])'
        BY <1>1, <1>3, <2>2, <3>1 DEF RequestOK, HasGame, Points, Pending
      <3> QED
        BY <1>3, <2>2, <3>1, <3>2 DEF RequestOK, Hosted
    <2> QED
      BY <2>1, <2>2
  <1>6. ASSUME NEW j \in Requests \ {k}, pc[j] = "commitCreate"
        PROVE  game[j] \in used /\ ~SameKey(row[k], row[j]) /\ ~SameKey(row[j], row[k])
    BY <1>1, <1>6 DEF IInv, RequestOK, HasGame, Points, Uncommitted, SameKey
  <1>7. CreateOK(k)'
    <2>1. g \notin Stored /\ g # NoGame
      BY <1>1, DirectoryAssumption DEF IdsOK
    <2>2. \A s \in Sessions : hostGame'[s] = g => s = session[k] /\ Hosted(row[k], s)
      BY <1>1, <1>2, <1>3, <2>1 DEF IdsOK
    <2>3. \A h \in Stored : ~SameKey(row[k], games[h])
      BY <1>1 DEF Committed
    <2>4. \A j \in Requests \ {k} : pc'[j] = "commitCreate" => game'[j] # g /\ ~SameKey(row[k], row[j])
      BY <1>1, <1>3, <1>6
    <2> QED
      BY <1>3, <2>1, <2>2, <2>3, <2>4 DEF CreateOK, SameKey, Hosted
  <1>8. ASSUME NEW j \in Requests \ {k}
        PROVE  CreateOK(j)'
    <2> SUFFICES ASSUME pc[j] = "commitCreate"
                 PROVE  CreateOK(j)'
      BY <1>3 DEF CreateOK
    <2>1. CreateOK(j) /\ game[j] # g
      BY <1>1, <1>6 DEF IInv
    <2>2. \A s \in Sessions : hostGame'[s] = game[j] => s = session[j] /\ Hosted(row[j], s)
      BY <1>3, <2>1 DEF CreateOK
    <2>3. \A i \in Requests \ {j} : pc'[i] = "commitCreate" => game'[i] # game[j] /\ ~SameKey(row[j], row[i])
      BY <1>3, <1>6, <2>1 DEF CreateOK
    <2> QED
      BY <1>3, <2>1, <2>2, <2>3 DEF CreateOK, SameKey, Hosted
  <1>9. IdsOK'
    BY <1>1, <1>3 DEF IdsOK
  <1>10. HostGameIsOwn'
    <2>1. HostGameIsOwn
      BY DEF IInv
    <2>2. \A s \in Sessions : hostGame'[s] \in Stored => games[hostGame'[s]].host = user[s] \/ s \in crossed
      BY <1>1, <1>3, <2>1 DEF HostGameIsOwn, IdsOK
    <2>3. \A s \in Sessions : hostGame[s] # g
      BY <1>1, DirectoryAssumption DEF IdsOK
    <2>4. \A s, t \in Sessions : hostGame'[s] = hostGame'[t] /\ hostGame'[s] # NoGame => s = t
      BY <1>3, <2>1, <2>3 DEF HostGameIsOwn
    <2> QED
      BY <1>3, <2>2, <2>4 DEF HostGameIsOwn
  <1>11. KeysUnique' /\ LateOK' /\ CleanerOK'
    BY <1>3 DEF IInv, KeysUnique, LateOK, CleanerOK, SameKey
  <1> QED
    BY <1>4, <1>5, <1>7, <1>8, <1>9, <1>10, <1>11 DEF IInv

\* The committed game takes its place in the table.
LEMMA CommitCreateKeeps ==
  ASSUME IInv, NEW k \in Requests, CommitCreate(k)
  PROVE  IInv'
  <1> DEFINE g == game[k]
  <1>1. /\ TypeOK /\ IdsOK /\ RequestOK(k) /\ CreateOK(k) /\ pc[k] = "commitCreate" /\ Answer(k)
        /\ games' = [games EXCEPT ![g] = row[k]] /\ late' = LateAfter
        /\ UNCHANGED <<used, sessionVars, monitor, cleaner>>
    BY DEF IInv, CommitCreate
  <1>2. /\ session[k] \in Sessions /\ row[k] \in Rows
        /\ g \in used /\ g \in Games
    BY <1>1 DEF RequestOK, HasGame, HasRow, Points, TypeOK
  <1>3. /\ games'[g] = row[k] /\ \A h \in Games \ {g} : games'[h] = games[h]
        /\ pc'[k] = "idle"
        /\ \A j \in Requests \ {k} : /\ pc'[j] = pc[j] /\ session'[j] = session[j]
                                     /\ game'[j] = game[j] /\ row'[j] = row[j] /\ asker'[j] = asker[j]
    BY <1>1, <1>2 DEF TypeOK, Answer
  <1>4. Stored' = Stored \cup {g} /\ g \notin Stored
    BY <1>1, <1>2, <1>3, RowAssumption DEF Stored, CreateOK
  <1>5. TypeOK'
    BY <1>1, <1>2 DEF TypeOK, Answer, Points, LateAfter, sessionVars
  <1>6. ASSUME NEW j \in Requests
        PROVE  RequestOK(j)'
    <2>1. CASE j = k
      BY <1>3, <2>1 DEF RequestOK, HasGame, HasRow
    <2>2. CASE j # k
      <3>1. RequestOK(j)
        BY DEF IInv
      <3>2. pc[j] = "commitStop" => ~Pending(game[j])' /\ game[j] # g
        BY <1>1, <1>3, <2>2, <3>1 DEF RequestOK, Pending
      <3>3. pc[j] = "commitStop" /\ game[j] \in Stored' => games'[game[j]].host \in asker[j]
        BY <1>3, <1>4, <2>2, <3>1, <3>2 DEF RequestOK, Stored
      <3> QED
        BY <1>1, <1>3, <2>2, <3>1, <3>2, <3>3 DEF RequestOK, Hosted, sessionVars
    <2> QED
      BY <2>1, <2>2
  <1>7. ASSUME NEW j \in Requests
        PROVE  CreateOK(j)'
    <2> SUFFICES ASSUME j # k, pc[j] = "commitCreate"
                 PROVE  CreateOK(j)'
      BY <1>3 DEF CreateOK
    <2>1. CreateOK(j) /\ game[j] # g /\ ~SameKey(row[j], row[k])
      BY <1>1 DEF IInv, CreateOK
    <2>2. game[j] \notin Stored' /\ \A h \in Stored' : ~SameKey(row[j], games'[h])
      BY <1>3, <1>4, <2>1 DEF CreateOK, Stored
    <2>3. \A i \in Requests \ {j} : pc'[i] = "commitCreate" => game'[i] # game[j] /\ ~SameKey(row[j], row'[i])
      BY <1>3, <2>1 DEF CreateOK
    <2> QED
      BY <1>1, <1>3, <2>1, <2>2, <2>3 DEF CreateOK, SameKey, Hosted, sessionVars
  <1>8. IdsOK'
    BY <1>1, <1>2, <1>4 DEF IdsOK, sessionVars
  <1>9. HostGameIsOwn'
    <2>1. \A s \in Sessions : hostGame[s] = g => row[k].host = user[s] \/ s \in crossed
      BY <1>1 DEF CreateOK, Hosted
    <2>2. \A s \in Sessions : hostGame[s] \in Stored' => games'[hostGame[s]].host = user[s] \/ s \in crossed
      BY <1>2, <1>3, <1>4, <2>1 DEF IInv, HostGameIsOwn, Stored
    <2> QED
      BY <1>1, <2>2 DEF IInv, HostGameIsOwn, sessionVars
  <1>10. KeysUnique'
    <2>1. \A h \in Stored : ~SameKey(row[k], games[h]) /\ ~SameKey(games[h], row[k])
      BY <1>1 DEF CreateOK, SameKey
    <2>2. \A h \in Stored : games'[h] = games[h]
      BY <1>3, <1>4 DEF Stored
    <2>3. \A h, i \in Stored' : SameKey(games'[h], games'[i]) => h = i
      BY <1>3, <1>4, <2>1, <2>2 DEF IInv, KeysUnique
    <2> QED
      BY <2>3 DEF KeysUnique, SameKey
  <1>11. LateOK' /\ CleanerOK'
    BY <1>1 DEF IInv, LateOK, CleanerOK, LateAfter, Stored
  <1> QED
    BY <1>5, <1>6, <1>7, <1>8, <1>9, <1>10, <1>11 DEF IInv

\* A commit that leaves the row r, or no row, in the place of g.
LEMMA CommitKeeps ==
  ASSUME IInv, NEW k \in Requests, Answer(k), NEW g \in Games, NEW r \in Rows \cup {NoRow},
         games' = [games EXCEPT ![g] = r],
         r \in Rows => /\ g \in Stored /\ r.host = games[g].host /\ r.address = games[g].address
                       /\ r.age > Timeout => g \in late',
         UNCHANGED <<used, sessionVars, monitor, cleaner>>,
         late' \in SUBSET Games, late \subseteq late'
  PROVE  IInv'
  <1>1. TypeOK
    BY DEF IInv
  <1>2. TypeOK'
    BY <1>1 DEF TypeOK, Answer, Points, sessionVars
  <1>3. games'[g] = r /\ \A h \in Games \ {g} : games'[h] = games[h]
    BY <1>1 DEF TypeOK
  <1>4. \A h \in Stored' : h \in Stored /\ games'[h].host = games[h].host /\ games'[h].address = games[h].address
    BY <1>1, <1>3, RowAssumption DEF Stored
  <1>5. LateOK' /\ CleanerOK'
    BY <1>3, RowAssumption DEF IInv, LateOK, CleanerOK, Stored
  <1>6. \A j \in Requests \ {k} : Kept(j)
    BY <1>1 DEF Kept, Answer, TypeOK
  <1>7. pc'[k] # "commitCreate" /\ RequestOK(k)'
    BY <1>1 DEF Answer, TypeOK, RequestOK, HasGame, HasRow
  <1> QED
    BY <1>2, <1>4, <1>5, <1>6, <1>7, Keeps

\* The commits of updateGame, validateUser and stopGame.
LEMMA CommitsKeep ==
  ASSUME IInv, NEW k \in Requests, CommitUpdate(k) \/ CommitValidate(k) \/ CommitStop(k)
  PROVE  IInv'
  <1> DEFINE g == game[k]
  <1>1. /\ TypeOK /\ RequestOK(k) /\ LateOK /\ Answer(k) /\ UNCHANGED <<used, sessionVars, monitor, cleaner>>
        /\ games \in [Games -> Rows \cup {NoRow}] /\ late \subseteq Games
    BY DEF IInv, TypeOK, CommitUpdate, CommitValidate, CommitStop
  <1>2. g \in Games
    BY <1>1 DEF CommitUpdate, CommitValidate, CommitStop, RequestOK, HasGame, Points, TypeOK
  <1>3. CASE CommitUpdate(k)
    <2> DEFINE r == Written(g, IF g \in Stored THEN [games[g] EXCEPT !.age = row[k].age] ELSE row[k])
    <2>1. row[k] \in Rows /\ games' = [games EXCEPT ![g] = r] /\ late' = LateAfter
      BY <1>1, <1>3 DEF CommitUpdate, RequestOK, HasRow
    <2>2. CASE g \in Stored
      <3>1. games[g] \in Rows /\ row[k].age \in Ages /\ r = [games[g] EXCEPT !.age = row[k].age]
        BY <1>1, <2>1, <2>2, StoredRow DEF Rows, Written
      <3>2. r \in Rows /\ r.host = games[g].host /\ r.address = games[g].address
        BY <3>1 DEF Rows
      <3>3. games'[g] = r /\ (r.age > Timeout => g \in late')
        BY <1>1, <1>2, <2>1, <3>2, RowAssumption DEF LateAfter
      <3> HIDE DEF r
      <3> QED
        BY <1>1, <1>2, <2>1, <2>2, <3>2, <3>3, CommitKeeps DEF LateAfter
    <2>3. CASE g \notin Stored
      <3>1. r = NoRow
        BY <2>3 DEF Written
      <3> HIDE DEF r
      <3> QED
        BY <1>1, <1>2, <2>1, <3>1, RowAssumption, CommitKeeps DEF LateAfter
    <2> QED
      BY <2>2, <2>3
  <1>4. CASE CommitValidate(k)
    <2> DEFINE r == Written(g, IF g \in Stored THEN [games[g] EXCEPT !.players = row[k].players] ELSE row[k])
    <2>1. row[k] \in Rows /\ games' = [games EXCEPT ![g] = r] /\ late' = late
      BY <1>1, <1>4 DEF CommitValidate, RequestOK, HasRow
    <2>2. CASE g \in Stored
      <3>1. games[g] \in Rows /\ row[k].players \in SUBSET Users /\ r = [games[g] EXCEPT !.players = row[k].players]
        BY <1>1, <2>1, <2>2, StoredRow DEF Rows, Written
      <3>2. r \in Rows /\ r.host = games[g].host /\ r.address = games[g].address /\ r.age = games[g].age
        BY <3>1 DEF Rows
      <3>3. r.age > Timeout => g \in late'
        BY <1>1, <2>1, <2>2, <3>2 DEF LateOK
      <3> HIDE DEF r
      <3> QED
        BY <1>1, <1>2, <2>1, <2>2, <3>2, <3>3, CommitKeeps
    <2>3. CASE g \notin Stored
      <3>1. r = NoRow
        BY <2>3 DEF Written
      <3> HIDE DEF r
      <3> QED
        BY <1>1, <1>2, <2>1, <3>1, RowAssumption, CommitKeeps
    <2> QED
      BY <2>2, <2>3
  <1>5. CASE CommitStop(k)
    BY <1>1, <1>2, <1>5, RowAssumption, CommitKeeps DEF CommitStop
  <1> QED
    BY <1>3, <1>4, <1>5

-----------------------------------------------------------------------------
(* Sessions, the cleaner and time *)

\* A new SessionState names no game, and if it overtakes a creation of another
\* user's, the session is crossed.
LEMMA LoginKeeps ==
  ASSUME IInv, NEW s \in Sessions, NEW u \in Users, Login(s, u)
  PROVE  IInv'
  <1>1. TypeOK
    BY DEF IInv
  <1>2. /\ UNCHANGED <<games, used, pc, session, game, row, asker, monitor, cleaner, late>> /\ Stored' = Stored
        /\ hostGame' = [hostGame EXCEPT ![s] = NoGame] /\ user' = [user EXCEPT ![s] = u]
        /\ \A t \in Sessions : hostGame'[t] \in {hostGame[t], NoGame} /\ hostGame'[s] = NoGame
        /\ user'[s] = u /\ \A t \in Sessions \ {s} : user'[t] = user[t] /\ (t \in crossed' <=> t \in crossed)
        /\ \A k \in Requests : session[k] = s /\ pc[k] = "insert" /\ row[k].host # u => s \in crossed'
        /\ crossed' \subseteq Sessions
    BY <1>1 DEF Login, HostGameAfterLogin, requestVars, TypeOK, Stored
  <1>3. TypeOK'
    BY <1>1, <1>2 DEF TypeOK
  <1>4. ASSUME NEW j \in Requests
        PROVE  RequestOK(j)' /\ CreateOK(j)'
    <2>1. RequestOK(j) /\ CreateOK(j)
      BY DEF IInv
    <2>2. pc[j] = "insert" => Hosted(row[j], session[j])'
      BY <1>2, <2>1 DEF RequestOK, Hosted
    <2>3. RequestOK(j)'
      BY <1>2, <2>1, <2>2 DEF RequestOK, Pending, Hosted
    <2>4. pc[j] = "commitCreate" => game[j] # NoGame
      BY <1>1, <2>1, DirectoryAssumption DEF RequestOK, HasGame, Points, TypeOK
    <2>5. CreateOK(j)'
      BY <1>2, <2>1, <2>4 DEF CreateOK, SameKey, Hosted
    <2> QED
      BY <2>3, <2>5
  <1>5. IdsOK'
    BY <1>2 DEF IInv, IdsOK
  <1>6. HostGameIsOwn'
    <2>1. HostGameIsOwn /\ NoGame \notin Stored
      BY DirectoryAssumption DEF IInv, Stored
    <2> QED
      BY <1>2, <2>1 DEF HostGameIsOwn
  <1>7. KeysUnique' /\ LateOK' /\ CleanerOK'
    BY <1>2 DEF IInv, KeysUnique, LateOK, CleanerOK, SameKey
  <1> QED
    BY <1>3, <1>4, <1>5, <1>6, <1>7 DEF IInv

\* A step of the cleaner that only chooses what to examine, and to remove.
LEMMA CleanerMoves ==
  ASSUME IInv, UNCHANGED <<games, used, sessionVars, requestVars, late>>,
         monitor' \in Requests \cup {Nobody, Cleaner}, cleaner' \in Cleaners, CleanerOK'
  PROVE  IInv'
  <1>1. UNCHANGED <<pc, session, game, row, asker>>
    BY DEF requestVars
  <1>2. TypeOK' /\ LateOK' /\ Stored' = Stored
    BY <1>1 DEF IInv, TypeOK, LateOK, Stored, sessionVars
  <1>3. \A j \in Requests : Kept(j)
    BY <1>1 DEF Kept
  <1> QED
    BY <1>2, <1>3, Keeps

\* The cleaner's next round is the rest of its list.
LEMMA RoundGoesOn ==
  ASSUME NEW list \in SUBSET Games
  PROVE  /\ CleanerAfter(list) \in Cleaners /\ CleanerAfter(list).at # "remove"
         /\ CleanerIdle \in Cleaners /\ CleanerIdle.at # "remove"
  BY DEF CleanerAfter, CleanerIdle, Cleaners

\* A step of the cleaner.
LEMMA CleanerKeeps ==
  ASSUME IInv, CleanerStep
  PROVE  IInv'
  <1>1. TypeOK /\ cleaner.list \in SUBSET Games /\ monitor \in Requests \cup {Nobody, Cleaner}
    BY DEF IInv, TypeOK, Cleaners
  <1>2. CASE ListOldGames
    <2>1. {g \in Stored : Stale(games[g])} \in SUBSET Games
      BY DEF Stored
    <2> QED
      BY <1>1, <1>2, <2>1, RoundGoesOn, CleanerMoves DEF ListOldGames, CleanerOK
  <1>3. ASSUME NEW g \in Games, Examine(g)
        PROVE  IInv'
    <2>1. cleaner.list \ {g} \in SUBSET Games /\ UNCHANGED <<games, used, sessionVars, requestVars, late>>
      BY <1>1, <1>3 DEF Examine
    <2>2. CASE cleaner' \in {CleanerIdle, CleanerAfter(cleaner.list \ {g})} /\ UNCHANGED monitor
      <3>1. cleaner' \in Cleaners /\ cleaner'.at # "remove"
        BY <2>1, <2>2, RoundGoesOn
      <3> QED
        BY <1>1, <2>1, <2>2, <3>1, CleanerMoves DEF CleanerOK
    <2>3. CASE /\ g \in Stored /\ Stale(games[g]) /\ monitor' = Cleaner
               /\ cleaner' = [cleaner EXCEPT !.at = "remove", !.game = g]
      <3>1. cleaner' \in Cleaners /\ cleaner'.game = g
        BY <1>1, <2>3 DEF TypeOK, Cleaners
      <3>2. g \in late
        BY <2>3 DEF IInv, LateOK, Stale
      <3> QED
        BY <2>1, <2>3, <3>1, <3>2, CleanerMoves DEF CleanerOK
    <2> QED
      BY <1>3, <2>2, <2>3 DEF Examine
  <1>4. CASE Remove
    <2> DEFINE g == cleaner.game
    <2>1. cleaner' \in Cleaners /\ cleaner'.at # "remove"
      <3>1. cleaner.list \ {g} \in SUBSET Games
        BY <1>1
      <3> QED
        BY <1>4, <3>1, RoundGoesOn DEF Remove
    <2>2. /\ games' = [games EXCEPT ![g] = NoRow] /\ monitor' = Nobody
          /\ UNCHANGED <<used, sessionVars, pc, session, game, row, asker, late>>
      BY <1>4 DEF Remove, requestVars
    <2>3. TypeOK' /\ CleanerOK'
      BY <1>1, <2>1, <2>2 DEF TypeOK, CleanerOK, sessionVars
    <2>4. \A h \in Stored' : h \in Stored /\ games'[h] = games[h]
      BY <1>1, <2>2 DEF TypeOK, Stored
    <2>5. LateOK'
      BY <2>2, <2>4 DEF IInv, LateOK
    <2>6. \A j \in Requests : Kept(j)
      BY <2>2 DEF Kept
    <2> QED
      BY <2>2, <2>3, <2>4, <2>5, <2>6, Keeps
  <1> QED
    BY <1>2, <1>3, <1>4 DEF CleanerStep

\* Time passes for all games, and overdue ones are late.
LEMMA TickKeeps ==
  ASSUME IInv, Tick
  PROVE  IInv'
  <1>1. /\ TypeOK /\ UNCHANGED <<used, sessionVars, pc, session, game, asker, monitor, cleaner>>
        /\ late' = LateAfter
        /\ games' = [g \in Games |-> Older(games[g])] /\ row' = [k \in Requests |-> Older(row[k])]
    BY DEF IInv, Tick
  <1>2. \A g \in Games : /\ games'[g] \in Rows \cup {NoRow} /\ (games'[g] = NoRow <=> games[g] = NoRow)
                         /\ games[g] \in Rows => /\ games'[g].host = games[g].host
                                                 /\ games'[g].address = games[g].address
    BY <1>1, RowAges DEF TypeOK
  <1>3. \A k \in Requests : /\ row'[k] \in Rows \cup {NoRow} /\ (row'[k] = NoRow <=> row[k] = NoRow)
                            /\ row[k] \in Rows => row'[k].host = row[k].host /\ row'[k].address = row[k].address
    BY <1>1, RowAges DEF TypeOK
  <1>4. TypeOK'
    <2>1. games' \in [Games -> Rows \cup {NoRow}] /\ row' \in [Requests -> Rows \cup {NoRow}]
      BY <1>1, <1>2, <1>3
    <2> QED
      BY <1>1, <2>1 DEF TypeOK, LateAfter, sessionVars
  <1>5. \A g \in Stored' : g \in Stored /\ games'[g].host = games[g].host /\ games'[g].address = games[g].address
    BY <1>1, <1>2, StoredRow DEF Stored
  <1>6. LateOK' /\ CleanerOK'
    BY <1>1 DEF IInv, LateOK, CleanerOK, LateAfter, Stored
  <1>7. \A j \in Requests : Kept(j)
    BY <1>1, <1>3, RowAssumption DEF Kept
  <1> QED
    BY <1>1, <1>4, <1>5, <1>6, <1>7, Keeps

-----------------------------------------------------------------------------
(* The theorems *)

\* The directory starts empty.
LEMMA Initial == Init => IInv
  <1> SUFFICES ASSUME Init
               PROVE  IInv
    OBVIOUS
  <1>1. Stored = {}
    BY DEF Init, Stored
  <1>2. TypeOK
    BY DEF Init, TypeOK, Points, CleanerIdle, Cleaners
  <1>3. \A k \in Requests : RequestOK(k) /\ CreateOK(k)
    BY DEF Init, RequestOK, CreateOK, HasGame, HasRow
  <1>4. IdsOK /\ HostGameIsOwn /\ KeysUnique /\ LateOK /\ CleanerOK
    BY <1>1 DEF Init, IdsOK, HostGameIsOwn, KeysUnique, LateOK, CleanerOK, CleanerIdle
  <1> QED
    BY <1>2, <1>3, <1>4 DEF IInv

\* Every step keeps the invariant.
LEMMA Inductive == IInv /\ [Next]_vars => IInv'
  <1> SUFFICES ASSUME IInv, [Next]_vars
               PROVE  IInv'
    OBVIOUS
  <1>1. CASE UNCHANGED vars
    <2>1. /\ UNCHANGED <<games, used, sessionVars, requestVars, monitor, cleaner, late>>
          /\ monitor \in Requests \cup {Nobody, Cleaner} /\ cleaner \in Cleaners /\ CleanerOK
      BY <1>1 DEF vars, IInv, TypeOK
    <2> QED
      BY <2>1, CleanerMoves DEF CleanerOK
  <1>2. CASE Arrive
    BY <1>2, ArriveKeeps DEF Arrive
  <1>3. ASSUME NEW k \in Requests, RequestStep(k)
        PROVE  IInv'
    <2>1. CASE InsertRefused(k)
      BY <2>1, AnswerKeeps DEF InsertRefused, Released, IInv, TypeOK
    <2> QED
      BY <1>3, <2>1, FoundKeeps, InsertKeeps, CommitCreateKeeps, CommitsKeep DEF RequestStep
  <1>4. CASE \E s \in Sessions, u \in Users : Login(s, u)
    BY <1>4, LoginKeeps
  <1>5. CASE CleanerStep
    BY <1>5, CleanerKeeps
  <1>6. CASE Tick
    BY <1>6, TickKeeps
  <1> QED
    BY <1>1, <1>2, <1>3, <1>4, <1>5, <1>6 DEF Next

\* The invariant holds in every reachable state.
THEOREM Invariant == Spec => []IInv
  BY Initial, Inductive, PTL DEF Spec

\* Types are kept (the table of games, GamerServiceImpl and the cleaner).
THEOREM TypeCorrect == Spec => []TypeOK
  BY Invariant, PTL DEF IInv

\* A session's hostGameId names a stored game of the user who is logged in there,
\* but for one who logged in while another's creation was waiting, and no two
\* sessions hold one id (GamerServiceImpl.startGame, LoginServiceImpl, SessionState).
THEOREM SessionsOwnTheirGames == Spec => []HostGameIsOwn
  BY Invariant, PTL DEF IInv

\* A step leaves the game g where it is.
Unchanged(g) ==
  g \in Stored' /\ games'[g].host = games[g].host /\ games'[g].address = games[g].address

\* The cause of a game's end.
Cause(g) ==
  \/ g \in late
  \/ \E k \in Requests : /\ pc[k] = "commitStop" /\ pc'[k] = "idle"
                         /\ game[k] = g /\ games[g].host \in asker[k]

\* The games that were made and are not committed yet.
AllPending == {game[k] : k \in {j \in Requests : pc[j] = "commitCreate"}}

\* What a step that commits no new game does: it leaves all of them, or it ends
\* one for a cause.
StoresSame == Stored' = Stored /\ \A g \in Stored : Unchanged(g)
Closes(g) ==
  /\ Stored' = Stored \ {g} /\ \A h \in Stored \ {g} : Unchanged(h)
  /\ g \in Stored /\ Cause(g)

\* A step opens a game, closes one, or does neither.
LEMMA StepKinds ==
  ASSUME IInv, [Next]_vars
  PROVE  \/ \E k \in Requests : CommitCreate(k)
         \/ (\E k \in Requests, g \in Games : Insert(k, g)) /\ StoresSame
         \/ /\ UNCHANGED used /\ AllPending' = AllPending
            /\ StoresSame \/ \E g \in Games : Closes(g)
  <1> DEFINE Other == /\ UNCHANGED used /\ AllPending' = AllPending
                      /\ StoresSame \/ \E g \in Games : Closes(g)
  <1>1. TypeOK /\ \A g \in Stored : g \in Games /\ games[g] \in Rows
    BY StoredRow DEF IInv
  <1>2. games' = games => StoresSame
    BY DEF StoresSame, Unchanged, Stored
  <1>3. ASSUME NEW k \in Requests, NEW p \in Points, pc' = [pc EXCEPT ![k] = p],
               p # "commitCreate", pc[k] # "commitCreate", \A j \in Requests \ {k} : game'[j] = game[j]
        PROVE  AllPending' = AllPending
    BY <1>1, <1>3 DEF TypeOK, AllPending
  <1>4. ASSUME NEW k \in Requests, Answer(k), pc[k] # "commitCreate"
        PROVE  AllPending' = AllPending
    BY <1>1, <1>3, <1>4 DEF Answer, TypeOK, Points
  <1>5. CASE UNCHANGED vars
    BY <1>2, <1>5 DEF vars, requestVars, AllPending
  <1>6. ASSUME NEW k \in Requests, NEW s \in Sessions, NEW p, NEW g, NEW r, Begin(k, s, p, g, r),
               p \in Points \ {"commitCreate"}, UNCHANGED <<games, used>>
        PROVE  Other
    <2>1. AllPending' = AllPending
      BY <1>1, <1>3, <1>6 DEF Begin, TypeOK
    <2> QED
      BY <1>2, <1>6, <2>1
  <1>7. CASE Arrive
    BY <1>6, <1>7 DEF Arrive, StartGame, UpdateGame, StopGame, AdoptGame, ValidateUser, Points
  <1>8. ASSUME NEW k \in Requests, RequestStep(k)
        PROVE  \/ CommitCreate(k)
               \/ (\E g \in Games : Insert(k, g)) /\ StoresSame
               \/ Other
    <2>1. CASE UpdateFound(k) \/ StopFound(k) \/ \E a \in Addresses : AdoptFound(k, a)
      <3>1. /\ UNCHANGED <<games, used>> /\ pc[k] # "commitCreate"
            /\ Answer(k) \/ \E p \in Points \ {"commitCreate"} : \E r, a : Goto(k, p, r, a)
        BY <2>1 DEF UpdateFound, StopFound, AdoptFound, Points
      <3>2. AllPending' = AllPending
        BY <1>3, <1>4, <3>1 DEF Goto
      <3> QED
        BY <1>2, <3>1, <3>2
    <2>2. CASE InsertRefused(k)
      BY <1>2, <1>4, <2>2 DEF InsertRefused
    <2>3. CASE \E g \in Games : Insert(k, g)
      BY <1>2, <2>3 DEF Insert
    <2>4. CASE CommitUpdate(k) \/ CommitValidate(k)
      <3> DEFINE g == game[k]
      <3>1. /\ UNCHANGED used /\ Answer(k) /\ pc[k] # "commitCreate" /\ RequestOK(k) /\ g \in Games
        BY <1>1, <2>4 DEF CommitUpdate, CommitValidate, IInv, RequestOK, HasGame, Points, TypeOK
      <3>2. CASE g \in Stored
        <4>1. games'[g] = [games[g] EXCEPT !.age = row[k].age] \/ games'[g] = [games[g] EXCEPT !.players = row[k].players]
          BY <1>1, <2>4, <3>1, <3>2 DEF CommitUpdate, CommitValidate, Written, TypeOK
        <4>2. row[k] \in Rows
          BY <2>4, <3>1 DEF CommitUpdate, CommitValidate, RequestOK, HasRow
        <4>3. games'[g] \in Rows /\ games'[g].host = games[g].host /\ games'[g].address = games[g].address
          BY <1>1, <3>2, <4>1, <4>2 DEF Rows
        <4>4. \A h \in Games \ {g} : games'[h] = games[h]
          BY <1>1, <2>4 DEF CommitUpdate, CommitValidate, TypeOK
        <4>5. StoresSame
          BY <3>2, <4>3, <4>4, RowAssumption DEF StoresSame, Unchanged, Stored
        <4> QED
          BY <1>4, <3>1, <4>5
      <3>3. CASE g \notin Stored
        <4>1. \A h \in Games : games'[h] = games[h]
          BY <1>1, <2>4, <3>1, <3>3 DEF CommitUpdate, CommitValidate, Written, Stored, TypeOK
        <4>2. StoresSame
          BY <4>1 DEF StoresSame, Unchanged, Stored
        <4> QED
          BY <1>4, <3>1, <4>2
      <3> QED
        BY <3>2, <3>3
    <2>5. CASE CommitStop(k)
      <3> DEFINE g == game[k]
      <3>1. /\ UNCHANGED used /\ Answer(k) /\ pc[k] = "commitStop" /\ RequestOK(k) /\ g \in Games
            /\ pc'[k] = "idle" /\ games' = [games EXCEPT ![g] = NoRow]
        BY <1>1, <2>5 DEF CommitStop, IInv, RequestOK, HasGame, Points, TypeOK, Answer
      <3>2. games'[g] = NoRow /\ \A h \in Games \ {g} : games'[h] = games[h]
        BY <1>1, <3>1 DEF TypeOK
      <3>3. g \in Stored => Cause(g)
        BY <3>1 DEF Cause, RequestOK
      <3>4. StoresSame \/ Closes(g)
        BY <3>2, <3>3 DEF StoresSame, Closes, Unchanged, Stored
      <3> QED
        BY <1>4, <3>1, <3>4
    <2> QED
      BY <1>8, <2>1, <2>2, <2>3, <2>4, <2>5 DEF RequestStep
  <1>9. CASE \E s \in Sessions, u \in Users : Login(s, u)
    BY <1>2, <1>9 DEF Login, requestVars, AllPending
  <1>10. CASE CleanerStep
    <2>1. UNCHANGED <<used, requestVars>> /\ AllPending' = AllPending
      BY <1>10 DEF CleanerStep, ListOldGames, Examine, Remove, requestVars, AllPending
    <2>2. CASE Remove
      <3> DEFINE g == cleaner.game
      <3>1. g \in late /\ g \in Games /\ games' = [games EXCEPT ![g] = NoRow]
        BY <1>1, <2>2 DEF Remove, IInv, CleanerOK, TypeOK
      <3>2. games'[g] = NoRow /\ \A h \in Games \ {g} : games'[h] = games[h]
        BY <1>1, <3>1 DEF TypeOK
      <3>3. StoresSame \/ Closes(g)
        BY <3>1, <3>2 DEF StoresSame, Closes, Unchanged, Cause, Stored
      <3> QED
        BY <2>1, <3>1, <3>3
    <2> QED
      BY <1>2, <1>10, <2>1, <2>2 DEF CleanerStep, ListOldGames, Examine
  <1>11. CASE Tick
    <2>1. \A g \in Games : games'[g] = Older(games[g]) /\ games[g] \in Rows \cup {NoRow}
      BY <1>1, <1>11 DEF Tick, TypeOK
    <2>2. Stored' = Stored
      BY <2>1, RowAges DEF Stored
    <2>3. \A g \in Stored : Unchanged(g)
      BY <1>1, <2>1, <2>2, RowAges DEF Unchanged
    <2> QED
      BY <1>11, <2>2, <2>3 DEF Tick, StoresSame, AllPending
  <1> QED
    BY <1>5, <1>7, <1>8, <1>9, <1>10, <1>11 DEF Next

\* A game ends because its host stopped it, or because it was overdue
\* (GamerServiceImpl.stopGame, InactiveGameCleanerImpl.cleanOldGames).
THEOREM GamesCloseForCause == Spec => GameClosesForCause
  <1>1. ASSUME IInv, [Next]_vars, NEW g \in Stored, games'[g] = NoRow
        PROVE  Cause(g)
    <2>1. g \notin Stored' /\ TypeOK
      BY <1>1 DEF Stored, IInv
    <2>2. ~ \E k \in Requests : CommitCreate(k)
      <3>1. ASSUME NEW k \in Requests, CommitCreate(k)
            PROVE  FALSE
        <4>1. RequestOK(k) /\ CreateOK(k) /\ pc[k] = "commitCreate" /\ games' = [games EXCEPT ![game[k]] = row[k]]
          BY <1>1, <3>1 DEF IInv, CommitCreate
        <4>2. row[k] # NoRow
          BY <4>1, RowAssumption DEF RequestOK, HasRow
        <4>3. games'[g] = games[g] \/ games'[g] = row[k]
          BY <1>1, <2>1, <4>1 DEF TypeOK, Stored
        <4> QED
          BY <1>1, <4>2, <4>3 DEF Stored
      <3> QED
        BY <3>1
    <2>3. ~ StoresSame
      BY <2>1 DEF StoresSame
    <2> QED
      BY <1>1, <2>1, <2>2, <2>3, StepKinds DEF Closes, Unchanged
  <1>2. IInv /\ [Next]_vars =>
          [\A g \in Stored : games'[g] = NoRow =>
             \/ g \in late
             \/ \E k \in Requests : /\ pc[k] = "commitStop" /\ pc'[k] = "idle"
                                    /\ game[k] = g /\ games[g].host \in asker[k]]_vars
    BY <1>1 DEF Cause
  <1> QED
    BY <1>2, Invariant, PTL DEF Spec, GameClosesForCause

-----------------------------------------------------------------------------
(* The refinement of GameRegistry *)

\* The games that were stored once and are not any more.
Closed == {g \in used \ Stored : ~Pending(g)}
Host == [g \in Stored |-> games[g].host]
Address == [g \in Stored |-> games[g].address]

\* A step that leaves the games as they were changes nothing in the register.
LEMMA SameRegister ==
  ASSUME StoresSame, Closed' = Closed
  PROVE  UNCHANGED <<Stored, Closed, Host, Address>>
  <1>1. Stored' = Stored /\ \A g \in Stored : games'[g].host = games[g].host /\ games'[g].address = games[g].address
    BY DEF StoresSame, Unchanged
  <1>2. Host' = Host /\ Address' = Address
    BY <1>1 DEF Host, Address
  <1> QED
    BY <1>1, <1>2

\* Pending, as a set.
LEMMA PendingSet ==
  \A g : (Pending(g) <=> g \in AllPending) /\ (Pending(g)' <=> g \in AllPending')
  BY DEF Pending, AllPending

\* A commit of a new game opens it in the register.
LEMMA CreateOpens ==
  ASSUME IInv, NEW k \in Requests, CommitCreate(k)
  PROVE  Registry!Next
  <1>1. /\ TypeOK /\ IdsOK /\ RequestOK(k) /\ CreateOK(k) /\ pc[k] = "commitCreate" /\ Answer(k)
        /\ games' = [games EXCEPT ![game[k]] = row[k]] /\ UNCHANGED used
    BY DEF IInv, CommitCreate
  <1>2. row[k] \in Rows /\ game[k] \in used /\ game[k] \in Games
    BY <1>1 DEF RequestOK, HasGame, HasRow, Points, TypeOK
  <1>3. PICK g \in Games, u \in Users, a \in Addresses :
          g = game[k] /\ u = row[k].host /\ a = row[k].address
    BY <1>2 DEF Rows
  <1>4. games'[g] = row[k] /\ \A h \in Games \ {g} : games'[h] = games[h]
    BY <1>1, <1>3 DEF TypeOK
  <1>5. Stored' = Stored \cup {g} /\ g \notin Stored
    BY <1>1, <1>2, <1>3, <1>4, RowAssumption DEF Stored, CreateOK
  <1>6. pc'[k] = "idle" /\ \A j \in Requests \ {k} : pc'[j] = pc[j] /\ game'[j] = game[j]
    BY <1>1 DEF Answer, TypeOK
  <1>7. Pending(g) /\ \A h : h # g => (Pending(h)' <=> Pending(h))
    BY <1>1, <1>3, <1>6 DEF Pending
  <1>8. Closed' = Closed /\ g \notin Closed
    BY <1>1, <1>5, <1>7 DEF Closed
  <1>9. \A h \in Stored : Host[h] # u /\ Address[h] # a
    BY <1>1, <1>3 DEF CreateOK, SameKey, Host, Address
  <1>10. \A h \in Stored' : h # g => h \in Stored /\ games'[h] = games[h]
    BY <1>4, <1>5 DEF Stored
  <1>11. /\ Host' = [h \in Stored' |-> IF h = g THEN u ELSE Host[h]]
         /\ Address' = [h \in Stored' |-> IF h = g THEN a ELSE Address[h]]
    BY <1>3, <1>4, <1>10 DEF Host, Address
  <1>12. Registry!Open(g, u, a)
    BY <1>5, <1>8, <1>9, <1>11 DEF Registry!Open, Closed, Host, Address
  <1> QED
    BY <1>12 DEF Registry!Next

\* A game that ends is closed in the register.
LEMMA EndCloses ==
  ASSUME IInv, NEW g \in Games, Closes(g), UNCHANGED used, AllPending' = AllPending
  PROVE  Registry!Next
  <1>1. g \in Stored /\ Stored' = Stored \ {g} /\ \A h \in Stored' : h \in Stored /\ Unchanged(h)
    BY DEF Closes
  <1>2. g \in used /\ ~Pending(g)
    BY <1>1 DEF IInv, IdsOK, CreateOK, Pending
  <1>3. Closed' = Closed \cup {g}
    <2>1. \A h : Pending(h)' <=> Pending(h)
      BY PendingSet
    <2> QED
      BY <1>1, <1>2, <2>1 DEF Closed
  <1>4. Host' = [h \in Stored' |-> Host[h]] /\ Address' = [h \in Stored' |-> Address[h]]
    BY <1>1 DEF Host, Address, Unchanged
  <1>5. Registry!Close(g)
    BY <1>1, <1>3, <1>4 DEF Registry!Close, Closed, Host, Address
  <1> QED
    BY <1>5 DEF Registry!Next

\* An insertion, which nobody sees before it is committed, changes nothing.
LEMMA InsertHides ==
  ASSUME IInv, NEW k \in Requests, NEW g \in Games, Insert(k, g), StoresSame
  PROVE  Closed' = Closed
  <1>1. /\ TypeOK /\ g \notin used /\ used' = used \cup {g} /\ pc[k] = "insert"
        /\ pc' = [pc EXCEPT ![k] = "commitCreate"] /\ game' = [game EXCEPT ![k] = g]
    BY DEF IInv, Insert, FreshIds
  <1>2. /\ pc'[k] = "commitCreate" /\ game'[k] = g
        /\ \A j \in Requests \ {k} : pc'[j] = pc[j] /\ game'[j] = game[j]
    BY <1>1 DEF TypeOK
  <1>3. Pending(g)' /\ \A h : h # g => (Pending(h)' <=> Pending(h))
    BY <1>1, <1>2 DEF Pending
  <1>4. Stored' = Stored
    BY DEF StoresSame
  <1> QED
    BY <1>1, <1>3, <1>4 DEF Closed

\* The directory's table is a register of games (GameRegistry): hosts and
\* addresses are unique, and what was closed stays closed.
THEOREM TableIsRegister == Spec => ImplementsRegistry
  <1>1. Init => Registry!Init
    <2> SUFFICES ASSUME Init
                 PROVE  Registry!Init
      OBVIOUS
    <2>1. Stored = {} /\ {g \in used \ Stored : ~Pending(g)} = {}
      BY DEF Init, Stored
    <2> QED
      BY <2>1 DEF Registry!Init
  <1>2. IInv /\ [Next]_vars => [Registry!Next]_(Registry!vars)
    <2> SUFFICES ASSUME IInv, [Next]_vars
                 PROVE  Registry!Next \/ UNCHANGED <<Stored, Closed, Host, Address>>
      BY DEF Registry!vars, Closed, Host, Address
    <2>1. ASSUME NEW k \in Requests, CommitCreate(k)
          PROVE  Registry!Next
      BY <2>1, CreateOpens
    <2>2. ASSUME NEW k \in Requests, NEW g \in Games, Insert(k, g), StoresSame
          PROVE  UNCHANGED <<Stored, Closed, Host, Address>>
      BY <2>2, InsertHides, SameRegister
    <2>3. ASSUME UNCHANGED used, AllPending' = AllPending, StoresSame
          PROVE  UNCHANGED <<Stored, Closed, Host, Address>>
      <3>1. Stored' = Stored /\ \A g : Pending(g)' <=> Pending(g)
        BY <2>3, PendingSet DEF StoresSame
      <3>2. Closed' = Closed
        BY <2>3, <3>1 DEF Closed
      <3> QED
        BY <2>3, <3>2, SameRegister
    <2>4. ASSUME UNCHANGED used, AllPending' = AllPending, NEW g \in Games, Closes(g)
          PROVE  Registry!Next
      BY <2>4, EndCloses
    <2> QED
      BY <2>1, <2>2, <2>3, <2>4, StepKinds
  <1> QED
    BY <1>1, <1>2, Invariant, PTL DEF Spec, ImplementsRegistry, Registry!Spec

=============================================================================
