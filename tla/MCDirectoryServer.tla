--------------------------- MODULE MCDirectoryServer ---------------------------
(***************************************************************************)
(* DirectoryServer for TLC.  Where liveness is checked, ids are used again *)
(* when nothing refers to them any more, so that the table does not come   *)
(* to rest because a few ids were all given out.                           *)
(***************************************************************************)
EXTENDS DirectoryServer, TLC

\* For the safety runs: whatever has no name of its own is interchangeable.
Symmetric ==
  Permutations(Requests) \cup Permutations(Addresses) \cup Permutations(Games)
    \cup Permutations(Sessions) \cup Permutations(Users)

\* Bound of the safety run: a validation adds a player.  One of a player the game
\* has already writes back the players it read, as the others do.
AddsPlayer ==
  \A k \in Requests : pc[k] = "idle" /\ pc'[k] = "commitValidate" =>
    row'[k].players # games[game'[k]].players

AddingSpec == Init /\ [][Next /\ AddsPlayer]_vars

\* Nothing refers to the id of a game that is gone: it is as good as a new one.
Forget(g) ==
  /\ g \in used \ Stored
  /\ \A s \in Sessions : hostGame[s] # g
  /\ \A k \in Requests : game[k] # g
  /\ g \notin cleaner.list \cup {cleaner.game}
  /\ used' = used \ {g}
  /\ late' = late \ {g}
  /\ UNCHANGED <<games, sessionVars, requestVars, monitor, cleaner>>

\* Bounds of the liveness run.  No player is validated: the players of a game stop
\* nobody.  Of the two users one comes from either address and the other from one
\* only, which is enough for them to wait for each other's host and address.  The
\* second id is given out only while the first is in use.
FirstOf(S) == CHOOSE x \in S : TRUE
OneAddress(r) == r # NoRow /\ r.host # FirstOf(Users) => r.address = FirstOf(Addresses)

Bounded ==
  /\ \A k \in Requests : pc'[k] # "commitValidate" /\ OneAddress(row'[k])
  /\ used' # used => FirstOf(Games) \in used'

RecyclingNext == (Next /\ Bounded) \/ \E g \in Games : Forget(g)
RecyclingSpec == Init /\ [][RecyclingNext]_vars /\ Fairness

=============================================================================
