----------------------------- MODULE GameRegistry -----------------------------
(***************************************************************************)
(* What the directory promises the players: a register of open games in    *)
(* which a host has one game and an address carries one, and where a game  *)
(* that was closed, by its host or as abandoned, stays closed.             *)
(***************************************************************************)
CONSTANTS Games, Users, Addresses

VARIABLES open,     \* the open games
          closed,   \* the games that were open once
          host, address   \* of each open game

vars == <<open, closed, host, address>>

Init ==
  /\ open = {} /\ closed = {}
  /\ host = [g \in {} |-> g]
  /\ address = [g \in {} |-> g]

Open(g, u, a) ==
  /\ g \notin open \cup closed
  /\ \A h \in open : host[h] # u /\ address[h] # a
  /\ open' = open \cup {g}
  /\ host' = [h \in open' |-> IF h = g THEN u ELSE host[h]]
  /\ address' = [h \in open' |-> IF h = g THEN a ELSE address[h]]
  /\ UNCHANGED closed

Close(g) ==
  /\ g \in open
  /\ open' = open \ {g}
  /\ closed' = closed \cup {g}
  /\ host' = [h \in open' |-> host[h]]
  /\ address' = [h \in open' |-> address[h]]

Next ==
  \E g \in Games :
    \/ \E u \in Users, a \in Addresses : Open(g, u, a)
    \/ Close(g)

Spec == Init /\ [][Next]_vars

=============================================================================
