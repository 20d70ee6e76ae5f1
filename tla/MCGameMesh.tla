------------------------------ MODULE MCGameMesh ------------------------------
(***************************************************************************)
(* GameMesh for TLC: every user has one client, or the first two clients   *)
(* are of one user; every client plays once, or the first one twice.       *)
(***************************************************************************)
EXTENDS GameMesh

CONSTANTS c1, c2, c3

Own == [c \in Clients |-> c]
Shared == [c \in Clients |-> IF c = c2 THEN c1 ELSE c]
Twice == [c \in Clients |-> IF c = c1 THEN 2 ELSE 1]
Once == [c \in Clients |-> 1]

=============================================================================
