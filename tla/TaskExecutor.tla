----------------------------- MODULE TaskExecutor -----------------------------
(***************************************************************************)
(* What a thread pool promises its callers, whatever threads, queues and   *)
(* locks it is made of: a task handed to execute is run once, and a run    *)
(* that has begun ends.                                                    *)
(***************************************************************************)
CONSTANT Tasks

VARIABLES pending,   \* handed over, not begun
          running,
          finished

vars == <<pending, running, finished>>

Init == pending = {} /\ running = {} /\ finished = {}

Submit(t) ==
  /\ t \notin pending \cup running \cup finished
  /\ pending' = pending \cup {t}
  /\ UNCHANGED <<running, finished>>

Begin(t) ==
  /\ t \in pending
  /\ pending' = pending \ {t}
  /\ running' = running \cup {t}
  /\ UNCHANGED finished

End(t) ==
  /\ t \in running
  /\ running' = running \ {t}
  /\ finished' = finished \cup {t}
  /\ UNCHANGED pending

Next == \E t \in Tasks : Submit(t) \/ Begin(t) \/ End(t)

\* What holds of every pool.
SafeSpec == Init /\ [][Next]_vars

\* What holds of a pool nobody shuts down.
Spec == SafeSpec /\ \A t \in Tasks : WF_vars(Begin(t)) /\ WF_vars(End(t))

=============================================================================
