----------------------------- MODULE MCThreadPool -----------------------------
(***************************************************************************)
(* ThreadPool for TLC.  The .cfg files name the threads and the tasks: w   *)
(* workers of the constructor, x workers that execute may add, c clients.  *)
(***************************************************************************)
EXTENDS ThreadPool, TLC

\* Tasks, added workers, constructor's workers and clients are interchangeable.
\* Used where only safety is checked.
Symmetric ==
  Permutations(Tasks) \cup Permutations(ExtraWorkers)
    \cup Permutations(CoreWorkers) \cup Permutations(Clients)

=============================================================================
