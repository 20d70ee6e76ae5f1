--------------------------- MODULE CriticalSection ---------------------------
(***************************************************************************)
(* The Win32 CRITICAL_SECTION behind ROG::Semaphore (Semaphore.h), as a    *)
(* value [owner, depth] and the operators that enter and leave it.         *)
(*                                                                         *)
(* A critical section is recursive and belongs to the thread that entered  *)
(* it.  LeaveCriticalSection does not compare the caller with the owner:   *)
(* it decrements the depth of whoever is inside, and a section whose depth *)
(* reaches zero is free.  Leaving a section nobody is inside is undefined: *)
(* it "may cause another thread using EnterCriticalSection to wait         *)
(* indefinitely", which is the owner Jammed here.                          *)
(***************************************************************************)
EXTENDS Naturals

CONSTANTS
  Nobody,     \* the owner of a free section
  Jammed,     \* the owner of a section that a stray leave has ruined
  MaxDepth    \* bound on the recursion depth that is counted

ASSUME SectionAssumption ==
  /\ Nobody # Jammed
  /\ MaxDepth \in Nat /\ MaxDepth >= 2

Section(T) == [owner : T \cup {Nobody, Jammed}, depth : 0 .. MaxDepth]

Free == [owner |-> Nobody, depth |-> 0]

OwnedBy(t) == [owner |-> t, depth |-> 1]

CanEnter(cs, t) == cs.owner \in {Nobody, t}

\* Entering again deepens the recursion.  The count saturates at MaxDepth, so
\* it never exceeds the depth of the program's section.
Enter(cs, t) ==
  [owner |-> t, depth |-> IF cs.depth < MaxDepth THEN cs.depth + 1 ELSE MaxDepth]

\* The sections one leave can result in.
Leave(cs) ==
  CASE cs.depth > 1 -> {[cs EXCEPT !.depth = @ - 1]}
    [] cs.depth = 1 -> {Free}
    [] OTHER        -> {cs, [owner |-> Jammed, depth |-> 0]}

=============================================================================
