CONSTANTS
  Nobody = Nobody
  Jammed = Jammed
  MaxDepth = 2
SPECIFICATION Spec
INVARIANTS TypeOK AnswerIsFinal PeerDestroyedOnce PlayedUnregisters WorkersAreSignalled
PROPERTIES StartIsAnswered KillEnds
CHECK_DEADLOCK FALSE
