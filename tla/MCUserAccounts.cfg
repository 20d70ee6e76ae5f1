SPECIFICATION Spec
CONSTANTS
  Names = {n1}
  Sessions = {s1}
  Requests = {k1, k2, k3}
  MaxAccounts = 2
  MaxCodes = 3
  NoAccount = NoAccount
SYMMETRY Symmetric
INVARIANTS
  TypeOK
  CodeUsedOnce
  ActiveWasConfirmed
  ConfirmationHonoured
  InactiveHasCode
CHECK_DEADLOCK FALSE
