SPECIFICATION Locks
CONSTANTS
  s1 = s1
  s2 = s2
  s3 = s3
  s4 = s4
  Stores = {s1, s2, s3}
  MaxTries = 2
  MaxCommits = 2
SYMMETRY Symmetry
INVARIANTS
  LockInv
  OneOwner
  LockIsKept
  LedgerHasOneHolder
  LedgerSlipNeedsDisplacement
PROPERTIES
  LiveLockIsSafe
  LedgerIsRegister
\* Every process may die.
CHECK_DEADLOCK FALSE
