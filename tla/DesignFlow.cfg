SPECIFICATION Spec
CONSTANTS
  c1 = c1
  c2 = c2
  MaxAttempts = 2
  Callers = {c1}
  MaxCancels = 1
  MaxRechecks = 0
  MaxRepairs = 1
  MaxCrashes = 0
  MaxFaults = 0
  HostMayFail = FALSE
  CreateMayStall = FALSE
INVARIANTS
  TypeInv
  EachAttemptPromptedOnce
  ReadyIsLatest
  NoOrphanAgent
PROPERTIES
  EndedIsQuiet
  LateTurnEndsNothing
\* A job that has ended or waits for its user does nothing more.
CHECK_DEADLOCK FALSE
