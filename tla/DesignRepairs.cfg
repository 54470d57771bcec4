SPECIFICATION Spec
CONSTANTS
  c1 = c1
  c2 = c2
  MaxAttempts = 2
  Callers = {c1, c2}
  MaxCancels = 0
  MaxRechecks = 0
  MaxRepairs = 2
  MaxCrashes = 0
  MaxFaults = 0
  HostMayFail = FALSE
  CreateMayStall = FALSE
SYMMETRY CallerSymmetry
INVARIANT EachAttemptPromptedOnce
\* A job that has ended or waits for its user does nothing more.
CHECK_DEADLOCK FALSE
