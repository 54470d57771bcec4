SPECIFICATION Spec
CONSTANTS
  c1 = c1
  c2 = c2
  MaxAttempts = 2
  Callers = {c1}
  MaxCancels = 0
  MaxRechecks = 0
  MaxRepairs = 1
  MaxCrashes = 0
  MaxFaults = 1
  HostMayFail = TRUE
  CreateMayStall = TRUE
INVARIANT AckedMeansReceived
\* A job that has ended or waits for its user does nothing more.
CHECK_DEADLOCK FALSE
