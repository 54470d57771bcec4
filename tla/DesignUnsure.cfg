SPECIFICATION Spec
CONSTANTS
  c1 = c1
  c2 = c2
  MaxAttempts = 2
  Callers = {c1}
  MaxCancels = 0
  MaxRechecks = 0
  MaxRepairs = 0
  MaxCrashes = 0
  MaxFaults = 0
  HostMayFail = FALSE
  CreateMayStall = TRUE
PROPERTY Settles
\* A job that has ended or waits for its user does nothing more.
CHECK_DEADLOCK FALSE
