SPECIFICATION Spec
CONSTANTS
  p1 = p1
  p2 = p2
  Pages = {p1, p2}
  Edits = {}
  LateWrites = {}
  MaxSteps = 3
  MaxConflicts = 2
  MaxLeaseTries = 2
  MaxRuns = 2
  MaxEdits = 0
  MaxCancels = 0
  MaxFaults = 0
  MaxTroubles = 0
  MaxTroublesTogether = 0
SYMMETRY PageSymmetry
PROPERTY
  OneSaveLease
\* When all runs are over and the bounds are spent nothing happens.
CHECK_DEADLOCK FALSE
