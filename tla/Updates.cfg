SPECIFICATION Updates
CONSTANTS
  Nil = Nil
  None = None
  r1 = r1
  r2 = r2
  Starts = {r1, r2}
  Settings <- MCSettings
  Catalogs <- MCCatalogs
  Hosts <- MCHosts
  Tasks <- MCTasks
  MaxJobs = 1
  MaxStarts = 2
  MaxChanges = 2
  MaxTroubles = 1
INVARIANTS
  Typed
  OneRunner
  LaunchSound
PROPERTIES
  EndTellsTheTruth
  EndIsShown
  LaunchIsShown
\* Starts, changes and restarts are bounded.
CHECK_DEADLOCK FALSE
