SPECIFICATION PagesSpec
CONSTANTS
  None = None
  NoScope = NoScope
  k1 = k1
  k2 = k2
  Checks = {k1, k2}
  Scopes <- MCScopes
  PlanDrafts = {"d1", "d2", "invalid"}
  ChunkSize = 1
  MaxConcurrent = 2
  Snapshots = {1, 2}
  PlanSteps = 3
  w1 = w1
  w2 = w2
  Windows = {w1, w2}
  RoleIds = {"p", "u"}
  Templates = {"p"}
  MaxTasks = 3
  MaxFailures = 1
  PageHosts = {"h1", "h2"}
  Texts = {"a", "b"}
  RuleOff = {"b"}
  Limit = 1
  MaxPresses = 2
  MaxMoves = 3
  MaxLosses = 1
  DesignCatalogs <- MCCatalogs
  DesignHosts <- MCHosts
  Proposals <- MCProposals
  RoleEdits <- MCRoleEdits
  MaxChanges = 2
  p1 = p1
  p2 = p2
  Pages = {p1, p2}
  Edits = {"edit", "refer", "dropRole", "dropTeam"}
  LateWrites = {"addRole", "addTeam"}
  MaxSteps = 2
  MaxConflicts = 2
  MaxLeaseTries = 2
  MaxRuns = 3
  MaxEdits = 1
  MaxCancels = 1
  MaxFaults = 2
  MaxTroubles = 2
  MaxTroublesTogether = 1
SYMMETRY PageSymmetry
INVARIANTS
  Typed
  RowsOnce
  SavedIsWhole
  CheckSound
  PlanPageSound
  DesignStartSound
  CatalogSound
  DesignSound
  TeamsAgree
PROPERTY
  EditedKept
\* When all runs are over and the bounds are spent nothing happens.
CHECK_DEADLOCK FALSE
