SPECIFICATION Engine
CONSTANTS
  a1 = a1
  a2 = a2
  a3 = a3
  a4 = a4
  Nobody = Nobody
  NT = 2
  Plans <- MCPlans
  Agents = {a1, a2, a3, a4}
  MaxAssignments = 5
  MaxTurns = 5
INVARIANTS
  TypeOK
  SingleWriter
  DoneIsReviewed
  CountersMatchHistory
  SlotsBounded
  CancelledIsQuiet
  PlanningSound
PROPERTY
  TerminalIsFinal
\* A run may stop for good: paused, out of agents, or over.
CHECK_DEADLOCK FALSE
