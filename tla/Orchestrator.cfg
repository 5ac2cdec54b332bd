\* Whole games, by an orchestrator of either setup.
CONSTANTS
  Seats <- MCSeats
  RoleOf <- MCRoleOf
  None = None
  Skip = Skip
  Fail = Fail
  Setups <- MCSetups
SPECIFICATION FairSpec
INVARIANTS
  VerdictIsJust
  RoundsAreSettled
  ExileIsCarried
PROPERTIES
  RulesAreKept
  GameEnds
CHECK_DEADLOCK FALSE
