\* A guard that trips in the last words of the dead.
CONSTANTS
  Seats <- MCSeats
  RoleOf <- MCRoleOf
  None = None
  Skip = Skip
  Fail = Fail
  Setups <- MCLastWordsFail
SPECIFICATION Spec
INVARIANTS
  GameEndedIsFinal
CHECK_DEADLOCK FALSE
