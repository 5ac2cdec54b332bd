\* One room, two calls that start it, saves that fail and processes that end.
CONSTANTS
  Rooms = {r1}
  Calls = {a, b}
  None = None
  MaxRooms = 1
  MaxEvidence = 7
  MaxOutages = 2
  MaxCrashes = 2
SPECIFICATION FairSpec
INVARIANTS
  StartIsAllOrNothing
  VerdictIsDurable
PROPERTIES
  OutcomeIsFinal
  RoomsSettle
CHECK_DEADLOCK FALSE
