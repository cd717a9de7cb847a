SPECIFICATION LiveSpec
CONSTANTS
  t1 = t1
  none = none
  NoTurn = none
  Turns <- OneTurn
  Batch = 2
  CompactAbove = 2
  MaxEvents = 2
  MaxRestores = 1
  MaxClears = 1
INVARIANTS
  EventsTypeOK
  NothingLost
  RunsTrue
PROPERTIES
  LogSpec
  EventsArrive
  RunsSettle
