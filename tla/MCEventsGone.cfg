SPECIFICATION Spec
CONSTANTS
  t1 = t1
  none = none
  NoTurn = none
  Turns <- OneTurn
  Batch = 2
  CompactAbove = 2
  MaxEvents = 2
  MaxRestores = 1
  MaxClears = 0
INVARIANTS
  GoneIsGone
