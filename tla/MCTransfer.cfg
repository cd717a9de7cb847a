SPECIFICATION LiveSpec
CONSTANTS
  home = home
  away = away
  Home = home
  Devices <- Both
  NumMessages = 2
  OneAtATime = TRUE
  MaxTransfers = 2
  MaxRestarts = 1
INVARIANTS
  TransferTypeOK
  HeldNotLost
  NothingOvertakes
  GenerationsGrow
  ChangesKeepOut
PROPERTIES
  WorkSpec
  MovesSettle
