SPECIFICATION Spec
CONSTANTS
  w1 = w1
  w2 = w2
  food = food
  pay = pay
  NoRef = NoRef
  Wallets = {w1, w2}
  Categories = {food, pay}
  Amounts = {2}
  GroupModes = {"none"}
  Kinds <- RowKinds
  InitialWallets = {w1, w2}
  InitialTypes <- BothTypes
  MaxRequests = 3
  MaxInFlight = 2
  MaxAborts = 1
INVARIANTS TypeOK BooksBalance
PROPERTY ReviveOnlyByBystander
