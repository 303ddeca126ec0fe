SPECIFICATION Spec
CONSTANTS
  w1 = w1
  w2 = w2
  food = food
  pay = pay
  NoRef = NoRef
  Wallets = {w1, w2}
  Categories = {food, pay}
  Amounts = {2}
  GroupModes = {"none"}
  Kinds <- RemoveKinds
  InitialWallets = {w1, w2}
  InitialTypes <- BothTypes
  MaxRequests = 2
  MaxInFlight = 1
  MaxAborts = 0
PROPERTY RemoveRevertsBalance
