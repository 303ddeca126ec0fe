SPECIFICATION Spec
CONSTANTS
  w1 = w1
  w2 = w2
  food = food
  pay = pay
  NoRef = NoRef
  Wallets = {w1, w2}
  Categories = {food, pay}
  Amounts <- EitherSign
  GroupModes = {"none", "bare", "split"}
  Kinds <- AllKinds
  InitialWallets = {w1}
  InitialTypes <- OneType
  MaxRequests = 3
  MaxInFlight = 1
  MaxAborts = 1
INVARIANTS BooksBalance FailedRequestsAreSilent SignFollowsCategory
