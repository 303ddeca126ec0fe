SPECIFICATION ReportSpec
CONSTANTS
  ann = ann
  bob = bob
  cat = cat
  NoUser = NoUser
  Users = {ann, bob, cat}
  Amounts = {10}
  Divisions <- WholeDivisions
  Kinds <- ExpenseKinds
  InitialMembers = {ann, bob, cat}
  Muted = {}
  Early = {}
  MaxRequests = 2
  MaxInFlight = 1
  MaxAborts = 0
INVARIANT DebtsMatchBalances
SYMMETRY Symmetry
