SPECIFICATION Spec
CONSTANTS
  ann = ann
  bob = bob
  cat = cat
  NoUser = NoUser
  Users = {ann, bob}
  Amounts = {5}
  Divisions <- MoneyDivisions
  Kinds <- MoneyKinds
  InitialMembers = {ann}
  Muted = {}
  MaxRequests = 3
  MaxInFlight = 2
  MaxAborts = 1
INVARIANTS OnlyMembersRecord NewsReachesMembers DebtsAccountForLedger
