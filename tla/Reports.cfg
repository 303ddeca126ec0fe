SPECIFICATION ReportSpec
CONSTANTS
  ann = ann
  bob = bob
  cat = cat
  NoUser = NoUser
  Users = {ann, bob}
  Amounts <- BothSigns
  Divisions <- MixedDivisions
  Kinds <- JoinAndRecord
  InitialMembers = {ann}
  Muted = {}
  Early = {2}
  MaxRequests = 2
  MaxInFlight = 2
  MaxAborts = 0
INVARIANTS ReportIsComplete ReportAgreesWithDebts
