SPECIFICATION Spec
CONSTANTS
  ann = ann
  bob = bob
  cat = cat
  NoUser = NoUser
  Users = {ann, bob, cat}
  Amounts = {0}
  Divisions = {}
  Kinds <- MembershipKinds
  InitialMembers = {}
  Muted = {bob}
  MaxRequests = 3
  MaxInFlight = 2
  MaxAborts = 1
INVARIANTS TypeOK MemberTwiceOnlyByRace HiddenFollowsToggles
