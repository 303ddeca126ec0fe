SPECIFICATION Spec
CONSTANTS
  ann = ann
  bob = bob
  web = web
  mobile = mobile
  NoUser = NoUser
  Users = {ann, bob}
  Endpoints = {web}
  Tokens = {mobile}
  Switches = {"group", "daily", "push"}
  Kinds <- EveryKind
  MaxRequests = 3
  MaxInFlight = 2
  MaxErrors = 1
INVARIANTS TypeOK SettingsAsAsked AddressesAsAsked NoNewsWhileOff NewsReachesEveryone DeletedStaysDeleted
SYMMETRY Symmetry
