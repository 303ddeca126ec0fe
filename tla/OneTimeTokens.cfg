SPECIFICATION Spec
CONSTANTS
  ann = ann
  bob = bob
  NoUser = NoUser
  Users = {ann, bob}
  Life = 1
  Kinds <- EveryKind
  MaxTime = 2
  MaxRequests = 3
  MaxInFlight = 3
  MaxErrors = 1
INVARIANTS TypeOK OneOpenTicketUnlessRaced RefusedForACause
PROPERTY ImplementsTicket
SYMMETRY Symmetry
