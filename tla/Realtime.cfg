SPECIFICATION Spec
CONSTANTS
  home = home
  trip = trip
  s1 = s1
  NoGroup = NoGroup
  Groups = {home, trip}
  Sockets = {s1}
  MaxRequests = 3
  MaxErrors = 1
INVARIANTS TypeOK EventsAreTrue NothingMissed
SYMMETRY Symmetry
