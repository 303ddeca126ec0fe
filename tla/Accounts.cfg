SPECIFICATION Spec
CONSTANTS
  e1 = e1
  e2 = e2
  n1 = n1
  empty = empty
  google = google
  github = github
  NoName = NoName
  Empty = empty
  Same = Same
  Emails = {e1, e2}
  Names = {n1, empty}
  Google = {google}
  GitHub = {github}
  Plans <- SomePlans
  MaxRequests = 3
  MaxInFlight = 2
  MaxErrors = 1
INVARIANTS TypeOK EveryUserHasAWayIn ProfileAsAsked CodeResetsOnce CollidesOnlyByRace
SYMMETRY Symmetry
