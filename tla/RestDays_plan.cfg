SPECIFICATION Spec
CONSTANTS
  RosterSize = 2
  Assignable = {1, 2}
  HasCourse = {1, 2}
  Days <- Boundary
  Months = {1, 2}
  FirstOf <- BoundaryFirst
  LastOf <- BoundaryLast
  Statute = 3
  MaxRun = 2
  MinRest = 2
  Avoided = {2, 3}
  UnfiledOff = FALSE
  MaxChanges = 2
INVARIANTS OnlyPinsOverwork OverworkedReported RestPromiseKept
PROPERTIES RunEnds
