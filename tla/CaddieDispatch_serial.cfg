SPECIFICATION Spec
CONSTANTS
  c1 = c1
  c2 = c2
  Nobody = Nobody
  Requests = {1}
  Screens = {1}
  GroupCount = 3
  StartOf <- ThreeStarts
  Length = 3
  RoundLength <- ThreeLengths
  NeedsCaddie = {1, 2, 3}
  Caddies = {c1, c2}
  Assignable = {c1, c2}
  ConfirmedOff = {}
  OnShift <- ShiftOf
  StandsOn <- CourseOf
  MaxRounds <- LimitOf
  Windows <- Jobs
  MaxRequests = 4
CHECK_DEADLOCK FALSE
INVARIANTS OneCaddiePerGroup NobodyInTwoPlaces
PROPERTIES PlanKeepsLimit CancelReleases DetailKept
