SPECIFICATION Spec
CONSTANTS
  Days <- TwoDays
  Requests = {r1}
  ShiftIds = {i1, i2, i3, i4}
  StaffIds = {s1}
  Spans = {"full_day"}
  HoursOf <- MCHours
  Batch = 1
  Faults = {"lost", "unreachable", "refused"}
  Meddling = {"delete"}
  MaxRequests = 2
  Nothing = Nothing
CHECK_DEADLOCK FALSE
PROPERTIES PinnedSurvives RequestEnds QueueDrains
