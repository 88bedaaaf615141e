SPECIFICATION Spec
CONSTANTS
  Days <- TwoDays
  Requests = {r1, r2}
  ShiftIds = {i1, i2, i3, i4}
  StaffIds = {s1}
  Spans = {"full_day"}
  HoursOf <- MCHours
  Batch = 2
  Faults = {"crash"}
  Meddling = {"relink", "staff_gone", "redeploy"}
  MaxRequests = 2
  Nothing = Nothing
CHECK_DEADLOCK FALSE
SYMMETRY MCSymmetry
INVARIANTS SyncedMeansTold HandleKept
