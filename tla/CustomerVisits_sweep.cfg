SPECIFICATION VisitsSpec
CONSTANTS
  x = x
  y = y
  Customers = {x, y}
  NoCustomer = NoCustomer
  Times <- FourTimes
  Now = 3
  FirstBooked <- OldTimes
  FirstCheckins <- ThreeSeated
  SeatNos <- TwoSeats
  PageSize = 2
  MaxRows = 4
  OwnCap = 3
  GuestCap = 1
  Rung = 2
  Sweeps = {w1}
  NoRow = NoRow
  MaxRuns = 1
  MaxEvents = 3
CHECK_DEADLOCK FALSE
PROPERTIES PagesMeet SweepIsExact RunsEnd
