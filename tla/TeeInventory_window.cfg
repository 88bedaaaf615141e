SPECIFICATION InventoryFairSpec
CONSTANTS
  c1 = c1
  d1 = d1
  d2 = d2
  NoCourse = NoCourse
  Courses = {c1}
  Readers = {d1, d2}
  Busy = {d1}
  Horizons <- HorizonSet
  FirstHorizon <- OneDayAhead
  Ranges <- ByHand
  MaxSpan = 4
  FieldMax = 2
  MaxDay = 2
  MaxOffice = 1
  MaxStrays = 1
CHECK_DEADLOCK FALSE
INVARIANTS WatermarkIsBuilt SavedWeekStands 
PROPERTIES WindowIsFilled
