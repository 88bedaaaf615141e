SPECIFICATION Spec
CONSTANTS
  a = a
  b = b
  small = small
  large = large
  Slots <- TwoSlots
  Capacity <- Generated
  Legacy <- OneLegacy
  Paper <- PaperSheet
  Desks = {d1, d2}
  Import = import
  Editors = {e1, e2}
  Plans <- TwoPlans
  Seats <- PlanSeats
  NewPlan = large
  NewQuantity = 1
  Quantities = {1, 2}
  ListLimit = 3
  NoSlot = NoSlot
  MaxEvents = 3
CHECK_DEADLOCK FALSE
INVARIANTS NotOversold BookedOnce SeatsFit
PROPERTIES NobodyOnAShutTime EveryGroupIsTold
