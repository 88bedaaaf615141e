SPECIFICATION Spec
CONSTANTS
  Bookings = {1, 2}
  Payer <- PayerOf
  Rates = {1, 2}
  Desks = {1, 2}
  Tab <- OneTab
  SourceCap = 2
  NoBill = NoBill
  Cancelled = {1}
  MaxOpens = 2
CHECK_DEADLOCK FALSE
INVARIANTS InvoicedPointsAtInvoice
PROPERTIES ImplementsLedger SubmissionEnds
