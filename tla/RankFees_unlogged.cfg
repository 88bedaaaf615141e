CONSTANTS
  Caddies = {1}
  Ranks = {1, 2}
  MaxFee = 2
  Sheets = {s1, s2}
  Savers = {d1}
  NoTable = NoTable
  Config <- MCConfig
  FirstProfile <- MCProfile
  Offered <- MCOffered
  MaxEdits = 1
  MaxSaves = 1
  MaxAsks = 2
SPECIFICATION Spec
INVARIANT PayChangeIsRecorded
CHECK_DEADLOCK FALSE
