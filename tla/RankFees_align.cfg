CONSTANTS
  Caddies = {1, 2}
  Ranks = {1, 2}
  MaxFee = 2
  Sheets = {s1}
  Savers = {d1, d2}
  NoTable = NoTable
  Config <- MCConfig
  FirstProfile <- MCProfile
  Offered <- MCOffered
  MaxEdits = 1
  MaxSaves = 2
  MaxAsks = 1
SPECIFICATION Spec
CHECK_DEADLOCK FALSE
INVARIANTS ListedMovesHappened AgreedMovesOnly
PROPERTIES EveryoneIsAnswered
