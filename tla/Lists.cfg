SPECIFICATION Spec
CONSTANTS
  i1 = i1  i2 = i2   home = home  r1 = r1
  Ids = {i1, i2}
  Gone = Gone
  Tables <- AllTables
  RowsOf <- Rows
  Menu <- Filters
  Entries <- Bodies
  FocusPage = 1
  MoodPage = 1
  Requests = {r1, r2, r3}
  NoInput = NoInput
  None = None
  DayLength = 2
  Local = 0
  Session = 0
  Start = 13
  End = 14
  MaxWrites = 1
  MaxFaults = 1
INVARIANTS TypeOK
PROPERTIES ListAnswersTheQuestion MostUrgentFirst SavedIsListed
CHECK_DEADLOCK FALSE
