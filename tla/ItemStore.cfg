SPECIFICATION Spec
CONSTANTS
  i1 = i1  i2 = i2  n1 = n1  n2 = n2  old = old  new = new
  Bucket = {i1, i2}
  Notes = {n1, n2}
  Requests = {r1, r2, r3}
  NoRequest = NoRequest
  Titles = {old, new}
  Keep = Keep
  Absent = Absent
  NoInput = NoInput
  Menu <- DeviceMenu
  InitRow <- InitRows
  MaxTime = 1
  MaxFaults = 1
SYMMETRY Devices
INVARIANTS TypeOK DoneHasItsTime PatchesMerge ListFollowsAnswers
PROPERTIES DeletedForGood ImplementsItemService
