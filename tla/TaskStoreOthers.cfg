SPECIFICATION Spec
CONSTANTS
  u = u  v = v  t1 = t1  t2 = t2  t3 = t3  t4 = t4  g1 = g1  g2 = g2  g3 = g3  g4 = g4
  Users = {u, v}
  NoUser = NoUser
  NoRow = NoRow
  NoInput = NoInput
  TaskIds = {t1}
  TagIds = {g1, g2, g3}
  Requests = {r1}
  MaxFaults = 0
  Menu <- OthersMenu
  InitOwner <- OneTask
  InitLinks <- OneLink
  InitUsed <- OneTaskUsed
PROPERTIES OwnTasksOnly
