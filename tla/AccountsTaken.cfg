SPECIFICATION Spec
CONSTANTS
  ada = ada  p1 = p1  p2 = p2
  Requests = {r1, r2, r3, r4}
  Names = {ada}
  Passwords = {p1, p2}
  Menu <- OneName
  NoInput = NoInput
  NoUser = NoUser
  NoToken = NoToken
  Second = 2
  TTL = 1
  MaxClock = 4
  MaxFaults = 1
SYMMETRY Symmetric
INVARIANTS TakenMeansTaken
CHECK_DEADLOCK FALSE
