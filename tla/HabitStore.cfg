SPECIFICATION Spec
CONSTANTS
  h1 = h1  h2 = h2  d1 = d1  d2 = d2  read = read
  Habits = {h1, h2}
  Names = {read}
  NoName = NoName
  Days = {d1, d2}
  Requests = {r1, r2, r3}
  Seeder = Seeder
  Menu <- ToggleAndRenew
  NoInput = NoInput
  InitName <- OneHabit
  InitDays <- OneDay
  MaxFaults = 1
INVARIANTS TypeOK OneLogADay LogsHaveHabits
PROPERTIES ImplementsHabitService EveryRequestEnds
