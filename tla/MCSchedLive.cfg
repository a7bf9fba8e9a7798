SPECIFICATION FairSpec
CONSTANTS
  c1 = c1
  c2 = c2
  c3 = c3
  a = a
  b = b
  coord = coord
  nil = nil
  Coord = {c1}
  Child = {a, b}
  CoordId = coord
  None = nil
  Waits = {"recv", "io", "proc", "plain"}
  Spinners = {b}
  Drivers = {"run", "tui"}
  Timers = TRUE
  MaxSteps = 4
  MaxSent = 1
  MaxKeys = 0
PROPERTIES RunReturns WaitsEnd
