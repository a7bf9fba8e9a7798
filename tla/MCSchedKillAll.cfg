SPECIFICATION Spec
CONSTANTS
  c1 = c1
  c2 = c2
  c3 = c3
  a = a
  b = b
  coord = coord
  nil = nil
  Coord = {c1}
  Child = {a, b}
  CoordId = coord
  None = nil
  Waits = {"io"}
  Spinners = {}
  Drivers = {"console"}
  Timers = TRUE
  MaxSteps = 4
  MaxSent = 0
  MaxKeys = 1
INVARIANTS AbortEmpties
