SPECIFICATION Spec
CONSTANTS
  c1 = c1
  c2 = c2
  c3 = c3
  a = a
  b = b
  coord = coord
  nil = nil
  Coord = {c1, c2}
  Child = {a, b}
  CoordId = coord
  None = nil
  Waits = {"recv", "io", "proc", "block"}
  Spinners = {}
  Drivers = {"run", "console", "tui"}
  Timers = TRUE
  MaxSteps = 3
  MaxSent = 1
  MaxKeys = 2
SYMMETRY Children
INVARIANTS TypeOK RegistryAgrees StopsOnce SleepsRightly
PROPERTIES ResumesRight
