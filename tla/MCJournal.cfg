SPECIFICATION Spec
CONSTANTS
  p1 = p1
  Proc = {p1}
  Agent = {a}
  None = null
  Cap = 2
  Batch = 2
  MaxRow = 3
  MaxStarts = 2
  MaxFaults = 1
 
PROPERTIES Durable EntriesReturn
CHECK_DEADLOCK FALSE
