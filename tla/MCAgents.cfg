SPECIFICATION AgentsSpec
CONSTANTS
  Message = {m1, m2}
  Empty = Empty
  Capacity = 2
  CounterMod = 4
  MaxPut = 5
  Worker = {w1}
  PendMax = 1
  MaxRef = 2
  MaxSub = 2
  MaxPub = 1
  MaxMain = 1
  MaxCmd = 2
  MaxDepth = 2
  Root = root
  Kid = {1, 2}
  None = null
  Cap = 3
  Slots = {0, 2}
  MaxAttempts = 2
  Discipline = TRUE
  MaxSends = 1
  MaxKills = 1
  MaxTurns = 2
INVARIANTS SlotsApart  FanoutTrue
PROPERTIES ImplementsFifo WaitsEnd
CHECK_DEADLOCK FALSE
