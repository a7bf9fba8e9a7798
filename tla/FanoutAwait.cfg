SPECIFICATION Spec
CONSTANTS
  Root = root
  Kid = {1, 2}
  None = none
  Cap = 3
  Slots = {0, 2}
  MaxAttempts = 2
  Discipline = FALSE
  MaxSends = 0
  MaxKills = 0
  MaxTurns = 1
PROPERTY WaitEnds
CHECK_DEADLOCK FALSE
