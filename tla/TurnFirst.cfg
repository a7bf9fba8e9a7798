SPECIFICATION Spec
CONSTANTS
  MaxRounds = 2
  Bare = FALSE
  MaxTool = 2
  MaxText = 3
  MaxCancel = 1
  MaxCrash = 2
INVARIANT ResultsSurvive
CHECK_DEADLOCK FALSE
