SPECIFICATION Spec
CONSTANTS
  Sources = {"compute"}
  Outa = {FALSE}
  Balanced = FALSE
  Capacity = 1
  MaxPost = 0
  MaxOut = 0
  MaxPause = 1
  MaxResume = 1
  MaxSignal = 0
INVARIANT
  JoinNeverDeadlocksOnPause
CHECK_DEADLOCK FALSE
