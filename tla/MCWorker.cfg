SPECIFICATION Spec
CONSTANTS
  Sources = {"compute", "server", "loop", "spin", "guarded"}
  Outa = {TRUE, FALSE}
  Balanced = TRUE
  Capacity = 1
  MaxPost = 1
  MaxOut = 2
  MaxPause = 2
  MaxResume = 1
  MaxSignal = 1
INVARIANTS
  TypeOK
  CloseInOrder
  NothingLost
  NoStrandedPark
