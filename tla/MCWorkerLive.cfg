SPECIFICATION FairSpec
CONSTANTS
  Sources = {"compute", "server", "loop", "spin"}
  Outa = {TRUE}
  Balanced = TRUE
  Capacity = 1
  MaxPost = 1
  MaxOut = 1
  MaxPause = 1
  MaxResume = 0
  MaxSignal = 1
PROPERTIES
  WindDownEnds
  DeliveriesArrive
