SPECIFICATION TextSpec
CONSTANTS
  CellsX = 3
  CellsY = 2
  CellSize = 2
  Sizes <- MCSizes
  Areas <- MCAreas
  Colors = {"a", "b"}
  Font = {"f"}
  MaxCmds = 2
  Dir = {"a", "b", "c"}
  MaxDirty = 1
  KernelLimit = 2
  MaxChange = 3
  Grids <- MCGrids
  Styles = {0, 1}
  Texts <- MCTexts
  MaxSets = 2
  MaxFrames = 2
  Units <- MCKeys
  MaxKeys = 2
  MaxBytes = 15
  BufCap = 16
  MaxInits = 2
  MaxAudio = 3
  MaxStarts = 2
  Model = {"base", "small"}
  Proc = {p1, p2}
  Urls <- MCUrls
  Numeric = {"127"}
  Slots = {"vendor"}
  MaxSlots = 1
  Registered <- MCRegistered
  Env = {}
  Keys = {"k"}
  MaxWrites = 2
  MaxReads = 1
  U32 = 32
  Files = {46}
  Rates = {0, 44}
  Channels = {0, 2}
  VOICE_SAMPLE_RATE = 16
  Byte = {34, 92, 10, 1, 226, 130, 240, 159, 237}
  MaxReply = 4
  MaxDelta = 2
  MAX_DEPTH = 2
INVARIANTS PictureTrue SeenChangesKept    VoiceTrue  FramesInside StreamTrue 
SYMMETRY Symmetry
CHECK_DEADLOCK FALSE
