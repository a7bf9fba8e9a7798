SPECIFICATION Spec
CONSTANTS
  MaxRounds = 2
  Bare = FALSE
  MaxTool = 2
  MaxText = 3
  MaxCancel = 1
  MaxKill = 2
  Req = {q1, q2}
  MaxCtx = 2
  MaxBytes = 2
  Transports = {"stdio", "http"}
  MaxCalls = 1
  MaxPending = 1
  Agents = {a1, a2}
  MaxCorr = 3
  MaxConn = 2
  MaxCrash = 1
  Slots = 1
  Conn = {c1, c2}
  MaxConns = 1
  MaxChunks = 2
  MaxFrames = 1
  MaxOut = 3
  MaxIn = 3
  PtyRoom = 2
  PtyDrain = 1
INVARIANTS TurnTrue BytesKept McpTrue StationTrue ServeTrue KillsOwn
PROPERTIES WordsKept AnswersKept EverythingEnds
CHECK_DEADLOCK FALSE
