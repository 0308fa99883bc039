SPECIFICATION Spec
CONSTANTS
  MaxRuns = 4
  MaxChunks = 4
  MaxTimers = 2
  MaxPaused = 3
  MaxDepth = 3
  MaxOps = 3
  Handlers = {"key"}
  f = f
  g = g
  Names = {f, g}
  NoName = noname
  Freed = freed
  Shapes <- KeyScripts
  ScriptOps = {"WAIT", "ANIMATE", "WAITKEY", "INPUT", "PAUSE", "CONTINUE", "AWAIT", "ON"}
  HandlerOps = {"WAIT", "WAITKEY", "PAUSE", "CONTINUE"}
  FinalOps = {"CONTINUE"}
INVARIANTS
  NoRunLost
  OneThread
  WakeupsServeSlot
  LevelsAreStrict
  DepthIsInnermost
  NothingAfterDestroy
CHECK_DEADLOCK FALSE
