SPECIFICATION Spec
CONSTANTS
  MaxRuns = 3
  MaxChunks = 3
  MaxTimers = 2
  MaxPaused = 1
  MaxDepth = 1
  MaxOps = 2
  Handlers = {"key"}
  f = f
  g = g
  Names = {f, g}
  NoName = noname
  Freed = freed
  Shapes <- KeyScripts
  ScriptOps = {"WAIT", "PAUSE", "CONTINUE"}
  HandlerOps = {}
  FinalOps = {}
INVARIANT OneThread
CHECK_DEADLOCK FALSE
