SPECIFICATION Spec
CONSTANTS
  MaxRuns = 2
  MaxChunks = 2
  MaxTimers = 1
  MaxPaused = 1
  MaxDepth = 1
  MaxOps = 2
  Handlers = {"key"}
  f = f
  g = g
  Names = {f, g}
  NoName = noname
  Freed = freed
  Shapes <- KeyScripts
  ScriptOps = {"ON"}
  HandlerOps = {"OFF", "WAIT"}
  FinalOps = {}
INVARIANT NoFreedChunkRuns
CHECK_DEADLOCK FALSE
