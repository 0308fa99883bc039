SPECIFICATION Spec
CONSTANTS
  MaxRuns = 3
  MaxChunks = 5
  MaxTimers = 1
  MaxPaused = 1
  MaxDepth = 2
  MaxOps = 4
  Handlers = {"key", "click"}
  f = f
  g = g
  Names = {f, g}
  NoName = noname
  Freed = freed
  Shapes <- SteadyScripts
  ScriptOps = {"ON", "OFF", "WAIT", "CONTINUE"}
  HandlerOps = {"OFF", "WAIT", "PAUSE"}
  FinalOps = {"CONTINUE"}
INVARIANTS
  HandlersRetained
  HandlerArity
CHECK_DEADLOCK FALSE
