SPECIFICATION FairSpec
CONSTANTS
  MaxRuns = 3
  MaxChunks = 4
  MaxTimers = 2
  MaxPaused = 2
  MaxDepth = 2
  MaxOps = 2
  Handlers = {"key"}
  f = f
  g = g
  Names = {f, g}
  NoName = noname
  Freed = freed
  Shapes <- KeyScripts
  ScriptOps = {"WAIT", "ANIMATE", "PAUSE", "CONTINUE", "ON"}
  HandlerOps = {"WAIT", "PAUSE"}
  FinalOps = {"CONTINUE"}
PROPERTIES
  CallbacksReturn
  WaitEnds
  ContinueResumes
CHECK_DEADLOCK FALSE
