SPECIFICATION Spec
CONSTANTS
  MaxRuns = 2
  MaxChunks = 3
  MaxTimers = 1
  MaxPaused = 1
  MaxDepth = 2
  MaxOps = 3
  Handlers = {"key", "click"}
  f = f
  g = g
  Names = {f, g}
  NoName = noname
  Freed = freed
  Shapes <- FewScripts
  ScriptOps = {"WAIT", "PAUSE", "CONTINUE", "LAUNCH", "AWAIT", "ON", "OFF", "MOUSEX"}
  HandlerOps = {"PAUSE", "OFF"}
  FinalOps = {"AWAIT"}
INVARIANTS
  TypeOK
  ChunkOwnership
PROPERTIES
  ChunksLetGo
CHECK_DEADLOCK FALSE
