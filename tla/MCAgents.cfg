SPECIFICATION MCFairSpec
CONSTANTS
  MaxTurtles = 3
  MaxRunDepth = 1
  MaxOps = 2
  MaxNest = 1
  Tells = {0, 2}
  Procs = {p, q}
  Main = main
  NoProc = noproc
INVARIANTS
  TypeOK
  AgentsFitTurtles
  DistinctTurtles
  ThrowIsolation
  RunDepthIsOwn
  NoLoneWaiter
PROPERTIES
  RoundRobin
  ImplementsForkJoin
  SchedulerReturns
  AwaitResolves
CHECK_DEADLOCK FALSE
