SPECIFICATION TracedSpec
CONSTANTS
  MaxNodes = 5
  MaxOps = 4
  Vars = {a, b}
  a = a
  b = b
  Atoms = {"p"}
  Literals <- SomeLiterals
  Sizes = {0, 2}
INVARIANTS ListsAcyclic ResultsAgree ValuesKept
CHECK_DEADLOCK FALSE
