SPECIFICATION Spec
CHECK_DEADLOCK FALSE
CONSTANTS
  MaxHoisted = 50
  MaxEagerLoads = 16
  MaxEagerDepth = 8
  MaxParams = 8
  MaxTokens = 999
  MaxSnippetTokens = 128
  MaxIterations = 5
  MaxInstructions = 900
  MaxPatches = 256
  MaxChunkProcs = 50
  MaxLiteralTokens = 10
  MaxBlockStatements = 1024
  MaxWordLiterals = 3
  MaxListLiterals = 2
  MaxLiteralText = 36
  MaxNestedText = 18
  MaxTemplateText = 28
  MaxEdits = 3
  Pieces <- MCPieces
  Wrappers <- MCWrappers
INVARIANTS
  JumpsLand
  HeightsAgree
  LiteralsSurvive
  RoundTrips
