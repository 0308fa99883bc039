SPECIFICATION Spec
CONSTANTS
  MaxHoisted = 50
  MaxEagerLoads = 16
  MaxEagerDepth = 8
  MaxParams = 8
  MaxTokens = 999
  MaxSnippetTokens = 128
  MaxIterations = 5
  MaxInstructions = 900
  MaxPatches = 256
  MaxChunkProcs = 50
  MaxLiteralTokens = 512
  MaxBlockStatements = 1024
  MaxWordLiterals = 2048
  MaxListLiterals = 2048
  MaxLiteralText = 2048
  MaxNestedText = 512
  MaxTemplateText = 1024
  MaxVariables = 100
  MaxLocals = 8
  MaxPlistEntries = 200
  MaxPrototypeChain = 20
  MaxRunDepth = 3
  MaxScopeDepth = 4
  MaxVmStack = 64
  MaxVmScopes = 4
  MaxVmFrames = 6
  Files <- MCFiles
  Translate <- Translation
  TemplateBuiltin <- TemplateBuiltinOf
  LiteralFromText <- LiteralRead
  ListBuiltin <- ListOperation
  ValueText <- PrintedText
  IsNumeral <- ReadsAsNumber
  NumeralValue <- NumberRead
  Scripts <- MCScripts
INVARIANTS
  TypeOK
  AgreesWithEval
  CallsAreNested
  StatementsBalance
  RunDepthMatches
  PlaceholdersScoped
  EndsClean
PROPERTIES
  CallerStackUntouched
  ScriptEnds
