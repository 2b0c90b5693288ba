CONSTANTS
  Names <- MCNames
  Digits <- MCDigits
  Invocations <- MCInvocations
  Engine <- EngineOutcomes
SPECIFICATION Spec
INVARIANTS SplitAsLexed ExitTellsFailure AcceptsExpressions StatementsSpelled GroupedByPrecedence
PROPERTIES InputIsRun ProgramEnds
