CONSTANTS
  Names <- MCNames
  Digits <- MCDigits
  Invocations <- NotInvocations
  Engine <- EngineOutcomes
SPECIFICATION Spec
INVARIANTS PrecedenceRespected
