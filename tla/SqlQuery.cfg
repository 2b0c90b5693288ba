CONSTANTS
  kMax = 7
  Base = 4
  kIntegerBytes = 2
  kLengthBytes = 2
  Texts <- MCTexts
  Schema <- MCSchema
  Literals <- MCLiterals
  Storages <- MCStorages
  NoPlan = NoPlan
  NoOutcome = NoOutcome
  MaxNodes = 5
SPECIFICATION Spec
INVARIANTS EvaluationExact BoundTypesHold OptimizerSound BoundInsertFits RecordsCanonical
