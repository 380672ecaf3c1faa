SPECIFICATION TextSpec
CONSTANTS
  Vocabulary <- MCVocabulary
  EosToken <- MCEos
  Delimiter <- MCDelimiter
  MaxIds = 5
INVARIANTS SentIsPrefix FinishedIsComplete SplitIsExact
CHECK_DEADLOCK FALSE
