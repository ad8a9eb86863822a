CONSTANTS
  Symbols <- MCSymbols
  Types <- MCTypes
  NoType = NoType
  Declared <- MCDeclared
  DeclaredOrder <- MCDeclaredOrder
  MinSupport = 1
  MinConfidence = 500
  MaxPatterns = 2
  MaxPatternLength = 2
  MaxCorpusSequences = 1
  Configs <- MCConfigs
  HeadInputs <- MCHeadInputs
  HistoryCap = 2
  Lookback = 3
  SequenceLength = 1
  MaxBufferSize = 5
  NoFlight = NoFlight
  MaxWindows = 4
  MaxMacros = 3
  MaxPredictions = 2
SPECIFICATION Spec
INVARIANTS
  TypeOK
  VerifierPassesWholeTraces
  UnterminatedAreLive
  AttributedToItsOrigin
  EndingsHaveTheirBeginning
PROPERTY VerdictIsJustified
CHECK_DEADLOCK FALSE
