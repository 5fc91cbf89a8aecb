SPECIFICATION MCSpec
CONSTANTS
  Width <- MCWidth
  Lower <- MCLower
  Collation <- MCCollation
  IndexGlyphs <- MCIndexGlyphs
  Nesting = 6
  DepthLimit = 5
  Digits <- MCDigits
  Capitals <- CapitalGlyphs
  Letters <- MCLetters
  Abbreviations <- MCAbbreviations
  MaxSegment = 34
  IsoDates <- MCIsoDates
  SlashDates <- MCSlashDates
  Numbers <- MCNumbers
  Spelling <- MCSpelling
  NumberWords <- MCNumberWords
  Currencies <- MCCurrencies
  Kind <- MCKind
  StemOf <- MCStemOf
  StopWords <- MCStop
  FunctionWords <- MCFunction
  Contractions <- MCContractions
  Flags <- MCFlags
  TfLimit = 65536
  QuestionKeys <- MCQuestionKeys
  QuestionOpeners <- MCOpeners
  AlphaNumeric <- MCLetters
  KnownModels = {"sextant"}
  Limit <- MCLimit
  Requests <- MCSameComparison
INVARIANT SameComparisonSameAnswer
