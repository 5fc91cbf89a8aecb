SPECIFICATION MCSpec
CONSTANTS
  Questions <- MCQuestions
  StemOf <- MCStemOf
  FunctionWords <- MCFunctionWords
  StopWords <- MCStopWords
  SynonymStems <- MCSynonymStems
  AntonymStems <- MCAntonymStems
  Idf <- MCIdf
  MaxSynonyms = 2
  MaxAntonyms = 1
INVARIANTS
  OrderTypeOK
  OneIdPerStem
  OrderMattersByFormsOnly
