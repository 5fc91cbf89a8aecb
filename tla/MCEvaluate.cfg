SPECIFICATION MCSpec
CONSTANTS
  Calls = {c1, c2}
  Workers = {w1, w2}
  Requests <- MCRequests
  StemOf <- MCStemOf
  FunctionWords <- MCFunctionWords
  StopWords <- MCStopWords
  SynonymStems <- MCSynonymStems
  AntonymStems <- MCAntonymStems
  Idf <- MCIdf
  MaxSynonyms = 2
  MaxAntonyms = 1
INVARIANTS
  EvalTypeOK
  QuestionsPartitioned
  AnswersIndependent
PROPERTIES
  ImplementsEngineSpec
