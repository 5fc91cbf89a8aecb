SPECIFICATION MCSpec
CONSTANTS
  Calls = {c1, c2}
  Workers = {w1}
  Requests <- MCRequests
  StemOf <- MCStemOf
  FunctionWords = {}
  StopWords = {}
  SynonymStems <- MCNoStems
  AntonymStems <- MCNoStems
  Idf <- MCIdf
  MaxSynonyms = 2
  MaxAntonyms = 1
  Bodies <- MCBodies
  MaxBody = 4
  ExtractorLimit = 2
  BlockingThreads = 1
INVARIANTS
  
  WorkUnderJob
  GracefulExit

  
  
