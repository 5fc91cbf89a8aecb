SPECIFICATION MCSpec
CONSTANTS
  Significands = 256
  One = 1024
  Exp <- MCExp
  Logistic <- MCLogistic
  MinTemperature = 1
  DefaultEpsilon = 20
  Examples <- MCExamples
  MinGroup = 2
  Temperatures <- MCTemperatures
  Lambdas <- MCLambdas
  Gammas <- MCGammas
  PlattFits <- MCPlatt
  MinPlatt = 1
  Questions <- MCQuestions
INVARIANTS
  CalibrateTypeOK
  
  NothingRuledOut
  WinnerHasTopLogit
  
