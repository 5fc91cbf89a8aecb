SPECIFICATION MCSpec
CONSTANTS
  NegationLength = 6
  ModalityLength = 4
  Texts <- MCTexts
  Words <- MCWords
  Values = {"5"}
  ClauseMarks = {",", "?"}
  Marks = {"-"}
  MetaImperatives = {"ignore", "answer"}
  MetaNouns = {}
  FunctionWords <- MCFunctionWords
  Terminators = {"but", "except", "instead"}
  HardCues <- MCHardCues
  Negators = {"not", "no", "fail"}
  NegatorBigrams <- MCNegatorBigrams
  NonNegating <- MCNonNegating
  Exceptions = {"except"}
  Requests = {"want"}
  RequestBigrams <- MCRequestBigrams
  InquiryBigrams <- MCInquiryBigrams
  Hypotheticals = {"if"}
  Intensifiers = {"very"}
  Diminishers = {"slightly"}
  QuestionOpeners = {"may"}
  NegWindow = 2
  HypWindow = 2
  ReqWindow = 2
  ExcWindow = 1
  DegreeWindow = 2
INVARIANTS
  ScopeTypeOK
  ScopesJustified
  NegationParity
  RequestsEndHypotheses
