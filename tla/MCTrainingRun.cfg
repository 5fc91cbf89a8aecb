CONSTANTS
  Normal <- MCNormal
  Short <- MCShort
  Similar <- MCSimilar
  NearOneIn = 1
  DataSets <- MCDataSets
  Missing = Missing
  Torn = Torn
  Bootstrap = Bootstrap
  Default = Default
SPECIFICATION Spec
INVARIANTS
  TrainingTypeOK
  PassMeansClean
  NoExactTrained
  RunYieldsArtifact
