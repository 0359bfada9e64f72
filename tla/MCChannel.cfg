SPECIFICATION FairSpec
CONSTANTS
  s1 = s1
  s2 = s2
  s3 = s3
  NoStep = NoStep
  Step <- MCStep
  Granted <- MCGranted
  MaxAsks = 3
  MaxInputs = 2
  MaxFaults = 2

INVARIANTS
  AnswersMatch
  OnlyTypedLines
  ReleasedBeforeClosed
PROPERTIES
  StepAnswered
  WorkerLeaves
  ImplementsAuthority
