SPECIFICATION Spec
CONSTANTS
  w1 = w1
  w2 = w2
  Source <- OneSource
  System = 1
  Privileged <- FirstOnly
  StagedAs = "Dnf5Offline"
  Worker <- MCWorker
  HistoryKept = 1
  MaxJobs = 2
  MaxSteps = 2
  MaxBoots = 2
  MaxFaults = 0
  MaxCrashes = 1
SYMMETRY Symmetry
INVARIANTS
  CancelHonoured
  HistoryWellFormed
  RootExclusion
  EvidenceOnDisk
PROPERTIES
  RestartRemembered
  StepsAsideClean
  StartedOnce
  ImplementsJob
