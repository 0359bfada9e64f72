SPECIFICATION Spec
CONSTANTS
  w1 = w1
  w2 = w2
  Source <- OneSource
  System = 1
  Privileged <- FirstOnly
  StagedAs = "Normal"
  Worker <- MCWorker
  HistoryKept = 1
  MaxJobs = 1
  MaxSteps = 1
  MaxBoots = 1
  MaxFaults = 0
  MaxCrashes = 1
SYMMETRY Symmetry
PROPERTIES
  NoStartAfterLoss
