SPECIFICATION Spec
CONSTANTS
  w1 = w1
  w2 = w2
  Source <- OneSource
  System = 1
  Privileged <- NoSource
  StagedAs = "Normal"
  Worker <- MCWorker
  HistoryKept = 1
  MaxJobs = 2
  MaxSteps = 1
  MaxBoots = 1
  MaxFaults = 0
  MaxCrashes = 0
SYMMETRY Symmetry
PROPERTIES
  ToolBlocksPower
