SPECIFICATION FairSpec
CONSTANTS
  w1 = w1
  w2 = w2
  Source <- TwoSources
  System = 1
  Privileged <- SecondOnly
  StagedAs = "Normal"
  Worker <- MCWorker
  HistoryKept = 1
  MaxJobs = 1
  MaxSteps = 1
  MaxBoots = 1
  MaxFaults = 1
  MaxCrashes = 1
PROPERTIES
  JobEnds
