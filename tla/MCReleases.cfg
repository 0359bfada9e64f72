SPECIFICATION Spec
CONSTANTS
  a = a
  b = b
  core = core
  extra = extra
  program = program
  asset = asset
  added = added
  tool = tool
  config = config
  stray = stray
  User <- MCUser
  Component <- MCComponent
  Path <- MCPath
  Config = {config}
  Outside = {stray}
  Tag = {1, 2, 3}
  Ships <- MCShips
  Links <- MCLinks
  Marker <- MCMarker
  Program = program
  Says <- MCSays
  MaxHands = 2
  MaxFaults = 2
SYMMETRY Users
INVARIANTS
  RecordTellsTruth
  NoOrphans
  InterruptedIsOffered
PROPERTIES
  NothingTakenBack
  ConfigurationStays
