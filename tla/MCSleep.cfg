SPECIFICATION Spec
CONSTANTS
  Pid = {4, 5, 6}
  Shell = 2
  Compositor = 3
  Name = {"lxb", "term", "player", "game", "login", "steam", "web", "title", "getty", "droid"}
  SupervisorName = {"steam"}
  InterfaceName = {"steam", "web"}
  RecipeName = {"droid"}
  MaxStart = 1
  MaxDepth = 3
  Guarded = {"game"}
  Windowed = {"player", "game", "login"}
  Spoken = {"player"}
  Launched = {"droid"}
  MaxGraces = 1
  InitialTables <- Trees
CHECK_DEADLOCK FALSE
INVARIANTS StoppedIsRemembered NothingStaysStopped SupervisorOutlivesItsApplications
PROPERTIES StoppedForAHiddenWindow OnlyOurOwn RecycledIsLeftAlone
