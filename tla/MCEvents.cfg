CONSTANTS
  Kept = 1
  MaxJobs = 2
  MaxTools = 1
  MaxQuestions = 2
  MaxLines = 1
  MaxTroubles = 1
  MaxSpent = 1
SPECIFICATION FairSpec
INVARIANT QuestionIsTold
INVARIANT RingsOnce
PROPERTY FinishedIsTold
PROPERTY NoObsoletePrompt
CHECK_DEADLOCK FALSE
