CONSTANTS
  Langs = {"c", "java", "kotlin", "python"}
  Types = {"ACM", "OI"}
  Tasks <- tasks
  Times = {1, 2, 3}
  Memories = {1, 2, 3}
  Signals = {"child", "time", "output", "error"}
SPECIFICATION FairSpec
INVARIANTS TypeOK AcceptedMeansNoneFailed TestIsFirstFailure UsageExplainsVerdict
PROPERTIES ImplementsJudgeProcess RunsForward Ends
CHECK_DEADLOCK FALSE
