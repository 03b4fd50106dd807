CONSTANTS
  Langs = {"c"}
  Types = {"OI"}
  Tasks <- tasks
  Times = {1, 3}
  Memories = {1, 3}
  Signals = {"time", "output", "error"}
SPECIFICATION Spec
INVARIANT AcceptedMeansNoFailure
CHECK_DEADLOCK FALSE
