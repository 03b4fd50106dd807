CONSTANTS
  Langs = {"c"}
  Types = {"ACM"}
  Tasks <- tasks
  Times = {1}
  Memories = {1}
  Signals = {"child", "time"}
SPECIFICATION Spec
INVARIANT AcceptedMeansAllAccepted
CHECK_DEADLOCK FALSE
