CONSTANTS
  Langs = {"java"}
  Types = {"ACM"}
  Tasks <- uncounted
  Times = {1}
  Memories = {1}
  Signals = {"time", "output", "error"}
SPECIFICATION FairSpec
PROPERTY Ends
CHECK_DEADLOCK FALSE
