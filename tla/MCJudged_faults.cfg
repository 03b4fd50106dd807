CONSTANTS
  r1 = r1
  r2 = r2
  r3 = r3
  Request = {r1, r2}
  Worker = {w1, w2}
  sid <- solution
  cid <- contest
  Faults = {"term", "strayTerm", "exec", "fork"}
  MaxSigterm = 1
  Endings <- readEndings
  NoReq = NoReq
  Missing = Missing
  Empty = Empty
  Stale = Stale
  SE = SE
SPECIFICATION Spec
SYMMETRY Workers
INVARIANTS
  TypeOK NothingLost NothingTwice FirstComeFirstJudged OneMoreJobAfterSigterm
  WaitsForChild
PROPERTIES OnwardOnly ImplementsJudgeService JobsBehave
CHECK_DEADLOCK FALSE
