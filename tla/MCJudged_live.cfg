CONSTANTS
  r1 = r1
  r2 = r2
  r3 = r3
  Request = {r1, r2}
  Worker = {w1, w2}
  sid <- solution
  cid <- contest
  Faults = {"stop", "curl", "http", "kill", "pipe"}
  MaxSigterm = 0
  Endings <- timedEndings
  NoReq = NoReq
  Missing = Missing
  Empty = Empty
  Stale = Stale
  SE = SE
SPECIFICATION LiveSpec
INVARIANTS OkMeansEnded NotFromBefore
PROPERTY AckedIsReported
CHECK_DEADLOCK FALSE
