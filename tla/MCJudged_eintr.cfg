CONSTANTS
  r1 = r1
  r2 = r2
  r3 = r3
  Request = {r1}
  Worker = {w1}
  sid <- solution
  cid <- contest
  Faults = {"strayTerm"}
  MaxSigterm = 1
  Endings <- threeEndings
  NoReq = NoReq
  Missing = Missing
  Empty = Empty
  Stale = Stale
  SE = SE
SPECIFICATION Spec
INVARIANT OkMeansEnded
CHECK_DEADLOCK FALSE
