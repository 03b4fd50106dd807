CONSTANTS
  r1 = r1
  r2 = r2
  r3 = r3
  Request = {r1, r2}
  Worker = {w1}
  sid <- solution
  cid <- contest
  Faults = {}
  MaxSigterm = 1
  Endings <- threeEndings
  NoReq = NoReq
  Missing = Missing
  Empty = Empty
  Stale = Stale
  SE = SE
SPECIFICATION Spec
INVARIANT SilentFailureIsSystemError
CHECK_DEADLOCK FALSE
