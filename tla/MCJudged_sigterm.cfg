CONSTANTS
  r1 = r1
  r2 = r2
  r3 = r3
  Request = {r1}
  Worker = {w1}
  sid <- solution
  cid <- contest
  Faults = {"term"}
  MaxSigterm = 1
  Endings <- threeEndings
  NoReq = NoReq
  Missing = Missing
  Empty = Empty
  Stale = Stale
  SE = SE
SPECIFICATION FairSpec
PROPERTY SigtermExits
CHECK_DEADLOCK FALSE
