CONSTANTS
  r1 = r1
  r2 = r2
  r3 = r3
  Request = {r1, r2, r3}
  Worker = {w1}
  sid <- solution
  cid <- contest
  Faults = {"kill", "pipe", "fork", "curl"}
  MaxSigterm = 0
  Endings <- threeEndings
  NoReq = NoReq
  Missing = Missing
  Empty = Empty
  Stale = Stale
  SE = SE
SPECIFICATION ProgressSpec
INVARIANTS
  NothingLost ReportedInOrder FreshVerdict NoProgressAfterVerdict SettlesOnNewest
CHECK_DEADLOCK FALSE
SYMMETRY Rejudges
