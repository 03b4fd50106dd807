CONSTANTS
  Producers = {p1, p2}
  Consumers = {c1, c2, c3}
  Items = {x1, x2}
  None = None
  Free = Free
  MaxPush = 4
SPECIFICATION FairSpec
INVARIANTS TypeOK NoLostWakeup TestStillHolds
PROPERTIES ImplementsFifoQueue Drained
CHECK_DEADLOCK FALSE
