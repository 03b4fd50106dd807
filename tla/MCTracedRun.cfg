CONSTANTS
  Tasks <- tasks
  Times = {10000}
  Memories = {1, 3}
  Signals = {"time", "child"}
  Call <- calls
  SC <- counts
  execve = 59
  Exits = {231}
  Traps = {59}
  Files <- files
  Durations = {0, 10347}
  Slow = {"compile", "trace", "compare"}
SPECIFICATION TracedSpec
INVARIANTS
  TracedTypeOK CallsWithinCount FlagFollowsProgram RestrictedDeserved
   TimeoutExplained
PROPERTY IterationConsumes
CHECK_DEADLOCK FALSE
