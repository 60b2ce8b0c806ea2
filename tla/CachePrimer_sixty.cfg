\* No deadlock check: the thread may be joined.
SPECIFICATION FairSpec
CONSTANTS
  Repos = {r1}
  MaxSchedules = 1
INVARIANT ScheduledInFiveSeconds
CHECK_DEADLOCK FALSE
