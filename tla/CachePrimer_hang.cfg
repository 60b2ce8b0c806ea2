\* No deadlock check: the thread may be joined.
SPECIFICATION FairSpec
CONSTANTS
  Repos = {r1}
  MaxSchedules = 1
PROPERTY DestroyedIsJoined
CHECK_DEADLOCK FALSE
