\* No deadlock check: the process ends.
SPECIFICATION TeardownSpec
CONSTANTS
  Repos = {r1}
  MaxSchedules = 1
  NoRepo = NoRepo
INVARIANT TokensAreAlive
CHECK_DEADLOCK FALSE
