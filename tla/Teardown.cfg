\* Two repositories, up to three notifications that each schedule one
\* of them.  No deadlock check: the process ends.
SPECIFICATION FairTeardownSpec

CONSTANTS
  Repos = {r1, r2}
  MaxSchedules = 3
  NoRepo = NoRepo

INVARIANTS
  TeardownTypeOK
  AlwaysOneRound
  UsedIsAlive

PROPERTIES
  ScheduledIsPrimed
  CancelledIsJoined
  NotifierIsJoined

CHECK_DEADLOCK FALSE
