\* Two directories with room for two changes between reads, a queue of one, and four
\* changes, enough to overflow either.  No deadlock check: the bounds on changes and
\* pushes end the run.
SPECIFICATION FairSystemSpec

CONSTANTS
  QueueLimit = 1
  MaxSent = 6
  Directories = {d1, d2}
  BufferLimit = 2
  MaxChanges = 4
  Lost = Lost

INVARIANTS
  SystemTypeOK
  ItemsAreSignaled
  LossIsRemembered
  ChangeIsOnItsWay
  PushedInOrder

PROPERTIES
  ServiceSpec
  ChangeArrives

CHECK_DEADLOCK FALSE
