SPECIFICATION Spec

CONSTANTS
  QueueLimit = 1
  MaxSent = 3

INVARIANTS
  EntryIsThereToTakeBack

CHECK_DEADLOCK FALSE
