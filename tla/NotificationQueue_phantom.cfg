SPECIFICATION Spec

CONSTANTS
  QueueLimit = 1
  MaxSent = 3

INVARIANTS
  SignaledMeansEntry

CHECK_DEADLOCK FALSE
