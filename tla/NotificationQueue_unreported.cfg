SPECIFICATION FairSpec

CONSTANTS
  QueueLimit = 1
  MaxSent = 2

PROPERTIES
  LossIsReported

CHECK_DEADLOCK FALSE
